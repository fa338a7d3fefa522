------------------------ MODULE WorkspaceMergeProofs ------------------------
(***************************************************************************)
(* Proofs about WorkspaceMerge, for every number of jobs, files, edits,    *)
(* crashes and failed operations: type correctness, and that what the user *)
(* wrote is not lost.                                                      *)
(*                                                                         *)
(* The types are not independent of each other.  A step of process reads   *)
(* the commits of its job, a replay the commits of an operation row, the   *)
(* writeback the rows of the manifest: that they are there when they are   *)
(* read is the invariant TypeInv, of which Place says what each position   *)
(* of the worker relies on.  A commit is Good when its ancestry holds its  *)
(* own tree and no edit that was not made.                                 *)
(*                                                                         *)
(* An edit the user made is still in its file, unless the user's decision  *)
(* on a conflict gave it up, a revision wrote over it in a file that was   *)
(* not written to the end, or it was saved in the window between the last  *)
(* check of the writeback and its rename (EditsStay).  The rename replaces *)
(* the folder's file by the row's after, so EditsStay rests on after       *)
(* keeping what before had; the rows come from the job's external and      *)
(* merged commits, the merged commit from the merge in the integration     *)
(* worktree, its pin or a revision, and the merge from the base, external  *)
(* and source commits.  KeepInv says of each of these that nothing of the  *)
(* user's is dropped on the way, of the queue that one job at a time has   *)
(* taken the user's edits, and of the worker's position that the merge it  *)
(* finds in the worktree is the one of its own job.                        *)
(***************************************************************************)
EXTENDS WorkspaceMerge, TLAPS

-----------------------------------------------------------------------------
(* The shape of the state. *)

Indexing == {"index", "staged"}
Revising == {"reviseMain", "reviseDelivered", "reviseJob", "reviseRow"}
Cancelling == {"cancelMain", "cancelDelivered", "cancelRow", "cancelJob", "cancelled"}
Importing == {"importMain", "importDelivered", "importRow"}
Resting == {"idle", "head", "boot", "recover", "validate"}
Steps == Processing \cup Indexing \cup Revising \cup Cancelling \cup Importing \cup Resting
\* The steps of process by what they rely on.
Adopting == {"moveMain", "moveDelivered", "saveExternal", "adoptExternal"}
Merging == {"merge", "commit"}
Writing == {"file", "recheck", "rename", "observe"}
Merged == {"advance", "reset", "manifest", "deliver", "saveDelivered", "finish"} \cup Writing

\* A commit whose past holds its tree and, of the user's edits, only ones that were made.
Good == {c \in Commits : /\ MarksOf(c.tree) \subseteq c.past
                         /\ \A m \in c.past : m[1] \in Edits => m \in made}
Maybe == Good \cup {None}
JobRows == [state : JobStates, source : Maybe, base : Maybe, external : Maybe, merged : Maybe]
IntentRows == [before : Good, target : Good]
RootRows == [main : Good, delivered : Good, state : {"ready", "recovering", "failed"}]
Integs == [source : Maybe, tree : Trees \cup {None}, conflicts : SUBSET Paths]
Decisions == UNION {[d -> Actions] : d \in SUBSET Paths}

OpOK(o) ==
    /\ o.kind \in {"resolve_index", "writeback_revision", "merge_cancel", "external"}
    /\ o.kind = "resolve_index" =>
          /\ o.job \in Jobs /\ o.choice \in Decisions
          /\ job[o.job].external # None /\ job[o.job].state # "none"
    /\ o.kind = "writeback_revision" =>
          /\ o.job \in Jobs /\ o.before \in Good /\ o.target \in Good /\ o.external \in Good
          /\ job[o.job].merged # None /\ job[o.job].state # "none"
    /\ o.kind = "merge_cancel" => o.job \in Jobs /\ o.target \in Good /\ job[o.job].state # "none"
    /\ o.kind = "external" => o.before \in Good /\ o.target \in Good

RefsOK == main \in Good /\ delivered \in Good /\ row \in RootRows
FolderOK ==
    /\ user \in Trees
    /\ \A m \in Marks : m[1] \in Edits /\ m[1] \in user[m[2]] => m \in made
    /\ made \subseteq Marks /\ raced \subseteq made /\ waived \subseteq Marks /\ swept \subseteq Marks
JobOK(j) ==
    /\ job[j].state = "none" => job[j] = NoJob /\ intent[j] = None /\ pin[j] = None
    /\ job[j].state # "none" => job[j].source # None /\ job[j].base # None
    /\ job[j].merged # None => job[j].external # None
    /\ job[j].state = "conflicted" => job[j].external # None
    /\ pin[j] # None => job[j].external # None
    /\ \A p \in Paths : files[j][p] # None =>
          job[j].merged # None /\ \A x \in files[j][p].after : x \in Edits => <<x, p>> \in made
JobsOK ==
    /\ job \in [Jobs -> JobRows]
    /\ intent \in [Jobs -> {None} \cup IntentRows]
    /\ pin \in [Jobs -> Maybe]
    /\ files \in [Jobs -> [Paths -> {None} \cup FileRows]]
    /\ \A j \in Jobs : JobOK(j)
IntegOK ==
    /\ integ \in Integs
    /\ integ.source # None =>
          integ.tree \in Trees /\ \A m \in MarksOf(integ.tree) : m[1] \in Edits => m \in made
OpsOK ==
    /\ \A o \in ops \cup w.todo : OpOK(o)
    /\ \A o \in w.todo : o.kind # "resolve_index" => o \in ops
WorkOK ==
    /\ w = [at |-> w.at, job |-> w.job, left |-> w.left, op |-> w.op, todo |-> w.todo, boot |-> w.boot]
    /\ w.at \in Steps /\ w.left \subseteq Paths /\ w.boot \in BOOLEAN
Place ==
    /\ w.at \in Processing \cup {"head", "idle", "boot", "validate"} => w.todo = {}
    /\ w.at \in Processing => w.job \in Jobs /\ job[w.job].state # "none"
    /\ w.at \in Adopting => intent[w.job] # None
    /\ w.at \in Merging => job[w.job].external # None
    /\ w.at = "commit" => integ.source # None
    /\ w.at \in Merged => job[w.job].merged # None
    /\ w.at \in Writing => \A p \in w.left : files[w.job][p] # None
    /\ w.at \in Writing \ {"file"} => w.left # {}
    /\ w.at \in Indexing => OpOK(w.op) /\ w.op.kind = "resolve_index"
    /\ w.at \in Revising => w.op \in ops /\ w.op.kind = "writeback_revision"
    /\ w.at \in Cancelling => w.op \in ops /\ w.op.kind = "merge_cancel"
    /\ w.at \in Importing => w.op \in ops /\ w.op.kind = "external"
    /\ w.at \in Indexing \cup Revising \cup Cancelling => w.job = w.op.job

TypeInv == RefsOK /\ FolderOK /\ JobsOK /\ IntegOK /\ OpsOK /\ WorkOK /\ Place

-----------------------------------------------------------------------------
(* What each step may change. *)

\* main moves by a compare-and-set of a step of the worker.
LEMMA MainMoves ==
    ASSUME Next
    PROVE  UNCHANGED main \/ MoveMain \/ Advance \/ ReviseMain \/ CancelMain \/ ImportMain \/
           RecoverImport
<1>1. ASSUME Process PROVE UNCHANGED main \/ MoveMain \/ Advance
  BY <1>1, Zenon DEF Process, TakeHead, Prepare, MoveDelivered, SaveExternal, AdoptExternal,
     Merge, CommitMerge, Reset, StartWriting, ApplyFile, Recheck, Rename, Observe, Verify,
     Deliver, SaveDelivered, FinishJob, refs, notes
<1>2. ASSUME Operate
      PROVE  UNCHANGED main \/ ReviseMain \/ CancelMain \/ ImportMain \/
            RecoverImport
  BY <1>2, Zenon DEF Operate, StageIndex, FinishIndex, ReviseDelivered, ReviseJob, ReviseRow,
     CancelDelivered, CancelRow, CancelJob, FinishCancel, ImportDelivered, ImportRow,
     RecoverNext, Validate, refs, notes
<1>3. ASSUME NEW j \in Jobs, Enqueue(j) \/ Decide(j) PROVE UNCHANGED main
  BY <1>3, Zenon DEF Decide, Enqueue, ResolveMerge, AuditRefuses, ResolveWriteback,
     ResolveAgain, Cancel, Retry, refs, notes
<1>4. ASSUME Drain \/ ImportExternal \/ Fault \/ Crash PROVE UNCHANGED main
  BY <1>4, Zenon DEF Drain, ImportExternal, Fault, Crash, refs, notes
<1>5. ASSUME NEW p \in Paths, NEW e \in Edits, Edit(p, e) PROVE UNCHANGED main
  BY <1>5, Zenon DEF Edit, refs, notes
<1> QED BY <1>1, <1>2, <1>3, <1>4, <1>5, Zenon DEF Next

\* So does the delivered ref.
LEMMA DeliveredMoves ==
    ASSUME Next
    PROVE  UNCHANGED delivered \/ MoveDelivered \/ Deliver \/ ReviseDelivered \/
           CancelDelivered \/ ImportDelivered \/ RecoverImport
<1>1. ASSUME Process PROVE UNCHANGED delivered \/ MoveDelivered \/ Deliver
  BY <1>1, Zenon DEF Process, TakeHead, Prepare, MoveMain, SaveExternal, AdoptExternal, Merge,
     CommitMerge, Advance, Reset, StartWriting, ApplyFile, Recheck, Rename, Observe, Verify,
     SaveDelivered, FinishJob, refs, notes
<1>2. ASSUME Operate
      PROVE  UNCHANGED delivered \/ ReviseDelivered \/ CancelDelivered \/
            ImportDelivered \/ RecoverImport
  BY <1>2, Zenon DEF Operate, StageIndex, FinishIndex, ReviseMain, ReviseJob, ReviseRow,
     CancelMain, CancelRow, CancelJob, FinishCancel, ImportMain, ImportRow, RecoverNext,
     Validate, refs, notes
<1>3. ASSUME NEW j \in Jobs, Enqueue(j) \/ Decide(j) PROVE UNCHANGED delivered
  BY <1>3, Zenon DEF Decide, Enqueue, ResolveMerge, AuditRefuses, ResolveWriteback,
     ResolveAgain, Cancel, Retry, refs, notes
<1>4. ASSUME Drain \/ ImportExternal \/ Fault \/ Crash PROVE UNCHANGED delivered
  BY <1>4, Zenon DEF Drain, ImportExternal, Fault, Crash, refs, notes
<1>5. ASSUME NEW p \in Paths, NEW e \in Edits, Edit(p, e) PROVE UNCHANGED delivered
  BY <1>5, Zenon DEF Edit, refs, notes
<1> QED BY <1>1, <1>2, <1>3, <1>4, <1>5, Zenon DEF Next

\* The folder changes by a rename of the writeback and by the user.
LEMMA UserMoves ==
    ASSUME Next
    PROVE  UNCHANGED <<user, made, raced>> \/ Rename \/
           (\E p \in Paths, e \in Edits : Edit(p, e))
<1>1. ASSUME Process PROVE UNCHANGED <<user, made, raced>> \/ Rename
  BY <1>1, Zenon DEF Process, TakeHead, Prepare, MoveMain, MoveDelivered, SaveExternal,
     AdoptExternal, Merge, CommitMerge, Advance, Reset, StartWriting, ApplyFile, Recheck,
     Observe, Verify, Deliver, SaveDelivered, FinishJob, refs, notes
<1>2. ASSUME Operate PROVE UNCHANGED <<user, made, raced>>
  BY <1>2, Zenon DEF Operate, StageIndex, FinishIndex, ReviseMain, ReviseDelivered, ReviseJob,
     ReviseRow, CancelMain, CancelDelivered, CancelRow, CancelJob, FinishCancel, ImportMain,
     ImportDelivered, ImportRow, RecoverImport, RecoverNext, Validate, refs, notes
<1>3. ASSUME NEW j \in Jobs, Enqueue(j) \/ Decide(j) PROVE UNCHANGED <<user, made, raced>>
  BY <1>3, Zenon DEF Decide, Enqueue, ResolveMerge, AuditRefuses, ResolveWriteback,
     ResolveAgain, Cancel, Retry, refs, notes
<1>4. ASSUME Drain \/ ImportExternal \/ Fault \/ Crash PROVE UNCHANGED <<user, made, raced>>
  BY <1>4, Zenon DEF Drain, ImportExternal, Fault, Crash, refs, notes
<1> QED BY <1>1, <1>2, <1>3, <1>4, Zenon DEF Next

\* The steps that write a job.
LEMMA JobMoves ==
    ASSUME Next
    PROVE  UNCHANGED job \/ Prepare \/ MoveMain \/ MoveDelivered \/ AdoptExternal \/ Merge \/
           CommitMerge \/ Advance \/ StartWriting \/ ApplyFile \/ Recheck \/ Observe \/
           Verify \/ Deliver \/ FinishJob \/ FinishIndex \/ ReviseJob \/ CancelJob \/ Fault \/
           (\E j \in Jobs : Enqueue(j))
<1>1. ASSUME Process
      PROVE  UNCHANGED job \/ Prepare \/ MoveMain \/ MoveDelivered \/
            AdoptExternal \/ Merge \/ CommitMerge \/ Advance \/ StartWriting \/ ApplyFile \/
            Recheck \/ Observe \/ Verify \/ Deliver \/ FinishJob
  BY <1>1, Zenon DEF Process, TakeHead, SaveExternal, Reset, Rename, SaveDelivered, refs, notes
<1>2. ASSUME Operate PROVE UNCHANGED job \/ FinishIndex \/ ReviseJob \/ CancelJob
  BY <1>2, Zenon DEF Operate, StageIndex, ReviseMain, ReviseDelivered, ReviseRow, CancelMain,
     CancelDelivered, CancelRow, FinishCancel, ImportMain, ImportDelivered, ImportRow,
     RecoverImport, RecoverNext, Validate, refs, notes
<1>3. ASSUME NEW j \in Jobs, Enqueue(j) \/ Decide(j) PROVE UNCHANGED job \/ Enqueue(j)
  BY <1>3, Zenon DEF Decide, ResolveMerge, AuditRefuses, ResolveWriteback, ResolveAgain, Cancel,
     Retry, refs, notes
<1>4. ASSUME Drain \/ ImportExternal \/ Crash PROVE UNCHANGED job
  BY <1>4, Zenon DEF Drain, ImportExternal, Crash, refs, notes
<1>5. ASSUME NEW p \in Paths, NEW e \in Edits, Edit(p, e) PROVE UNCHANGED job
  BY <1>5, Zenon DEF Edit, refs, notes
<1> QED BY <1>1, <1>2, <1>3, <1>4, <1>5, Zenon DEF Next

\* The steps that record an intent or pin a merge commit.
LEMMA PinMoves ==
    ASSUME Next
    PROVE  UNCHANGED <<intent, pin>> \/ Prepare \/ Merge \/ CommitMerge
<1>1. ASSUME Process PROVE UNCHANGED <<intent, pin>> \/ Prepare \/ Merge \/ CommitMerge
  BY <1>1, Zenon DEF Process, TakeHead, MoveMain, MoveDelivered, SaveExternal, AdoptExternal,
     Advance, Reset, StartWriting, ApplyFile, Recheck, Rename, Observe, Verify, Deliver,
     SaveDelivered, FinishJob, refs, notes
<1>2. ASSUME Operate PROVE UNCHANGED <<intent, pin>>
  BY <1>2, Zenon DEF Operate, StageIndex, FinishIndex, ReviseMain, ReviseDelivered, ReviseJob,
     ReviseRow, CancelMain, CancelDelivered, CancelRow, CancelJob, FinishCancel, ImportMain,
     ImportDelivered, ImportRow, RecoverImport, RecoverNext, Validate, refs, notes
<1>3. ASSUME NEW j \in Jobs, Enqueue(j) \/ Decide(j) PROVE UNCHANGED <<intent, pin>>
  BY <1>3, Zenon DEF Decide, Enqueue, ResolveMerge, AuditRefuses, ResolveWriteback,
     ResolveAgain, Cancel, Retry, refs, notes
<1>4. ASSUME Drain \/ ImportExternal \/ Fault \/ Crash PROVE UNCHANGED <<intent, pin>>
  BY <1>4, Zenon DEF Drain, ImportExternal, Fault, Crash, refs, notes
<1>5. ASSUME NEW p \in Paths, NEW e \in Edits, Edit(p, e) PROVE UNCHANGED <<intent, pin>>
  BY <1>5, Zenon DEF Edit, refs, notes
<1> QED BY <1>1, <1>2, <1>3, <1>4, <1>5, Zenon DEF Next

\* The steps that write rows of the manifest.
LEMMA FilesMove ==
    ASSUME Next
    PROVE  UNCHANGED files \/ StartWriting \/ ApplyFile \/ Recheck \/ Observe \/ Verify \/
           ReviseJob \/ ReviseRow \/ (\E j \in Jobs : AuditRefuses(j))
<1>1. ASSUME Process
      PROVE  UNCHANGED files \/ StartWriting \/ ApplyFile \/ Recheck \/
            Observe \/ Verify
  BY <1>1, Zenon DEF Process, TakeHead, Prepare, MoveMain, MoveDelivered, SaveExternal,
     AdoptExternal, Merge, CommitMerge, Advance, Reset, Rename, Deliver, SaveDelivered,
     FinishJob, refs, notes
<1>2. ASSUME Operate PROVE UNCHANGED files \/ ReviseJob \/ ReviseRow
  BY <1>2, Zenon DEF Operate, StageIndex, FinishIndex, ReviseMain, ReviseDelivered, CancelMain,
     CancelDelivered, CancelRow, CancelJob, FinishCancel, ImportMain, ImportDelivered,
     ImportRow, RecoverImport, RecoverNext, Validate, refs, notes
<1>3. ASSUME NEW j \in Jobs, Enqueue(j) \/ Decide(j) PROVE UNCHANGED files \/ AuditRefuses(j)
  BY <1>3, Zenon DEF Decide, Enqueue, ResolveMerge, ResolveWriteback, ResolveAgain, Cancel,
     Retry, refs, notes
<1>4. ASSUME Drain \/ ImportExternal \/ Fault \/ Crash PROVE UNCHANGED files
  BY <1>4, Zenon DEF Drain, ImportExternal, Fault, Crash, refs, notes
<1>5. ASSUME NEW p \in Paths, NEW e \in Edits, Edit(p, e) PROVE UNCHANGED files
  BY <1>5, Zenon DEF Edit, refs, notes
<1> QED BY <1>1, <1>2, <1>3, <1>4, <1>5, Zenon DEF Next

\* The steps that touch the integration worktree.
LEMMA IntegMoves ==
    ASSUME Next
    PROVE  UNCHANGED integ \/ Merge \/ Reset \/ StageIndex \/ CancelRow \/ ImportRow \/
           RecoverImport
<1>1. ASSUME Process PROVE UNCHANGED integ \/ Merge \/ Reset
  BY <1>1, Zenon DEF Process, TakeHead, Prepare, MoveMain, MoveDelivered, SaveExternal,
     AdoptExternal, CommitMerge, Advance, StartWriting, ApplyFile, Recheck, Rename, Observe,
     Verify, Deliver, SaveDelivered, FinishJob, refs, notes
<1>2. ASSUME Operate
      PROVE  UNCHANGED integ \/ StageIndex \/ CancelRow \/ ImportRow \/
            RecoverImport
  BY <1>2, Zenon DEF Operate, FinishIndex, ReviseMain, ReviseDelivered, ReviseJob, ReviseRow,
     CancelMain, CancelDelivered, CancelJob, FinishCancel, ImportMain, ImportDelivered,
     RecoverNext, Validate, refs, notes
<1>3. ASSUME NEW j \in Jobs, Enqueue(j) \/ Decide(j) PROVE UNCHANGED integ
  BY <1>3, Zenon DEF Decide, Enqueue, ResolveMerge, AuditRefuses, ResolveWriteback,
     ResolveAgain, Cancel, Retry, refs, notes
<1>4. ASSUME Drain \/ ImportExternal \/ Fault \/ Crash PROVE UNCHANGED integ
  BY <1>4, Zenon DEF Drain, ImportExternal, Fault, Crash, refs, notes
<1>5. ASSUME NEW p \in Paths, NEW e \in Edits, Edit(p, e) PROVE UNCHANGED integ
  BY <1>5, Zenon DEF Edit, refs, notes
<1> QED BY <1>1, <1>2, <1>3, <1>4, <1>5, Zenon DEF Next

\* The steps that record or finish an operation.
LEMMA OpsMove ==
    ASSUME Next
    PROVE  UNCHANGED ops \/ FinishIndex \/ ReviseRow \/ FinishCancel \/ ImportRow \/
           RecoverImport \/ RecoverNext \/ ImportExternal \/
           (\E j \in Jobs : ResolveMerge(j) \/ ResolveWriteback(j) \/ Cancel(j))
<1>1. ASSUME Process PROVE UNCHANGED ops
  BY <1>1, Zenon DEF Process, TakeHead, Prepare, MoveMain, MoveDelivered, SaveExternal,
     AdoptExternal, Merge, CommitMerge, Advance, Reset, StartWriting, ApplyFile, Recheck,
     Rename, Observe, Verify, Deliver, SaveDelivered, FinishJob, refs, notes
<1>2. ASSUME Operate
      PROVE  UNCHANGED ops \/ FinishIndex \/ ReviseRow \/ FinishCancel \/
            ImportRow \/ RecoverImport \/ RecoverNext
  BY <1>2, Zenon DEF Operate, StageIndex, ReviseMain, ReviseDelivered, ReviseJob, CancelMain,
     CancelDelivered, CancelRow, CancelJob, ImportMain, ImportDelivered, Validate, refs, notes
<1>3. ASSUME NEW j \in Jobs, Enqueue(j) \/ Decide(j)
      PROVE  UNCHANGED ops \/
            ResolveMerge(j) \/ ResolveWriteback(j) \/ Cancel(j)
  BY <1>3, Zenon DEF Decide, Enqueue, AuditRefuses, ResolveAgain, Retry, refs, notes
<1>4. ASSUME Drain \/ Fault \/ Crash PROVE UNCHANGED ops
  BY <1>4, Zenon DEF Drain, Fault, Crash, refs, notes
<1>5. ASSUME NEW p \in Paths, NEW e \in Edits, Edit(p, e) PROVE UNCHANGED ops
  BY <1>5, Zenon DEF Edit, refs, notes
<1> QED BY <1>1, <1>2, <1>3, <1>4, <1>5, Zenon DEF Next

\* Only decisions give edits up.
LEMMA WaivedMoves ==
    ASSUME Next
    PROVE  UNCHANGED <<waived, swept>> \/
           (\E j \in Jobs : ResolveMerge(j) \/ ResolveWriteback(j))
<1>1. ASSUME Process PROVE UNCHANGED <<waived, swept>>
  BY <1>1, Zenon DEF Process, TakeHead, Prepare, MoveMain, MoveDelivered, SaveExternal,
     AdoptExternal, Merge, CommitMerge, Advance, Reset, StartWriting, ApplyFile, Recheck,
     Rename, Observe, Verify, Deliver, SaveDelivered, FinishJob, refs, notes
<1>2. ASSUME Operate PROVE UNCHANGED <<waived, swept>>
  BY <1>2, Zenon DEF Operate, StageIndex, FinishIndex, ReviseMain, ReviseDelivered, ReviseJob,
     ReviseRow, CancelMain, CancelDelivered, CancelRow, CancelJob, FinishCancel, ImportMain,
     ImportDelivered, ImportRow, RecoverImport, RecoverNext, Validate, refs, notes
<1>3. ASSUME NEW j \in Jobs, Enqueue(j) \/ Decide(j)
      PROVE  UNCHANGED <<waived, swept>> \/
            ResolveMerge(j) \/ ResolveWriteback(j)
  BY <1>3, Zenon DEF Decide, Enqueue, AuditRefuses, ResolveAgain, Cancel, Retry, refs, notes
<1>4. ASSUME Drain \/ ImportExternal \/ Fault \/ Crash PROVE UNCHANGED <<waived, swept>>
  BY <1>4, Zenon DEF Drain, ImportExternal, Fault, Crash, refs, notes
<1>5. ASSUME NEW p \in Paths, NEW e \in Edits, Edit(p, e) PROVE UNCHANGED <<waived, swept>>
  BY <1>5, Zenon DEF Edit, refs, notes
<1> QED BY <1>1, <1>2, <1>3, <1>4, <1>5, Zenon DEF Next

\* What is given up stays given up, and only marks are.
LEMMA WaivedGrows ==
    ASSUME Next
    PROVE  /\ waived \subseteq waived' /\ swept \subseteq swept'
           /\ waived' \subseteq waived \cup Marks /\ swept' \subseteq swept \cup Marks
<1>1. ASSUME NEW j \in Jobs, ResolveMerge(j)
      PROVE  swept' = swept /\ \E choice, ours, theirs : waived' = waived \cup GivenUp(choice, ours, theirs)
  BY <1>1, Zenon DEF ResolveMerge
<1>2. ASSUME NEW j \in Jobs, ResolveWriteback(j)
      PROVE  /\ \E choice, ours, theirs : waived' = waived \cup GivenUp(choice, ours, theirs)
             /\ swept \subseteq swept' /\ swept' \subseteq swept \cup Marks
  <2>1. \E choice, ours, theirs : waived' = waived \cup GivenUp(choice, ours, theirs)
    BY <1>2, Zenon DEF ResolveWriteback
  <2>2. swept \subseteq swept' /\ swept' \subseteq swept \cup Marks
    BY <1>2, Zenon DEF ResolveWriteback, MarksOf
  <2> QED BY <2>1, <2>2
<1>3. \A choice, ours, theirs : GivenUp(choice, ours, theirs) \subseteq Marks
  BY Zenon DEF GivenUp
<1> QED BY <1>1, <1>2, <1>3, WaivedMoves, Zenon

-----------------------------------------------------------------------------
(* Commits and the head of the queue. *)

\* What is first in a set of jobs or files.
LEMMA FirstIs ==
    ASSUME NEW D, D \subseteq Jobs \/ D \subseteq Paths, D # {}
    PROVE  First(D) \in D /\ \A e \in D : First(D) <= e
<1>1. \E x \in D : IsFirst(x, D) BY OrderAssumption
<1> QED BY <1>1, Zenon DEF First, IsFirst

\* The head of the queue is a job that is not over, and none before it is.
LEMMA HeadIsLive ==
    /\ Live # {} => FifoHead \in Live /\ \A j \in Live : FifoHead <= j
    /\ Live = {} => FifoHead = None
<1>1. Live \subseteq Jobs BY Zenon DEF Live
<1> QED BY <1>1, FirstIs, Zenon DEF FifoHead

\* What a good commit has.
LEMMA GoodFields ==
    ASSUME NEW c \in Good
    PROVE  /\ c \in Commits /\ c # None
           /\ c.tree \in Trees /\ c.past \subseteq Marks /\ c.srcs \subseteq Jobs
           /\ MarksOf(c.tree) \subseteq c.past
           /\ \A m \in c.past : m[1] \in Edits => m \in made
  BY MergeAssumption DEF Good, Commits

\* What a commit records of its tree and its parents.
LEMMA CommitFields ==
    ASSUME NEW tree, NEW parents, NEW by
    PROVE  /\ Commit(tree, parents, by).tree = tree
           /\ Commit(tree, parents, by).srcs = UNION {c.srcs : c \in parents}
BY DEF Commit

\* The row of a job that was never queued.
LEMMA NoJobFields ==
    NoJob.state = "none" /\ NoJob.external = None /\ NoJob.merged = None
BY DEF NoJob

\* A row of the manifest as it is first written.
NewRow(before, after) == [before |-> before, after |-> after, state |-> "pending"]
LEMMA NewRowFields ==
    ASSUME NEW before, NEW after
    PROVE  NewRow(before, after).before = before /\ NewRow(before, after).after = after
BY DEF NewRow

\* An integration worktree as git merge leaves it.
Begun(source, clash, tree) == [source |-> source, conflicts |-> clash, tree |-> tree]
LEMMA BegunFields ==
    ASSUME NEW source, NEW clash, NEW tree
    PROVE  Begun(source, clash, tree).source = source /\ Begun(source, clash, tree).tree = tree
BY DEF Begun

\* A commit of a known tree on good parents is good.
LEMMA CommitGood ==
    ASSUME NEW tree \in Trees, NEW parents \in SUBSET Good, NEW by \in Jobs \cup {0, None},
           \A m \in MarksOf(tree) : m[1] \in Edits => m \in made
    PROVE  Commit(tree, parents, by) \in Good
<1> DEFINE c == Commit(tree, parents, by)
<1>1. c.tree = tree /\ c.by = by
  BY DEF Commit
<1>2. c.past = MarksOf(tree) \cup UNION {d.past : d \in parents}
  BY DEF Commit
<1>3. c.srcs = UNION {d.srcs : d \in parents}
  BY DEF Commit
<1>4. c.past \subseteq Marks /\ \A m \in c.past : m[1] \in Edits => m \in made
  BY <1>2, GoodFields DEF MarksOf
<1>5. c.srcs \subseteq Jobs
  BY <1>3, GoodFields
<1>6. c \in Commits
  BY <1>1, <1>4, <1>5 DEF Commit, Commits
<1> QED
  BY <1>1, <1>2, <1>4, <1>6 DEF Good

\* captureUserRoot: the files as they are, on top of the parent.
LEMMA CaptureIs ==
    ASSUME FolderOK, NEW c \in Good, NEW by \in Jobs \cup {0, None}
    PROVE  /\ Capture(c, by) \in Good
           /\ Capture(c, by).tree = user
           /\ Capture(c, by).past = c.past \cup MarksOf(user)
           /\ Capture(c, by).srcs = c.srcs
<1>1. CASE user = c.tree
  BY <1>1, GoodFields DEF Capture
<1>2. CASE user # c.tree
  <2>1. Capture(c, by) = Commit(user, {c}, by)
    BY <1>2 DEF Capture
  <2>2. Commit(user, {c}, by) \in Good
    BY CommitGood DEF FolderOK, MarksOf
  <2>3. /\ Commit(user, {c}, by).tree = user
        /\ Commit(user, {c}, by).past = MarksOf(user) \cup UNION {d.past : d \in {c}}
        /\ Commit(user, {c}, by).srcs = UNION {d.srcs : d \in {c}}
    BY DEF Commit
  <2>4. UNION {d.past : d \in {c}} = c.past /\ UNION {d.srcs : d \in {c}} = c.srcs
    OBVIOUS
  <2> QED BY <2>1, <2>2, <2>3, <2>4, Zenon
<1> QED BY <1>1, <1>2

\* The edits that were made only grow, and good commits stay good.
LEMMA MadeGrows ==
    ASSUME Next
    PROVE  /\ made \subseteq made' /\ Good \subseteq Good' /\ Maybe \subseteq Maybe'
           /\ JobRows \subseteq JobRows' /\ IntentRows \subseteq IntentRows'
           /\ RootRows \subseteq RootRows' /\ Integs \subseteq Integs'
<1>1. made \subseteq made'
  BY UserMoves DEF Rename, notes, Edit
<1>2. Good \subseteq Good'
  BY <1>1 DEF Good
<1>3. Maybe \subseteq Maybe'
  BY <1>2 DEF Maybe
<1> QED
  BY <1>1, <1>2, <1>3 DEF JobRows, IntentRows, RootRows, Integs

-----------------------------------------------------------------------------
(* Type correctness. *)

\* The operation at hand has the fields of its kind.
LEMMA OpFields ==
    ASSUME TypeInv
    PROVE  /\ w.at \in Revising => OpOK(w.op) /\ w.op.kind = "writeback_revision"
           /\ w.at \in Cancelling => OpOK(w.op) /\ w.op.kind = "merge_cancel"
           /\ w.at \in Importing => OpOK(w.op) /\ w.op.kind = "external"
           /\ w.at \in Indexing => OpOK(w.op) /\ w.op.kind = "resolve_index"
  BY DEF TypeInv, OpsOK, Place

\* The refs only ever move to good commits.
LEMMA RefsTyped ==
    ASSUME TypeInv, Next
    PROVE  main' \in Good /\ delivered' \in Good
<1> USE DEF TypeInv, RefsOK
<1>1. w.at \in Adopting => intent[w.job].target \in Good
  BY DEF Place, JobsOK, IntentRows, Adopting, Processing
<1>2. w.at \in Merged => job[w.job].merged \in Good
  BY DEF Place, JobsOK, JobRows, Maybe, Merged, Processing, Writing
<1>3. w.at \in Revising => w.op.target \in Good /\ w.op.external \in Good
  BY OpFields, Zenon DEF OpOK
<1>4. w.at \in Cancelling \cup Importing => w.op.target \in Good
  BY OpFields, Zenon DEF OpOK
<1>5. \A o \in ops : o.kind = "external" => o.target \in Good
  BY DEF OpsOK, OpOK
<1>6. main' \in Good
  <2>1. CASE MoveMain BY <1>1, <2>1 DEF MoveMain, At, Adopting
  <2>2. CASE Advance BY <1>2, <2>2 DEF Advance, At, Merged
  <2>3. CASE ReviseMain BY <1>3, <2>3 DEF ReviseMain, At, Revising
  <2>4. CASE CancelMain BY <1>4, <2>4 DEF CancelMain, At, Cancelling
  <2>5. CASE ImportMain BY <1>4, <2>5 DEF ImportMain, At, Importing
  <2>6. CASE RecoverImport BY <1>5, <2>6, Zenon DEF RecoverImport, refs
  <2> QED BY <2>1, <2>2, <2>3, <2>4, <2>5, <2>6, MainMoves
<1>7. delivered' \in Good
  <2>1. CASE MoveDelivered BY <1>1, <2>1 DEF MoveDelivered, At, Adopting
  <2>2. CASE Deliver BY <1>2, <2>2 DEF Deliver, At, Merged
  <2>3. CASE ReviseDelivered BY <1>3, <2>3 DEF ReviseDelivered, At, Revising
  <2>4. CASE CancelDelivered BY <1>4, <2>4 DEF CancelDelivered, At, Cancelling
  <2>5. CASE ImportDelivered BY <1>4, <2>5 DEF ImportDelivered, At, Importing
  <2>6. CASE RecoverImport BY <1>5, <2>6, Zenon DEF RecoverImport, refs
  <2> QED BY <2>1, <2>2, <2>3, <2>4, <2>5, <2>6, DeliveredMoves
<1> QED BY <1>6, <1>7

\* So do the rows of the Git roots.
LEMMA RowTyped ==
    ASSUME TypeInv, Next
    PROVE  row' \in RootRows
\* The row of the root is saved after the refs.
<1>RowMoves.
    ASSUME Next
    PROVE  UNCHANGED row \/ SaveExternal \/ Reset \/ SaveDelivered \/ ReviseRow \/ CancelRow \/
           ImportRow \/ RecoverImport \/ Validate
  <2>1. ASSUME Process PROVE UNCHANGED row \/ SaveExternal \/ Reset \/ SaveDelivered
    BY <2>1, Zenon DEF Process, TakeHead, Prepare, MoveMain, MoveDelivered, AdoptExternal, Merge,
       CommitMerge, Advance, StartWriting, ApplyFile, Recheck, Rename, Observe, Verify, Deliver,
       FinishJob, refs, notes
  <2>2. ASSUME Operate
        PROVE  UNCHANGED row \/ ReviseRow \/ CancelRow \/ ImportRow \/
              RecoverImport \/ Validate
    BY <2>2, Zenon DEF Operate, StageIndex, FinishIndex, ReviseMain, ReviseDelivered, ReviseJob,
       CancelMain, CancelDelivered, CancelJob, FinishCancel, ImportMain, ImportDelivered,
       RecoverNext, refs, notes
  <2>3. ASSUME NEW j \in Jobs, Enqueue(j) \/ Decide(j) PROVE UNCHANGED row
    BY <2>3, Zenon DEF Decide, Enqueue, ResolveMerge, AuditRefuses, ResolveWriteback,
       ResolveAgain, Cancel, Retry, refs, notes
  <2>4. ASSUME Drain \/ ImportExternal \/ Fault \/ Crash PROVE UNCHANGED row
    BY <2>4, Zenon DEF Drain, ImportExternal, Fault, Crash, refs, notes
  <2>5. ASSUME NEW p \in Paths, NEW e \in Edits, Edit(p, e) PROVE UNCHANGED row
    BY <2>5, Zenon DEF Edit, refs, notes
  <2> QED BY <2>1, <2>2, <2>3, <2>4, <2>5, Zenon DEF Next
<1> USE DEF TypeInv, RefsOK, RootRows
<1>1. w.at \in Adopting => intent[w.job].target \in Good
  BY DEF Place, JobsOK, IntentRows, Adopting, Processing
<1>2. w.at \in Merged => job[w.job].merged \in Good
  BY DEF Place, JobsOK, JobRows, Maybe, Merged, Processing, Writing
<1>3. w.at \in Revising => w.op.target \in Good /\ w.op.external \in Good
  BY OpFields, Zenon DEF OpOK
<1>4. w.at \in Cancelling \cup Importing => w.op.target \in Good
  BY OpFields, Zenon DEF OpOK
<1>5. \A o \in ops : o.kind = "external" => o.target \in Good
  BY DEF OpsOK, OpOK
<1>6. CASE SaveExternal BY <1>1, <1>6, Zenon DEF SaveExternal, At, Adopting
<1>7. CASE Reset BY <1>2, <1>7 DEF Reset, At, Merged
<1>8. CASE SaveDelivered BY <1>2, <1>8, Zenon DEF SaveDelivered, At, Merged
<1>9. CASE ReviseRow BY <1>3, <1>9, Zenon DEF ReviseRow, At, Revising
<1>10. CASE CancelRow BY <1>4, <1>10, Zenon DEF CancelRow, At, Cancelling
<1>11. CASE ImportRow BY <1>4, <1>11, Zenon DEF ImportRow, At, Importing
<1>12. CASE RecoverImport BY <1>5, <1>12, Zenon DEF RecoverImport
<1>13. CASE Validate BY <1>13 DEF Validate
<1> QED
  BY <1>6, <1>7, <1>8, <1>9, <1>10, <1>11, <1>12, <1>13, <1>RowMoves

\* While a file is being written it has a row.
LEMMA RowOf ==
    ASSUME TypeInv, w.at \in Writing \ {"file"}
    PROVE  /\ First(w.left) \in w.left /\ First(w.left) \in Paths /\ w.job \in Jobs
           /\ files[w.job][First(w.left)] \in FileRows
<1>1. w.left \subseteq Paths /\ w.left # {}
  BY DEF TypeInv, WorkOK, Place
<1>2. First(w.left) \in w.left
  BY <1>1, FirstIs
<1>3. w.job \in Jobs /\ First(w.left) \in Paths
  BY <1>2 DEF TypeInv, WorkOK, Place, Writing, Processing
<1> QED
  BY <1>2, <1>3 DEF TypeInv, JobsOK, Place

\* The folder holds edits that were made, whoever writes it.
LEMMA FolderStep ==
    ASSUME TypeInv, Next
    PROVE  FolderOK'
<1> USE DEF TypeInv
<1>1. waived' \subseteq Marks /\ swept' \subseteq Marks
  BY WaivedGrows, Zenon DEF FolderOK
<1>2. CASE UNCHANGED <<user, made, raced>>
  BY <1>1, <1>2 DEF FolderOK
<1>3. CASE Rename
  <2> DEFINE p == First(w.left)
  <2>1. p \in Paths /\ w.job \in Jobs /\ files[w.job][p] \in FileRows
    BY <1>3, RowOf DEF Rename, At, Writing
  <2>2. user' = [user EXCEPT ![p] = files[w.job][p].after] /\ UNCHANGED <<made, raced>>
    BY <1>3 DEF Rename, notes
  <2>3. \A x \in files[w.job][p].after : x \in Edits => <<x, p>> \in made
    BY <2>1, MergeAssumption, Zenon DEF JobsOK, JobOK, FileRows
  <2>4. user' \in Trees
    BY <2>1, <2>2 DEF FolderOK, Trees, FileRows
  <2>5. ASSUME NEW m \in Marks, m[1] \in Edits, m[1] \in user'[m[2]] PROVE m \in made
    <3>1. m = <<m[1], m[2]>> /\ m[2] \in Paths
      BY DEF Marks
    <3>2. CASE m[2] = p BY <2>1, <2>2, <2>3, <2>5, <3>1, <3>2 DEF FolderOK, Trees
    <3>3. CASE m[2] # p BY <2>1, <2>2, <2>5, <3>1, <3>3 DEF FolderOK, Trees
    <3> QED BY <3>2, <3>3
  <2> QED
    BY <1>1, <2>2, <2>4, <2>5 DEF FolderOK
<1>4. ASSUME NEW p \in Paths, NEW e \in Edits, Edit(p, e) PROVE FolderOK'
  BY <1>1, <1>4 DEF FolderOK, Edit, Marks, Trees
<1> QED BY <1>2, <1>3, <1>4, UserMoves

\* What a step leaves of a job: it is never unmade and keeps its commits.
JobsGrow ==
    \A j \in Jobs :
       /\ job[j].state # "none" => job'[j].state # "none"
       /\ job[j].external # None => job'[j].external # None
       /\ job[j].merged # None => job'[j].merged # None

\* How a step writes the jobs: the state of the job at hand, or one of the few steps
\* that write more.
Relabels(j, s) == job' = [job EXCEPT ![j].state = s]
Labels == {"preparing", "merging", "conflicted", "recovering", "writing"}

\* The steps by what they write of a job.
LEMMA JobEffects ==
    ASSUME TypeInv, Next
    PROVE  \/ UNCHANGED job
           \/ \E s \in Labels :
                 /\ w.job \in Jobs /\ job[w.job].state # "none" /\ Relabels(w.job, s)
                 /\ w.at \in Processing \cup {"staged"}
                 /\ s = "conflicted" => job[w.job].external # None
           \/ AdoptExternal \/ Merge \/ FinishJob \/ ReviseJob \/ CancelJob
           \/ \E j \in Jobs : Enqueue(j)
\* The job at hand exists when its state is written.
<1>Labelled.
    ASSUME TypeInv, NEW s \in Labels, Relabels(w.job, s), w.at \in Processing \cup {"staged"},
           s = "conflicted" => w.at \in {"commit", "staged"} \cup Writing
    PROVE  /\ w.job \in Jobs /\ job[w.job].state # "none" /\ Relabels(w.job, s)
           /\ s = "conflicted" => job[w.job].external # None
  <2>1. w.job \in Jobs /\ job[w.job].state # "none"
    BY <1>Labelled, OpFields, Zenon DEF TypeInv, Place, Indexing, OpOK
  <2>2. w.at \in {"commit", "staged"} => job[w.job].external # None
    BY OpFields, Zenon DEF TypeInv, Place, Indexing, OpOK, Merging
  <2>3. w.at \in Writing => job[w.job].external # None
    BY <2>1 DEF TypeInv, Place, JobsOK, JobOK, Merged
  <2> QED BY <1>Labelled, <2>1, <2>2, <2>3, Zenon
<1> USE DEF Relabels, At
<1>1. CASE Prepare
  <2>1. Relabels(w.job, "preparing") /\ w.at \in Processing BY <1>1 DEF Prepare, Processing
  <2> QED BY <2>1, <1>Labelled DEF Labels
<1>2. CASE MoveMain
  <2>1. UNCHANGED job \/ Relabels(w.job, "recovering") BY <1>2 DEF MoveMain, Throws
  <2>2. w.at \in Processing BY <1>2 DEF MoveMain, Processing
  <2> QED BY <2>1, <2>2, <1>Labelled DEF Labels
<1>3. CASE MoveDelivered
  <2>1. UNCHANGED job \/ Relabels(w.job, "recovering") BY <1>3 DEF MoveDelivered, Throws
  <2>2. w.at \in Processing BY <1>3 DEF MoveDelivered, Processing
  <2> QED BY <2>1, <2>2, <1>Labelled DEF Labels
<1>4. CASE CommitMerge
  <2>1. UNCHANGED job \/ Relabels(w.job, "conflicted") BY <1>4 DEF CommitMerge
  <2>2. w.at \in Processing /\ w.at = "commit" BY <1>4 DEF CommitMerge, Processing
  <2> QED BY <2>1, <2>2, <1>Labelled DEF Labels
<1>5. CASE Advance
  <2>1. UNCHANGED job \/ Relabels(w.job, "recovering") BY <1>5 DEF Advance, Throws
  <2>2. w.at \in Processing BY <1>5 DEF Advance, Processing
  <2> QED BY <2>1, <2>2, <1>Labelled DEF Labels
<1>6. CASE StartWriting
  <2>1. Relabels(w.job, "writing") /\ w.at \in Processing BY <1>6 DEF StartWriting, Processing
  <2> QED BY <2>1, <1>Labelled DEF Labels
<1>7. CASE ApplyFile
  <2>1. UNCHANGED job \/ Relabels(w.job, "conflicted") BY <1>7 DEF ApplyFile, WritebackConflict
  <2>2. w.at \in Processing /\ w.at \in Writing BY <1>7 DEF ApplyFile, Processing, Writing
  <2> QED BY <2>1, <2>2, <1>Labelled DEF Labels
<1>8. CASE Recheck
  <2>1. UNCHANGED job \/ Relabels(w.job, "conflicted") BY <1>8 DEF Recheck, WritebackConflict
  <2>2. w.at \in Processing /\ w.at \in Writing BY <1>8 DEF Recheck, Processing, Writing
  <2> QED BY <2>1, <2>2, <1>Labelled DEF Labels
<1>9. CASE Observe
  <2>1. UNCHANGED job \/ Relabels(w.job, "conflicted") BY <1>9 DEF Observe, WritebackConflict
  <2>2. w.at \in Processing /\ w.at \in Writing BY <1>9 DEF Observe, Processing, Writing
  <2> QED BY <2>1, <2>2, <1>Labelled DEF Labels
<1>10. CASE Verify
  <2>1. UNCHANGED job \/ Relabels(w.job, "conflicted") BY <1>10, Zenon DEF Verify, WritebackConflict
  <2>2. w.at \in Processing /\ w.at \in Writing BY <1>10 DEF Verify, Processing, Writing
  <2> QED BY <2>1, <2>2, <1>Labelled DEF Labels
<1>11. CASE Deliver
  <2>1. UNCHANGED job \/ Relabels(w.job, "recovering") BY <1>11 DEF Deliver, Throws
  <2>2. w.at \in Processing BY <1>11 DEF Deliver, Processing
  <2> QED BY <2>1, <2>2, <1>Labelled DEF Labels
<1>12. CASE FinishIndex
  <2>1. (\E s \in Labels : Relabels(w.job, s)) /\ w.at = "staged"
    BY <1>12, Zenon DEF FinishIndex, Labels
  <2> QED BY <2>1, <1>Labelled, Zenon
<1>13. CASE Fault
  <2>1. UNCHANGED job \/ (w.at \in Processing /\ Relabels(w.job, "recovering"))
    BY <1>13 DEF Fault, Throws
  <2> QED BY <2>1, <1>Labelled DEF Labels
<1> QED
  BY <1>1, <1>2, <1>3, <1>4, <1>5, <1>6, <1>7, <1>8, <1>9, <1>10, <1>11, <1>12, <1>13, JobMoves,
     Zenon

\* The merge commit is the pinned one, or the external commit when the source is in it.
LEMMA MergeWrites ==
    ASSUME TypeInv, Merge
    PROVE  /\ w.job \in Jobs /\ job[w.job].state # "none"
           /\ \/ UNCHANGED job
              \/ Relabels(w.job, "recovering")
              \/ \E c \in Good : /\ job' = [job EXCEPT ![w.job] =
                                              [job[w.job] EXCEPT !.state = "merging", !.merged = c]]
                                 /\ c = IF pin[w.job] # None THEN pin[w.job] ELSE job[w.job].external
<1>1. w.job \in Jobs /\ job[w.job].state # "none" /\ job[w.job].external # None
  BY Zenon DEF TypeInv, Place, Merge, At, Merging, Processing
<1>2. job[w.job].external \in Good
  BY <1>1 DEF TypeInv, JobsOK, JobRows, Maybe
<1>3. pin[w.job] # None => pin[w.job] \in Good
  BY <1>1 DEF TypeInv, JobsOK, Maybe
<1>4. \/ UNCHANGED job
      \/ Relabels(w.job, "recovering")
      \/ \E c \in Good : /\ job' = [job EXCEPT ![w.job].state = "merging", ![w.job].merged = c]
                         /\ c = IF pin[w.job] # None THEN pin[w.job] ELSE job[w.job].external
  BY <1>2, <1>3, Zenon DEF Merge, Relabels, Throws
<1>5. ASSUME NEW c \in Good, job' = [job EXCEPT ![w.job].state = "merging", ![w.job].merged = c]
      PROVE  job' = [job EXCEPT ![w.job] = [job[w.job] EXCEPT !.state = "merging", !.merged = c]]
  BY <1>1, <1>5, Zenon DEF TypeInv, JobsOK
<1> QED BY <1>1, <1>4, <1>5, Zenon

\* A new job: its source is what was delivered, or work on top of it.
LEMMA EnqueueWrites ==
    ASSUME TypeInv, NEW j \in Jobs, Enqueue(j)
    PROVE  \E source \in Good :
              /\ job' = [job EXCEPT ![j] = [job[j] EXCEPT !.state = "queued", !.base = delivered,
                                                          !.source = source]]
              /\ \/ source = delivered
                 \/ /\ \A p \in Paths : source.tree[p] = IF p \in Changes[j] THEN delivered.tree[p] \cup {j}
                                                         ELSE delivered.tree[p]
                    /\ source.past = delivered.past \cup MarksOf(source.tree)
                    /\ source.srcs = delivered.srcs \cup {j}
<1> DEFINE tree == [p \in Paths |-> IF p \in Changes[j] THEN delivered.tree[p] \cup {j}
                                    ELSE delivered.tree[p]]
           work == Commit(tree, {delivered}, j)
           full == [work EXCEPT !.srcs = @ \cup {j}]
<1>1. delivered \in Good
  BY DEF TypeInv, RefsOK
<1>2. tree \in Trees
  BY <1>1, GoodFields DEF Trees
<1>3. \A m \in MarksOf(tree) : m[1] \in Edits => m \in made
  BY <1>1, GoodFields, MergeAssumption DEF MarksOf, Marks
<1>4. work \in Good
  <2>1. {delivered} \in SUBSET Good /\ j \in Jobs \cup {0, None} BY <1>1
  <2> HIDE DEF tree
  <2> QED BY <1>2, <1>3, <2>1, CommitGood
<1>5. /\ work.tree = tree /\ work.past = MarksOf(tree) \cup delivered.past
      /\ work.srcs = delivered.srcs
  <2>1. /\ work.tree = tree /\ work.past = MarksOf(tree) \cup UNION {d.past : d \in {delivered}}
        /\ work.srcs = UNION {d.srcs : d \in {delivered}}
    BY DEF Commit
  <2> QED BY <2>1, ZenonT(30)
<1> HIDE DEF work
<1>6. full \in Good /\ full.tree = tree /\ full.past = work.past /\ full.srcs = work.srcs \cup {j}
  <2>1. work \in Commits BY <1>4 DEF Good
  <2>2. full \in Commits /\ full.tree = work.tree /\ full.past = work.past
        /\ full.srcs = work.srcs \cup {j}
    BY <2>1 DEF Commits
  <2> HIDE DEF full
  <2> QED BY <1>4, <1>5, <2>2 DEF Good
<1> HIDE DEF full
<1>7. \E source \in {full, delivered} :
         job' = [job EXCEPT ![j].state = "queued", ![j].base = delivered, ![j].source = source]
  BY Zenon DEF Enqueue, full, work
<1>8. PICK source \in {full, delivered} :
         job' = [job EXCEPT ![j].state = "queued", ![j].base = delivered, ![j].source = source]
  BY <1>7, Zenon
<1>9. job' = [job EXCEPT ![j] = [job[j] EXCEPT !.state = "queued", !.base = delivered,
                                               !.source = source]]
  BY <1>8, Zenon DEF TypeInv, JobsOK
<1> QED
  BY <1>1, <1>5, <1>6, <1>8, <1>9, Zenon

\* The one job that is written, and the record it gets.
Writes(j, b) ==
    /\ job' = [job EXCEPT ![j] = b]
    /\ b \in JobRows /\ b.state # "none" /\ b.source # None /\ b.base # None
    /\ job[j].external # None => b.external # None
    /\ job[j].merged # None => b.merged # None
    /\ b.merged # None => b.external # None
    /\ b.state = "conflicted" => b.external # None

\* The external commit is adopted.
LEMMA AdoptWrites ==
    ASSUME TypeInv, AdoptExternal
    PROVE  /\ w.job \in Jobs /\ intent[w.job].target \in Good
           /\ Writes(w.job, [job[w.job] EXCEPT !.state = "merging", !.external = intent[w.job].target])
<1> DEFINE t == intent[w.job].target
           b == [job[w.job] EXCEPT !.state = "merging", !.external = t]
<1>1. w.job \in Jobs /\ job[w.job].state # "none" /\ intent[w.job] # None
  BY DEF TypeInv, Place, AdoptExternal, At, Adopting, Processing
<1>2. t \in Good /\ job[w.job] \in JobRows /\ JobOK(w.job)
  BY <1>1 DEF TypeInv, JobsOK, IntentRows
<1>3. job' = [job EXCEPT ![w.job] = b]
  BY <1>1, Zenon DEF AdoptExternal, TypeInv, JobsOK
<1> HIDE DEF t
<1>4. /\ b \in JobRows /\ b.state = "merging" /\ b.source = job[w.job].source
      /\ b.base = job[w.job].base /\ b.external = t /\ b.merged = job[w.job].merged
  BY <1>2, Zenon DEF JobRows, Maybe, JobStates
<1>5. t # None
  BY <1>2, GoodFields
<1> HIDE DEF b
<1>6. Writes(w.job, b)
  BY <1>1, <1>2, <1>3, <1>4, <1>5 DEF Writes, JobOK
<1> QED BY <1>1, <1>2, <1>6 DEF b, t

\* A revision gives both commits, and takes the manifest away, unless it was done before.
LEMMA ReviseWrites ==
    ASSUME TypeInv, ReviseJob
    PROVE  /\ w.job \in Jobs /\ w.job = w.op.job /\ w.op.target \in Good /\ w.op.external \in Good
           /\ job[w.job].merged # None
           /\ \/ UNCHANGED <<job, files>> /\ job[w.job].merged = w.op.target
              \/ /\ Writes(w.job, [job[w.job] EXCEPT !.state = "writing", !.external = w.op.external,
                                                     !.merged = w.op.target])
                 /\ files' = [files EXCEPT ![w.job] = NoFiles]
                 /\ job[w.job].merged # w.op.target
<1> DEFINE b == [job[w.job] EXCEPT !.state = "writing", !.external = w.op.external,
                                   !.merged = w.op.target]
<1>1. /\ w.job \in Jobs /\ w.job = w.op.job /\ w.op.target \in Good /\ w.op.external \in Good
      /\ job[w.job].merged # None /\ job[w.job].state # "none"
  BY OpFields, Zenon DEF ReviseJob, At, Revising, OpOK, TypeInv, Place
<1>2. CASE job[w.job].merged = w.op.target
  BY <1>1, <1>2 DEF ReviseJob
<1>3. CASE job[w.job].merged # w.op.target
  <2>1. job[w.job] \in JobRows /\ JobOK(w.job)
    BY <1>1 DEF TypeInv, JobsOK
  <2>2. job' = [job EXCEPT ![w.job] = b] /\ files' = [files EXCEPT ![w.job] = NoFiles]
    BY <1>1, <1>3, Zenon DEF ReviseJob, TypeInv, JobsOK
  <2>3. /\ b \in JobRows /\ b.state = "writing" /\ b.source = job[w.job].source
        /\ b.base = job[w.job].base /\ b.external = w.op.external /\ b.merged = w.op.target
    BY <1>1, <2>1, Zenon DEF JobRows, Maybe, JobStates
  <2>4. w.op.target # None /\ w.op.external # None
    BY <1>1, GoodFields
  <2> HIDE DEF b
  <2>5. Writes(w.job, b)
    BY <1>1, <2>1, <2>2, <2>3, <2>4, Zenon DEF Writes, JobOK
  <2> QED BY <1>1, <1>3, <2>2, <2>5 DEF b
<1> QED BY <1>2, <1>3

\* Jobs keep their shape.
LEMMA JobsGrown ==
    ASSUME TypeInv, Next
    PROVE  /\ job' \in [Jobs -> JobRows] /\ JobsGrow
           /\ \A j \in Jobs :
                 /\ job'[j].state = "none" => job'[j] = job[j]
                 /\ job'[j].state # "none" => job'[j].source # None /\ job'[j].base # None
                 /\ job'[j].merged # None => job'[j].external # None
                 /\ job'[j].state = "conflicted" => job'[j].external # None
\* Whatever a step does to the jobs, it writes at most one of them, and properly.
<1>JobsWritten.
    ASSUME TypeInv, Next
    PROVE  \/ UNCHANGED job
           \/ \E j \in Jobs, b \in JobRows : Writes(j, b)
  \* A new state alone.
  <2>RelabelWrites.
      ASSUME TypeInv, NEW j \in Jobs, job[j].state # "none", NEW s \in JobStates \ {"none"},
             Relabels(j, s), s = "conflicted" => job[j].external # None
      PROVE  Writes(j, [job[j] EXCEPT !.state = s])
    <3> DEFINE b == [job[j] EXCEPT !.state = s]
    <3>1. job[j] \in JobRows /\ JobOK(j)
      BY DEF TypeInv, JobsOK
    <3>2. /\ b \in JobRows /\ b.state = s /\ b.source = job[j].source /\ b.base = job[j].base
          /\ b.external = job[j].external /\ b.merged = job[j].merged
      BY <3>1 DEF JobRows
    <3>3. job' = [job EXCEPT ![j] = b]
      BY <2>RelabelWrites, Zenon DEF Relabels, TypeInv, JobsOK
    <3> QED
      BY <2>RelabelWrites, <3>1, <3>2, <3>3, Zenon DEF Writes, JobOK
  \* The merge commit is adopted.
  <2>MergedWrites.
      ASSUME TypeInv, w.job \in Jobs, job[w.job].state # "none", w.at = "merge", NEW c \in Good,
             job' = [job EXCEPT ![w.job] = [job[w.job] EXCEPT !.state = "merging", !.merged = c]]
      PROVE  Writes(w.job, [job[w.job] EXCEPT !.state = "merging", !.merged = c])
    <3> DEFINE b == [job[w.job] EXCEPT !.state = "merging", !.merged = c]
    <3>1. job[w.job] \in JobRows /\ JobOK(w.job) /\ job[w.job].external # None
      BY <2>MergedWrites, Zenon DEF TypeInv, JobsOK, Place, Merging
    <3>2. /\ b \in JobRows /\ b.state = "merging" /\ b.source = job[w.job].source
          /\ b.base = job[w.job].base /\ b.external = job[w.job].external /\ b.merged = c
      BY <3>1, Zenon DEF JobRows, Maybe, JobStates
    <3>3. c # None
      BY GoodFields
    <3> HIDE DEF b
    <3>4. Writes(w.job, b)
      BY <2>MergedWrites, <3>1, <3>2, <3>3, Zenon DEF Writes, JobOK, b
    <3> QED BY <3>4 DEF b
  <2>1. ASSUME NEW s \in JobStates \ {"none"}, w.job \in Jobs, job[w.job].state # "none",
               Relabels(w.job, s), s = "conflicted" => job[w.job].external # None
        PROVE  \E j \in Jobs, b \in JobRows : Writes(j, b)
    BY <2>1, <2>RelabelWrites, Zenon DEF Writes
  <2>2. Labels \subseteq JobStates \ {"none"} /\ Ended \subseteq JobStates \ {"none"}
    BY DEF Labels, JobStates, Ended
  <2>3. CASE AdoptExternal
    BY <2>3, AdoptWrites, Zenon DEF Writes
  <2>4. CASE Merge
    <3>1. CASE UNCHANGED job BY <3>1
    <3>2. CASE Relabels(w.job, "recovering")
      BY <2>1, <2>2, <2>4, <3>2, MergeWrites, Zenon DEF Labels
    <3>3. CASE \E c \in Good : job' = [job EXCEPT ![w.job] =
                                         [job[w.job] EXCEPT !.state = "merging", !.merged = c]]
      <4>1. w.at = "merge" BY <2>4, Zenon DEF Merge, At
      <4> QED BY <2>4, <3>3, <4>1, MergeWrites, <2>MergedWrites, Zenon DEF Writes
    <3> QED BY <2>4, <3>1, <3>2, <3>3, MergeWrites, Zenon
  <2>5. CASE FinishJob
    <3>1. w.job \in Jobs /\ job[w.job].state # "none" /\ Relabels(w.job, "delivered")
      BY <2>5 DEF FinishJob, Relabels, TypeInv, Place, At, Processing
    <3> QED BY <2>1, <2>2, <3>1 DEF Ended
  <2>6. CASE CancelJob
    <3>1. w.job \in Jobs /\ job[w.job].state # "none" /\ Relabels(w.job, "cancelled")
      BY <2>6, OpFields, Zenon DEF CancelJob, Relabels, TypeInv, Place, At, Cancelling, OpOK
    <3> QED BY <2>1, <2>2, <3>1 DEF Ended
  <2>7. CASE ReviseJob
    BY <2>7, ReviseWrites, Zenon DEF Writes
  <2>8. ASSUME NEW j \in Jobs, Enqueue(j) PROVE \E b \in JobRows : Writes(j, b)
    <3>1. PICK source \in Good :
             job' = [job EXCEPT ![j] = [job[j] EXCEPT !.state = "queued", !.base = delivered,
                                                      !.source = source]]
      BY <2>8, EnqueueWrites, Zenon
    <3> DEFINE b == [job[j] EXCEPT !.state = "queued", !.base = delivered, !.source = source]
    <3>2. delivered \in Good /\ job[j] \in JobRows /\ JobOK(j) /\ job[j].state = "none"
      BY <2>8 DEF TypeInv, RefsOK, JobsOK, Enqueue
    <3>3. /\ b \in JobRows /\ b.state = "queued" /\ b.source = source
          /\ b.base = delivered /\ b.external = job[j].external /\ b.merged = job[j].merged
      BY <3>2, Zenon DEF JobRows, Maybe, JobStates
    <3>4. delivered # None /\ source # None
      BY <3>2, GoodFields
    <3> HIDE DEF b
    <3> QED BY <3>1, <3>2, <3>3, <3>4, Zenon DEF Writes, JobOK, b
  <2> QED
    BY <2>1, <2>2, <2>3, <2>4, <2>5, <2>6, <2>7, <2>8, JobEffects
<1>1. CASE UNCHANGED job
  BY <1>1 DEF TypeInv, JobsOK, JobOK, JobsGrow
<1>2. ASSUME NEW i \in Jobs, NEW b \in JobRows, Writes(i, b)
      PROVE  /\ job' \in [Jobs -> JobRows] /\ JobsGrow
             /\ \A j \in Jobs :
                   /\ job'[j].state = "none" => job'[j] = job[j]
                   /\ job'[j].state # "none" => job'[j].source # None /\ job'[j].base # None
                   /\ job'[j].merged # None => job'[j].external # None
                   /\ job'[j].state = "conflicted" => job'[j].external # None
  BY <1>2, Zenon DEF TypeInv, JobsOK, JobOK, JobsGrow, Writes
<1> QED BY <1>1, <1>2, <1>JobsWritten

\* The operation rows and pins of the jobs.
LEMMA PinsStep ==
    ASSUME TypeInv, Next
    PROVE  /\ intent' \in [Jobs -> {None} \cup IntentRows] /\ pin' \in [Jobs -> Maybe]
           /\ \A j \in Jobs : /\ intent'[j] # intent[j] \/ pin'[j] # pin[j] =>
                                   j = w.job /\ job[j].state # "none"
                              /\ intent[j] # None => intent'[j] # None
                              /\ pin'[j] # pin[j] => job[j].external # None
<1> USE DEF TypeInv, JobsOK, At
<1>1. CASE UNCHANGED <<intent, pin>>
  BY <1>1
<1>2. CASE Prepare
  <2>1. w.job \in Jobs /\ job[w.job].state # "none"
    BY <1>2 DEF Prepare, Place, Processing
  <2>2. Capture(delivered, w.job) \in Good /\ delivered \in Good
    BY <2>1, CaptureIs DEF RefsOK
  <2>3. [before |-> delivered, target |-> Capture(delivered, w.job)] \in IntentRows
    BY <2>2 DEF IntentRows
  <2>4. [before |-> delivered, target |-> Capture(delivered, w.job)] # None
    BY <2>2, GoodFields, MergeAssumption DEF Intents
  <2> QED
    BY <1>2, <2>1, <2>3, <2>4 DEF Prepare
<1>3. CASE Merge
  <2>1. w.job \in Jobs /\ job[w.job].state # "none" /\ job[w.job].external # None
    BY <1>3, Zenon DEF Merge, Place, Processing, Merging
  <2>2. job[w.job].external \in Maybe
    BY <2>1 DEF JobRows
  <2>3. UNCHANGED intent /\ (UNCHANGED pin \/ pin' = [pin EXCEPT ![w.job] = job[w.job].external])
    BY <1>3, Zenon DEF Merge
  <2> QED
    BY <2>1, <2>2, <2>3
<1>4. CASE CommitMerge
  <2>1. w.job \in Jobs /\ job[w.job].state # "none" /\ job[w.job].external # None
        /\ integ.source # None
    BY <1>4 DEF CommitMerge, Place, Processing, Merging
  <2>2. job[w.job].external \in Good /\ job[w.job].source \in Good
    BY <2>1, Zenon DEF JobRows, Maybe, JobOK
  <2>3. Commit(integ.tree, {job[w.job].external, job[w.job].source}, w.job) \in Good
    <3>1. {job[w.job].external, job[w.job].source} \in SUBSET Good BY <2>2
    <3> QED BY <2>1, <3>1, CommitGood, Zenon DEF IntegOK
  <2>4. UNCHANGED intent /\ (UNCHANGED pin \/ pin' = [pin EXCEPT ![w.job] =
             Commit(integ.tree, {job[w.job].external, job[w.job].source}, w.job)])
    BY <1>4 DEF CommitMerge
  <2> QED
    BY <2>1, <2>3, <2>4, Zenon DEF Maybe
<1> QED
  BY <1>1, <1>2, <1>3, <1>4, PinMoves, Zenon

\* Rows of a manifest hold edits that were made.
RowsOK(rows) ==
    /\ rows \in [Paths -> {None} \cup FileRows]
    /\ \A p \in Paths : rows[p] # None => \A x \in rows[p].after : x \in Edits => <<x, p>> \in made

\* saveFiles: a row that is there stays, a file that differs gets one.
LEMMA ManifestIs ==
    ASSUME NEW rows, RowsOK(rows), NEW external \in Good, NEW merged \in Good
    PROVE  /\ RowsOK(Manifest(rows, external, merged))
           /\ \A p \in Paths : rows[p] # None => Manifest(rows, external, merged)[p] = rows[p]
           /\ \A p \in Paths : rows[p] = None /\ external.tree[p] = merged.tree[p] =>
                 Manifest(rows, external, merged)[p] = None
           /\ \A p \in Paths : rows[p] = None /\ external.tree[p] # merged.tree[p] =>
                 /\ Manifest(rows, external, merged)[p] # None
                 /\ Manifest(rows, external, merged)[p] =
                      [before |-> external.tree[p], after |-> merged.tree[p], state |-> "pending"]
<1>1. /\ external.tree \in Trees /\ merged.tree \in Trees /\ MarksOf(merged.tree) \subseteq merged.past
      /\ \A m \in merged.past : m[1] \in Edits => m \in made
  BY GoodFields, Zenon
<1>2. ASSUME NEW p \in Paths
      PROVE  [before |-> external.tree[p], after |-> merged.tree[p], state |-> "pending"] \in FileRows
  BY <1>1, Zenon DEF Trees, FileRows
<1>3. ASSUME NEW p \in Paths, NEW x \in merged.tree[p], x \in Edits
      PROVE  <<x, p>> \in made
  <2>1. <<x, p>> \in MarksOf(merged.tree)
    BY <1>1, <1>3 DEF MarksOf, Marks, Trees
  <2> QED BY <1>1, <1>3, <2>1
<1>4. \A p \in Paths : [before |-> external.tree[p], after |-> merged.tree[p], state |-> "pending"] # None
  BY <1>2, MergeAssumption
<1> DEFINE M == Manifest(rows, external, merged)
<1>5. /\ \A p \in Paths : M[p] = IF rows[p] # None \/ external.tree[p] = merged.tree[p] THEN rows[p]
            ELSE [before |-> external.tree[p], after |-> merged.tree[p], state |-> "pending"]
      /\ M = [p \in Paths |-> M[p]]
  BY Zenon DEF Manifest
<1> HIDE DEF M
<1>6. M \in [Paths -> {None} \cup FileRows]
  BY <1>2, <1>5 DEF RowsOK
<1>7. ASSUME NEW p \in Paths, M[p] # None, NEW x \in M[p].after, x \in Edits
      PROVE  <<x, p>> \in made
  BY <1>3, <1>5, <1>7 DEF RowsOK
<1>8. RowsOK(M)
  BY <1>6, <1>7 DEF RowsOK
<1> QED
  BY <1>4, <1>5, <1>8 DEF M

\* A row that changes its state only.
LEMMA RowState ==
    ASSUME NEW rows, RowsOK(rows), NEW p \in Paths, rows[p] # None,
           NEW s \in {"pending", "prepared", "applied", "conflicted"}
    PROVE  /\ [rows[p] EXCEPT !.state = s] \in FileRows
           /\ [rows[p] EXCEPT !.state = s] # None
           /\ [rows[p] EXCEPT !.state = s].before = rows[p].before
           /\ [rows[p] EXCEPT !.state = s].after = rows[p].after
           /\ [rows[p] EXCEPT !.state = s].state = s
           /\ RowsOK([rows EXCEPT ![p] = [rows[p] EXCEPT !.state = s]])
<1> DEFINE f == [rows[p] EXCEPT !.state = s]
<1>1. rows[p] \in FileRows
  BY DEF RowsOK
<1>2. f \in FileRows /\ f.before = rows[p].before /\ f.after = rows[p].after /\ f.state = s
  BY <1>1 DEF FileRows
<1>3. f # None
  BY <1>2, MergeAssumption
<1> HIDE DEF f
<1>4. RowsOK([rows EXCEPT ![p] = f])
  BY <1>2, Zenon DEF RowsOK
<1> QED
  BY <1>2, <1>3, <1>4 DEF f

\* The rows of a job, as one manifest.
LEMMA RowsTyped ==
    ASSUME TypeInv, NEW j \in Jobs
    PROVE  RowsOK(files[j]) /\ \A p \in Paths : files[j][p] # None => job[j].merged # None
  BY DEF TypeInv, JobsOK, JobOK, RowsOK

\* The row of one file of the job at hand gets a new state.
FileStates == {"pending", "prepared", "applied", "conflicted"}
Marked(j, p, s) ==
    /\ j \in Jobs /\ p \in Paths /\ files[j][p] # None /\ s \in FileStates
    /\ files' = [files EXCEPT ![j] = [files[j] EXCEPT ![p] = [files[j][p] EXCEPT !.state = s]]]

\* The writeback writes one row at a time.
LEMMA FileActions ==
    ASSUME TypeInv
    PROVE  /\ ApplyFile => \E s \in FileStates : Marked(w.job, First(w.left), s)
           /\ Recheck => UNCHANGED files \/ Marked(w.job, First(w.left), "conflicted")
           /\ Observe => \E s \in FileStates : Marked(w.job, First(w.left), s)
           /\ Verify => UNCHANGED files \/ \E p \in Paths : Marked(w.job, p, "conflicted")
\* An EXCEPT on one row, as an update of the manifest of the job.
<1>MarkedIs.
    ASSUME TypeInv, NEW j \in Jobs, NEW p \in Paths, files[j][p] # None, NEW s \in FileStates,
           files' = [files EXCEPT ![j][p].state = s]
    PROVE  Marked(j, p, s)
    BY <1>MarkedIs, Zenon DEF Marked, TypeInv, JobsOK
<1> USE DEF At
<1>1. ASSUME w.at \in Writing, w.left # {}
      PROVE  w.job \in Jobs /\ First(w.left) \in Paths /\ files[w.job][First(w.left)] # None
  <2>1. w.left \subseteq Paths
    BY DEF TypeInv, WorkOK
  <2>2. First(w.left) \in w.left
    BY <1>1, <2>1, FirstIs
  <2> QED
    BY <1>1, <2>1, <2>2, Zenon DEF TypeInv, Place, Writing, Processing
<1>2. ASSUME ApplyFile PROVE \E s \in FileStates : Marked(w.job, First(w.left), s)
  <2>1. \E s \in FileStates : files' = [files EXCEPT ![w.job][First(w.left)].state = s]
    BY <1>2, Zenon DEF ApplyFile, SetFile, WritebackConflict, FileStates
  <2>2. w.at \in Writing /\ w.left # {}
    BY <1>2 DEF ApplyFile, Writing
  <2> QED BY <1>1, <2>1, <2>2, <1>MarkedIs, Zenon
<1>3. ASSUME Observe PROVE \E s \in FileStates : Marked(w.job, First(w.left), s)
  <2>1. \E s \in FileStates : files' = [files EXCEPT ![w.job][First(w.left)].state = s]
    BY <1>3, Zenon DEF Observe, SetFile, WritebackConflict, FileStates
  <2>2. w.at \in Writing /\ w.left # {}
    BY <1>3 DEF Observe, Writing, TypeInv, Place
  <2> QED BY <1>1, <2>1, <2>2, <1>MarkedIs, Zenon
<1>4. ASSUME Recheck PROVE UNCHANGED files \/ Marked(w.job, First(w.left), "conflicted")
  <2>1. UNCHANGED files \/ files' = [files EXCEPT ![w.job][First(w.left)].state = "conflicted"]
    BY <1>4 DEF Recheck, WritebackConflict
  <2>2. w.at \in Writing /\ w.left # {}
    BY <1>4, Zenon DEF Recheck, Writing, TypeInv, Place
  <2> QED BY <1>1, <2>1, <2>2, <1>MarkedIs DEF FileStates
<1>5. ASSUME Verify PROVE UNCHANGED files \/ \E p \in Paths : Marked(w.job, p, "conflicted")
  <2> DEFINE changed == {p \in Paths : files[w.job][p] # None /\ user[p] # files[w.job][p].after}
  <2>1. CASE changed = {}
    BY <1>5, <2>1, Zenon DEF Verify
  <2>2. CASE changed # {}
    <3>1. changed \subseteq Paths
      BY Zenon
    <3>2. First(changed) \in changed
      BY <2>2, <3>1, FirstIs, Zenon
    <3>3. w.job \in Jobs
      BY <1>5, Zenon DEF Verify, TypeInv, Place, Processing
    <3>4. files' = [files EXCEPT ![w.job][First(changed)].state = "conflicted"]
      BY <1>5, <2>2, Zenon DEF Verify, WritebackConflict
    <3>5. First(changed) \in Paths /\ files[w.job][First(changed)] # None
      BY <3>2, Zenon
    <3> HIDE DEF changed
    <3> QED BY <3>3, <3>4, <3>5, <1>MarkedIs, Zenon DEF FileStates
  <2> QED BY <2>1, <2>2, Zenon
<1> QED BY <1>2, <1>3, <1>4, <1>5

\* A manifest is replaced by proper rows of a job with a merge commit.
Filed(j, rows) ==
    /\ files' = [files EXCEPT ![j] = rows] /\ RowsOK(rows)
    /\ \A p \in Paths : rows[p] # None => job'[j].merged # None

\* The rows, operations, pins and manifests of the jobs keep their types.
LEMMA JobsStep ==
    ASSUME TypeInv, Next
    PROVE  JobsOK'
\* Whatever a step does to the manifests, it writes at most one of them, and properly.
<1>FilesFiled.
    ASSUME TypeInv, Next
    PROVE  UNCHANGED files \/ \E j \in Jobs, rows \in [Paths -> {None} \cup FileRows] : Filed(j, rows)
  <2> DEFINE Goal == \E j \in Jobs, rows \in [Paths -> {None} \cup FileRows] : Filed(j, rows)
  <2>1. \A j \in Jobs : job[j].merged # None => job'[j].merged # None
    BY JobsGrown DEF JobsGrow
  <2>2. ASSUME NEW j, NEW p, NEW s, Marked(j, p, s) PROVE Goal
    <3>1. j \in Jobs /\ p \in Paths /\ files[j][p] # None /\ s \in FileStates
      BY <2>2 DEF Marked
    <3> DEFINE rows == [files[j] EXCEPT ![p] = [files[j][p] EXCEPT !.state = s]]
    <3>2. RowsOK(files[j]) /\ job[j].merged # None
      BY <3>1, RowsTyped
    <3>3. RowsOK(rows)
      BY <3>1, <3>2, RowState, Zenon DEF FileStates
    <3>4. files' = [files EXCEPT ![j] = rows]
      BY <2>2 DEF Marked
    <3> HIDE DEF rows
    <3>5. Filed(j, rows)
      BY <2>1, <3>1, <3>2, <3>3, <3>4 DEF Filed
    <3>6. rows \in [Paths -> {None} \cup FileRows]
      BY <3>3 DEF RowsOK
    <3> QED BY <3>1, <3>5, <3>6
  <2>3. CASE StartWriting
    <3>1. w.job \in Jobs /\ job[w.job].merged # None
      BY <2>3 DEF StartWriting, TypeInv, Place, Processing, Merged, At
    <3>2. job[w.job].external \in Good /\ job[w.job].merged \in Good
      BY <3>1, Zenon DEF TypeInv, JobsOK, JobOK, JobRows, Maybe
    <3> DEFINE rows == Manifest(files[w.job], job[w.job].external, job[w.job].merged)
    <3>3. RowsOK(rows)
      BY <3>1, <3>2, RowsTyped, ManifestIs, ZenonT(30)
    <3>4. files' = [files EXCEPT ![w.job] = rows]
      BY <2>3 DEF StartWriting
    <3> HIDE DEF rows
    <3>5. Filed(w.job, rows)
      BY <2>1, <3>1, <3>3, <3>4 DEF Filed
    <3>6. rows \in [Paths -> {None} \cup FileRows]
      BY <3>3 DEF RowsOK
    <3> QED BY <3>1, <3>5, <3>6
  <2>4. CASE ReviseRow
    <3>1. w.job \in Jobs /\ job[w.job].merged # None /\ w.op.external \in Good /\ w.op.target \in Good
      BY <2>4, OpFields, Zenon DEF ReviseRow, At, Revising, OpOK, TypeInv, Place
    <3> DEFINE rows == Manifest(files[w.job], w.op.external, w.op.target)
    <3>3. RowsOK(rows)
      BY <3>1, RowsTyped, ManifestIs, Zenon
    <3>4. files' = [files EXCEPT ![w.job] = rows]
      BY <2>4, <3>1 DEF ReviseRow, TypeInv, JobsOK
    <3> HIDE DEF rows
    <3>5. Filed(w.job, rows)
      BY <2>1, <3>1, <3>3, <3>4 DEF Filed
    <3>6. rows \in [Paths -> {None} \cup FileRows]
      BY <3>3 DEF RowsOK
    <3> QED BY <3>1, <3>5, <3>6
  <2>5. CASE ReviseJob
    <3>1. NoFiles \in [Paths -> {None} \cup FileRows] /\ \A p \in Paths : NoFiles[p] = None
      BY DEF NoFiles
    <3>2. RowsOK(NoFiles)
      BY <3>1 DEF RowsOK
    <3> QED BY <2>5, <3>1, <3>2, ReviseWrites DEF Filed
  <2>6. ASSUME NEW j \in Jobs, AuditRefuses(j) PROVE Goal
    <3> DEFINE rows == [p \in Paths |-> IF p \in Reedited(j) THEN [files[j][p] EXCEPT !.state = "conflicted"]
                                        ELSE files[j][p]]
    <3>1. RowsOK(files[j]) /\ job[j].merged # None
      BY <2>6, RowsTyped DEF AuditRefuses
    <3>2. \A p \in Reedited(j) : p \in Paths /\ files[j][p] # None
      BY DEF Reedited
    <3>3. \A p \in Reedited(j) : /\ [files[j][p] EXCEPT !.state = "conflicted"] \in FileRows
                                 /\ [files[j][p] EXCEPT !.state = "conflicted"].after = files[j][p].after
      <4> TAKE p \in Reedited(j)
      <4>1. p \in Paths /\ files[j][p] # None BY <3>2
      <4> QED BY <3>1, <4>1, RowState, ZenonT(30)
    <3>4. RowsOK(rows)
      BY <3>1, <3>2, <3>3 DEF RowsOK
    <3>5. files' = [files EXCEPT ![j] = rows]
      BY <2>6 DEF AuditRefuses, TypeInv, JobsOK
    <3> HIDE DEF rows
    <3>6. Filed(j, rows)
      BY <2>1, <3>1, <3>4, <3>5 DEF Filed
    <3>7. rows \in [Paths -> {None} \cup FileRows]
      BY <3>4 DEF RowsOK
    <3> QED BY <3>6, <3>7
  <2> HIDE DEF Goal
  <2> QED
    BY <2>2, <2>3, <2>4, <2>5, <2>6, FilesMove, FileActions, Zenon DEF Goal
<1> USE DEF TypeInv, JobsOK
<1>1. job' \in [Jobs -> JobRows'] /\ intent' \in [Jobs -> {None} \cup IntentRows']
      /\ pin' \in [Jobs -> Maybe']
  BY JobsGrown, PinsStep, MadeGrows, Zenon
<1>2. /\ files' \in [Jobs -> [Paths -> {None} \cup FileRows]]
      /\ \A j \in Jobs, p \in Paths : files'[j][p] # None =>
            job'[j].merged # None /\ \A x \in files'[j][p].after : x \in Edits => <<x, p>> \in made
  <2>1. CASE UNCHANGED files
    BY <2>1, JobsGrown, Zenon DEF JobOK, JobsGrow
  <2>2. ASSUME NEW j \in Jobs, NEW rows \in [Paths -> {None} \cup FileRows], Filed(j, rows)
        PROVE  <1>2!1 /\ <1>2!2
    BY <2>2, JobsGrown, Zenon DEF JobOK, JobsGrow, Filed, RowsOK
  <2> QED BY <2>1, <2>2, <1>FilesFiled, Zenon
<1>3. ASSUME NEW j \in Jobs PROVE JobOK(j)'
  <2>1. made \subseteq made' BY MadeGrows
  <2>2. JobOK(j) OBVIOUS
  <2>3. job'[j].state = "none" => job'[j] = NoJob /\ intent'[j] = None /\ pin'[j] = None
    BY <2>2, JobsGrown, PinsStep, Zenon DEF JobOK, JobsGrow
  <2>4. pin'[j] # None => job'[j].external # None
    BY <2>2, JobsGrown, PinsStep, Zenon DEF JobOK, JobsGrow
  <2>5. /\ job'[j].state # "none" => job'[j].source # None /\ job'[j].base # None
        /\ job'[j].merged # None => job'[j].external # None
        /\ job'[j].state = "conflicted" => job'[j].external # None
    BY JobsGrown, Zenon
  <2> QED BY <1>2, <2>1, <2>3, <2>4, <2>5, Zenon DEF JobOK
<1> QED BY <1>1, <1>2, <1>3, Zenon

\* The index of the integration worktree holds edits that were made.
LEMMA IntegStep ==
    ASSUME TypeInv, Next
    PROVE  IntegOK'
<1> USE DEF TypeInv, At
<1>1. made \subseteq made' /\ Integs \subseteq Integs'
  BY MadeGrows
<1>2. CASE UNCHANGED integ
  BY <1>1, <1>2 DEF IntegOK
<1>3. CASE integ' = NoMerge
  <2>1. integ' \in Integs' /\ integ'.source = None
    BY <1>3 DEF NoMerge, Integs, Maybe
  <2> QED BY <2>1 DEF IntegOK
<1>4. CASE Merge
  <2>1. w.job \in Jobs /\ job[w.job].state # "none" /\ job[w.job].external # None
    BY <1>4, Zenon DEF Merge, Place, Processing, Merging
  <2>2. job[w.job].external \in Good /\ job[w.job].source \in Good
    BY <2>1, Zenon DEF JobsOK, JobRows, Maybe, JobOK
  <2> DEFINE c == job[w.job].external  d == job[w.job].source  b == job[w.job].base
             t == [p \in Paths |-> Clean(b.tree[p], c.tree[p], d.tree[p])]
  <2>3. \/ UNCHANGED integ
        \/ \E clash \in SUBSET Clashing(b.tree, c.tree, d.tree) :
              integ' = [source |-> d, conflicts |-> clash, tree |-> t]
    BY <1>4, Zenon DEF Merge
  <2>4. c.tree \in Trees /\ d.tree \in Trees /\ MarksOf(c.tree) \subseteq c.past /\ MarksOf(d.tree) \subseteq d.past
        /\ \A m \in c.past \cup d.past : m[1] \in Edits => m \in made
    BY <2>2, GoodFields
  <2> HIDE DEF c, d, b
  <2>5. \A p \in Paths : Clean(b.tree[p], c.tree[p], d.tree[p]) \subseteq c.tree[p] \cup d.tree[p]
    BY DEF Clean
  <2>6. t \in Trees /\ \A p \in Paths : t[p] \subseteq c.tree[p] \cup d.tree[p]
    BY <2>4, <2>5, Zenon DEF Trees
  <2> HIDE DEF t
  <2>7. \A m \in MarksOf(t) : m \in c.past \cup d.past
    BY <2>4, <2>6 DEF MarksOf, Marks
  <2>8. ASSUME NEW clash \in SUBSET Clashing(b.tree, c.tree, d.tree),
               integ' = [source |-> d, conflicts |-> clash, tree |-> t]
        PROVE  IntegOK'
    <3>1. integ' \in Integs /\ integ'.tree = t
      BY <2>2, <2>6, <2>8, Zenon DEF Integs, Maybe, Clashing, d
    <3>2. \A m \in MarksOf(t) : m[1] \in Edits => m \in made'
      BY <1>1, <2>4, <2>7
    <3> QED BY <1>1, <2>6, <3>1, <3>2 DEF IntegOK
  <2> QED BY <1>2, <2>3, <2>8
<1>5. CASE StageIndex
  <2> DEFINE t == [p \in Paths |->
                       IF p \notin DOMAIN w.op.choice THEN integ.tree[p]
                       ELSE Chosen(w.op.choice[p], job[w.job].external.tree[p],
                                   job[w.job].source.tree[p])]
             c == job[w.job].external  d == job[w.job].source
  <2>1. UNCHANGED integ \/ (integ.source # None /\ integ' =
             [integ EXCEPT !.tree = t, !.conflicts = @ \ DOMAIN w.op.choice])
    BY <1>5 DEF StageIndex
  <2>2. /\ w.job \in Jobs /\ w.op.choice \in Decisions
        /\ job[w.job].external # None /\ job[w.job].state # "none"
    BY <1>5, OpFields, Zenon DEF StageIndex, Indexing, OpOK, Place
  <2>3. c \in Good /\ d \in Good
    BY <2>2, Zenon DEF JobsOK, JobRows, Maybe, JobOK
  <2>4. c.tree \in Trees /\ d.tree \in Trees /\ MarksOf(c.tree) \subseteq c.past /\ MarksOf(d.tree) \subseteq d.past
        /\ \A m \in c.past \cup d.past : m[1] \in Edits => m \in made
    BY <2>3, GoodFields, Zenon
  <2>5. \A p \in DOMAIN w.op.choice : w.op.choice[p] \in Actions
    BY <2>2 DEF Decisions
  <2>6. CASE integ.source # None
    <3>1. \A p \in Paths : t[p] \subseteq integ.tree[p] \cup c.tree[p] \cup d.tree[p]
      <4> HIDE DEF c, d
      <4>1. \A p \in DOMAIN w.op.choice : Chosen(w.op.choice[p], c.tree[p], d.tree[p]) \subseteq c.tree[p] \cup d.tree[p]
        BY <2>5 DEF Chosen, Actions
      <4> QED BY <4>1, Zenon DEF c, d
    <3>2. t = [p \in Paths |-> t[p]] BY Zenon
    <3>3. integ.tree \in Trees /\ \A m \in MarksOf(integ.tree) : m[1] \in Edits => m \in made
      BY <2>6 DEF IntegOK
    <3> HIDE DEF t, c, d
    <3>4. t \in Trees
      BY <2>4, <3>1, <3>2, <3>3 DEF Trees
    <3>5. \A m \in MarksOf(t) : m \in MarksOf(integ.tree) \cup c.past \cup d.past
      BY <2>4, <3>1 DEF MarksOf, Marks
    <3>6. \A m \in MarksOf(t) : m[1] \in Edits => m \in made
      BY <2>4, <3>3, <3>5
    <3>7. CASE integ' = [integ EXCEPT !.tree = t, !.conflicts = @ \ DOMAIN w.op.choice]
      <4>1. integ \in Integs BY DEF IntegOK
      <4>2. integ' \in Integs /\ integ'.tree = t
        BY <3>4, <3>7, <4>1, Zenon DEF Integs
      <4> QED BY <1>1, <3>4, <3>6, <4>2 DEF IntegOK
    <3> QED BY <1>2, <2>1, <3>7 DEF t
  <2> QED BY <1>2, <2>1, <2>6
<1> QED
  BY <1>2, <1>3, <1>4, <1>5, IntegMoves, Zenon DEF Reset, CancelRow, ImportRow, RecoverImport

\* An operation row stays readable.
LEMMA OpStays ==
    ASSUME TypeInv, Next, NEW o, OpOK(o)
    PROVE  OpOK(o)'
<1>1. o.kind = "writeback_revision" => o.job \in Jobs
  BY Zenon DEF OpOK
<1> QED
  BY JobsGrown, MadeGrows, Zenon DEF OpOK, JobsGrow

\* reviseWriteback commits known edits.
LEMMA RevisionGood ==
    ASSUME TypeInv, NEW j \in Jobs, job[j].merged # None, NEW choice \in [Undecided(j) -> Actions]
    PROVE  /\ Capture(job[j].external, j) \in Good
           /\ Commit(Revised(j, Capture(job[j].external, j), choice),
                     {Capture(job[j].external, j), job[j].merged}, j) \in Good
<1> USE DEF TypeInv
<1> DEFINE external == Capture(job[j].external, j)
           t == Revised(j, external, choice)
<1>1. job[j].merged \in Good /\ job[j].external \in Good
  BY Zenon DEF JobsOK, JobOK, JobRows, Maybe
<1>2. external \in Good
  BY <1>1, CaptureIs
<1>3. /\ external.tree \in Trees /\ MarksOf(external.tree) \subseteq external.past
      /\ \A m \in external.past : m[1] \in Edits => m \in made
  BY <1>2, GoodFields, Zenon
<1>4. RowsOK(files[j])
  BY RowsTyped, Zenon
<1> HIDE DEF external
<1>5. t = [p \in Paths |-> t[p]]
  BY DEF Revised
<1>6. \A p \in Paths : \/ t[p] \subseteq external.tree[p]
                       \/ files[j][p] # None /\ t[p] \subseteq external.tree[p] \cup files[j][p].after
  <2>1. ASSUME NEW p \in Paths PROVE
             \/ t[p] = external.tree[p]
             \/ files[j][p] # None /\ p \in Undecided(j) /\ t[p] = Chosen(choice[p], external.tree[p], files[j][p].after)
             \/ files[j][p] # None /\ t[p] = files[j][p].after
    BY Zenon DEF Revised
  <2>2. \A p \in Undecided(j) : Chosen(choice[p], external.tree[p], files[j][p].after)
                                  \subseteq external.tree[p] \cup files[j][p].after
    BY DEF Chosen, Actions
  <2> HIDE DEF t
  <2> QED BY <2>1, <2>2, Zenon
<1> HIDE DEF t
<1>7. t \in Trees
  <2>1. ASSUME NEW p \in Paths PROVE t[p] \in SUBSET (Jobs \cup Edits)
    BY <1>3, <1>4, <1>6, Zenon DEF Trees, RowsOK, FileRows
  <2> QED BY <1>5, <2>1 DEF Trees
<1>8. ASSUME NEW m \in MarksOf(t), m[1] \in Edits PROVE m \in made
  <2>1. m \in Marks /\ m = <<m[1], m[2]>> /\ m[2] \in Paths /\ m[1] \in t[m[2]]
    BY DEF MarksOf, Marks
  <2>2. CASE m[1] \in external.tree[m[2]]
    BY <1>3, <1>8, <2>1, <2>2 DEF MarksOf
  <2>3. CASE files[j][m[2]] # None /\ m[1] \in files[j][m[2]].after
    BY <1>4, <1>8, <2>1, <2>3 DEF RowsOK
  <2> QED BY <1>6, <2>1, <2>2, <2>3
<1>9. {external, job[j].merged} \in SUBSET Good
  BY <1>1, <1>2
<1> QED
  BY <1>2, <1>7, <1>8, <1>9, CommitGood, Zenon DEF t, external

\* New operation rows are readable too.
LEMMA OpsStep ==
    ASSUME TypeInv, Next, w'.todo \subseteq w.todo \cup ops
    PROVE  \A o \in ops' \cup w'.todo : OpOK(o)'
<1> USE DEF TypeInv
<1>1. ASSUME NEW o \in ops \cup w.todo PROVE OpOK(o)'
  BY OpStays, Zenon DEF OpsOK
<1>2. CASE ops' \subseteq ops
  BY <1>1, <1>2, Zenon DEF OpsOK
<1>3. ASSUME NEW o, ops' \subseteq ops \cup {o}, OpOK(o) PROVE \A r \in ops' \cup w'.todo : OpOK(r)'
  BY <1>1, <1>3, OpStays DEF OpsOK
<1>4. ASSUME NEW j \in Jobs, ResolveMerge(j) PROVE \A r \in ops' \cup w'.todo : OpOK(r)'
  <2>1. PICK decided \in SUBSET Undecided(j) : \E choice \in [decided -> Actions] :
             ops' \subseteq ops \cup {[no |-> NextNo, kind |-> "resolve_index", job |-> j, choice |-> choice]}
    BY <1>4, Zenon DEF ResolveMerge
  <2>9. PICK choice \in [decided -> Actions] :
             ops' \subseteq ops \cup {[no |-> NextNo, kind |-> "resolve_index", job |-> j, choice |-> choice]}
    BY <2>1, Zenon
  <2>2. Undecided(j) \subseteq Paths
    BY Zenon DEF Undecided, IntegOK, Integs
  <2>3. choice \in Decisions
    BY <2>2 DEF Decisions
  <2>4. job[j].state # "none" /\ job[j].merged = None /\ job[j].state = "conflicted"
    BY <1>4, Zenon DEF ResolveMerge
  <2>5. job[j].external # None
    BY <2>4, Zenon DEF JobsOK, JobOK
  <2> DEFINE o == [no |-> NextNo, kind |-> "resolve_index", job |-> j, choice |-> choice]
  <2>6. o.kind = "resolve_index" /\ o.job = j /\ o.choice = choice
    BY Zenon
  <2> HIDE DEF o
  <2>7. OpOK(o)
    BY <2>3, <2>4, <2>5, <2>6, Zenon DEF OpOK
  <2> QED BY <1>3, <2>9, <2>7, Zenon DEF o
<1>5. ASSUME NEW j \in Jobs, ResolveWriteback(j) PROVE \A r \in ops' \cup w'.todo : OpOK(r)'
  <2> DEFINE external == Capture(job[j].external, j)
             merged(choice) == Commit(Revised(j, external, choice), {external, job[j].merged}, j)
             op(choice) == [no |-> NextNo, kind |-> "writeback_revision", job |-> j,
                     before |-> job[j].merged, target |-> merged(choice), external |-> external]
  <2>1. PICK choice \in [Undecided(j) -> Actions] : ops' = ops \cup {op(choice)}
    BY <1>5, Zenon DEF ResolveWriteback
  <2>2. job[j].merged # None /\ job[j].state = "conflicted"
    BY <1>5, Zenon DEF ResolveWriteback
  <2>3. job[j].merged \in Good /\ job[j].external \in Good
    BY <2>2, Zenon DEF JobsOK, JobOK, JobRows, Maybe
  <2>4. merged(choice) \in Good /\ external \in Good
    BY <2>1, <2>2, <2>3, RevisionGood, Zenon
  <2>5. /\ op(choice).kind = "writeback_revision" /\ op(choice).job = j
        /\ op(choice).before = job[j].merged /\ op(choice).target = merged(choice)
        /\ op(choice).external = external
    BY Zenon
  <2> HIDE DEF op, merged, external
  <2>6. OpOK(op(choice))
    BY <2>2, <2>3, <2>4, <2>5, Zenon DEF OpOK
  <2> QED BY <1>3, <2>1, <2>6
<1>6. ASSUME NEW j \in Jobs, Cancel(j) PROVE \A r \in ops' \cup w'.todo : OpOK(r)'
  <2>1. PICK preserved \in Good :
            ops' \subseteq ops \cup {[no |-> NextNo, kind |-> "merge_cancel", job |-> j, target |-> preserved]}
    <3> DEFINE parent == IF job[j].merged # None THEN job[j].merged ELSE delivered
               preserved == IF Partial(j) THEN Capture(parent, j) ELSE delivered
    <3>1. parent \in Good /\ delivered \in Good
      BY Zenon DEF RefsOK, JobsOK, JobRows, Maybe
    <3>2. preserved \in Good
      BY <3>1, CaptureIs
    <3>3. ops' \subseteq ops \cup {[no |-> NextNo, kind |-> "merge_cancel", job |-> j, target |-> preserved]}
      BY <1>6, Zenon DEF Cancel
    <3> HIDE DEF preserved
    <3> QED BY <3>2, <3>3, Zenon
  <2>2. job[j].state # "none"
    BY <1>6, Zenon DEF Cancel, Live
  <2> DEFINE o == [no |-> NextNo, kind |-> "merge_cancel", job |-> j, target |-> preserved]
  <2>3. o.kind = "merge_cancel" /\ o.job = j /\ o.target = preserved
    OBVIOUS
  <2> HIDE DEF o
  <2>4. OpOK(o)
    BY <2>1, <2>2, <2>3, Zenon DEF OpOK
  <2> QED BY <1>3, <2>1, <2>4, Zenon DEF o
<1>7. CASE ImportExternal
  <2> DEFINE o == [no |-> NextNo, kind |-> "external", job |-> None, before |-> delivered,
                  target |-> Capture(delivered, 0)]
  <2>1. ops' = ops \cup {o}
    BY <1>7, Zenon DEF ImportExternal
  <2>2. o.kind = "external" /\ o.before = delivered /\ o.target = Capture(delivered, 0)
    BY Zenon
  <2>3. delivered \in Good /\ Capture(delivered, 0) \in Good
    BY CaptureIs DEF RefsOK
  <2> HIDE DEF o
  <2>4. OpOK(o)
    BY <2>2, <2>3, Zenon DEF OpOK
  <2> QED BY <1>3, <2>1, <2>4
<1>8. \/ ops' \subseteq ops
      \/ \E j \in Jobs : ResolveMerge(j) \/ ResolveWriteback(j) \/ Cancel(j)
      \/ ImportExternal
  BY OpsMove, Zenon DEF FinishIndex, ReviseRow, FinishCancel, ImportRow, RecoverImport, RecoverNext
<1> QED
  BY <1>2, <1>4, <1>5, <1>6, <1>7, <1>8, Zenon

\* The worker's moves.
LEMMA GoesTo ==
    ASSUME WorkOK, NEW s \in Steps, Goto(s)
    PROVE  /\ WorkOK' /\ w'.at = s /\ w'.job = w.job /\ w'.left = w.left /\ w'.op = w.op
           /\ w'.todo = w.todo /\ w'.boot = w.boot
  BY DEF WorkOK, Goto

\* The lock is free.
LEMMA Rests ==
    ASSUME w' = NoWork
    PROVE  WorkOK' /\ w'.at = "idle" /\ w'.todo = {} /\ w'.boot = FALSE
  BY DEF NoWork, WorkOK, Steps, Resting

\* The lock is released.
LEMMA Releases ==
    ASSUME Release
    PROVE  WorkOK' /\ w'.at \in {"idle", "validate"} /\ w'.todo = {}
<1>1. CASE w' = NoWork
  BY <1>1, Rests, Zenon
<1>2. CASE w' = [NoWork EXCEPT !.at = "validate", !.boot = TRUE]
  BY <1>2, Zenon DEF NoWork, WorkOK, Steps, Resting
<1> QED BY <1>1, <1>2 DEF Release

\* An operation begins.
LEMMA Begins ==
    ASSUME WorkOK, NEW s \in Steps, NEW op, Begin(s, op)
    PROVE  /\ WorkOK' /\ w'.at = s /\ w'.job = op.job /\ w'.left = w.left /\ w'.op = op
           /\ w'.todo = w.todo /\ w'.boot = w.boot
  BY Zenon DEF WorkOK, Begin

\* An operation ends.
LEMMA EndsOp ==
    ASSUME WorkOK, NEW op, EndOp(op)
    PROVE  /\ WorkOK' /\ w'.todo \subseteq w.todo
           /\ \/ w'.at = "idle" /\ w.todo = {} /\ w'.todo = {}
              \/ w'.at = "recover" /\ w'.todo = w.todo \ {op}
<1>1. CASE w.todo = {}
  BY <1>1, Rests DEF EndOp
<1>2. CASE w.todo # {}
  BY <1>2, Zenon DEF EndOp, WorkOK, Steps, Resting
<1> QED BY <1>1, <1>2

\* Where the worker goes from each step.
Restful == /\ WorkOK' /\ w'.at \in Resting /\ w'.todo \subseteq w.todo \cup ops
           /\ w'.at # "recover" => w'.todo = {}
Goes(s) == /\ WorkOK' /\ w'.at = s /\ w'.job = w.job /\ w'.left = w.left /\ w'.op = w.op
           /\ w'.todo = w.todo
Takes(s, op) == /\ WorkOK' /\ w'.at = s /\ w'.job = op.job /\ w'.left = w.left /\ w'.op = op
                /\ w'.todo = w.todo

\* The same facts by name.
LEMMA Going ==
    ASSUME TypeInv
    PROVE  /\ \A s \in Steps : Goto(s) => Goes(s)
           /\ Release => Restful
           /\ w' = NoWork => Restful
           /\ \A op : EndOp(op) => Restful
           /\ \A s \in Steps : \A op : Begin(s, op) => Takes(s, op)
<1>1. WorkOK BY DEF TypeInv
<1>2. ASSUME NEW s \in Steps, Goto(s) PROVE Goes(s)
  BY <1>1, <1>2, GoesTo DEF Goes
<1>3. ASSUME Release PROVE Restful
  BY <1>3, Releases DEF Restful, Resting
<1>4. ASSUME w' = NoWork PROVE Restful
  BY <1>4, Rests DEF Restful, Resting
<1>5. ASSUME NEW op, EndOp(op) PROVE Restful
  BY <1>1, <1>5, EndsOp DEF Restful, Resting
<1>6. ASSUME NEW s \in Steps, NEW op, Begin(s, op) PROVE Takes(s, op)
  BY <1>1, <1>6, Begins DEF Takes
<1> QED BY <1>2, <1>3, <1>4, <1>5, <1>6

\* Where the steps of process go.
LEMMA ProcessGoes ==
    ASSUME TypeInv
    PROVE  /\ Prepare => Goes("moveMain")
           /\ MoveMain => Restful \/ Goes("moveDelivered")
           /\ MoveDelivered => Restful \/ Goes("saveExternal")
           /\ SaveExternal => Goes("adoptExternal")
           /\ AdoptExternal => Goes("merge")
           /\ Merge => Restful \/ Goes("advance") \/ Goes("commit")
           /\ CommitMerge => Restful \/ Goes("merge")
           /\ Advance => Restful \/ Goes("reset")
           /\ Reset => Goes("manifest")
           /\ Recheck => Restful \/ Goes("rename")
           /\ Rename => Goes("observe")
           /\ Verify => Restful \/ Goes("deliver")
           /\ Deliver => Restful \/ Goes("saveDelivered")
           /\ SaveDelivered => Goes("finish")
           /\ FinishJob => Restful
<1>1. "head" \in Steps /\ "adoptExternal" \in Steps /\ "advance" \in Steps /\ "commit" \in Steps /\ "deliver" \in Steps /\ "finish" \in Steps /\ "manifest" \in Steps /\ "merge" \in Steps /\ "moveDelivered" \in Steps /\ "moveMain" \in Steps /\ "observe" \in Steps /\ "rename" \in Steps /\ "reset" \in Steps /\ "saveDelivered" \in Steps /\ "saveExternal" \in Steps
  BY Zenon DEF Steps, Processing, Indexing, Revising, Cancelling, Importing, Resting
<1>2. Prepare => Goes("moveMain")
  BY <1>1, Going DEF Prepare
<1>3. MoveMain => Restful \/ Goes("moveDelivered")
  BY <1>1, Going DEF MoveMain, Throws
<1>4. MoveDelivered => Restful \/ Goes("saveExternal")
  BY <1>1, Going DEF MoveDelivered, Throws
<1>5. SaveExternal => Goes("adoptExternal")
  BY <1>1, Going DEF SaveExternal
<1>6. AdoptExternal => Goes("merge")
  BY <1>1, Going DEF AdoptExternal
<1>7. Merge => Restful \/ Goes("advance") \/ Goes("commit")
  BY <1>1, Going, Zenon DEF Merge, Throws
<1>8. CommitMerge => Restful \/ Goes("merge")
  BY <1>1, Going DEF CommitMerge
<1>9. Advance => Restful \/ Goes("reset")
  BY <1>1, Going DEF Advance, Throws
<1>10. Reset => Goes("manifest")
  BY <1>1, Going DEF Reset
<1>11. Recheck => Restful \/ Goes("rename")
  BY <1>1, Going DEF Recheck, WritebackConflict
<1>12. Rename => Goes("observe")
  BY <1>1, Going DEF Rename
<1>13. Verify => Restful \/ Goes("deliver")
  BY <1>1, Going, Zenon DEF Verify, WritebackConflict
<1>14. Deliver => Restful \/ Goes("saveDelivered")
  BY <1>1, Going DEF Deliver, Throws
<1>15. SaveDelivered => Goes("finish")
  BY <1>1, Going DEF SaveDelivered
<1>16. FinishJob => Restful
  BY <1>1, Going DEF FinishJob, Goes, Restful, Resting, TypeInv, Place, Processing, At
<1> QED
  BY <1>2, <1>3, <1>4, <1>5, <1>6, <1>7, <1>8, <1>9, <1>10, <1>11, <1>12, <1>13, <1>14, <1>15,
     <1>16

\* Where the steps of an operation go.
LEMMA OperateGoes ==
    ASSUME TypeInv
    PROVE  /\ StageIndex => Goes("staged")
           /\ FinishIndex => Restful
           /\ ReviseMain => Restful \/ Goes("reviseDelivered")
           /\ ReviseDelivered => Restful \/ Goes("reviseJob")
           /\ ReviseJob => Goes("reviseRow")
           /\ ReviseRow => Restful
           /\ CancelMain => Restful \/ Goes("cancelJob") \/ Goes("cancelDelivered")
           /\ CancelDelivered => Goes("cancelRow")
           /\ CancelRow => Goes("cancelJob")
           /\ CancelJob => Goes("cancelled")
           /\ FinishCancel => Restful
           /\ ImportMain => Restful \/ Goes("importDelivered")
           /\ ImportDelivered => Goes("importRow")
           /\ ImportRow => Restful
<1>1. "head" \in Steps /\ "cancelDelivered" \in Steps /\ "cancelJob" \in Steps /\ "cancelRow" \in Steps /\ "cancelled" \in Steps /\ "importDelivered" \in Steps /\ "importRow" \in Steps /\ "reviseDelivered" \in Steps /\ "reviseJob" \in Steps /\ "reviseRow" \in Steps /\ "staged" \in Steps
  BY Zenon DEF Steps, Processing, Indexing, Revising, Cancelling, Importing, Resting
<1>2. StageIndex => Goes("staged")
  BY <1>1, Going DEF StageIndex
<1>3. FinishIndex => Restful
  BY <1>1, Going DEF FinishIndex
<1>4. ReviseMain => Restful \/ Goes("reviseDelivered")
  BY <1>1, Going DEF ReviseMain
<1>5. ReviseDelivered => Restful \/ Goes("reviseJob")
  BY <1>1, Going DEF ReviseDelivered
<1>6. ReviseJob => Goes("reviseRow")
  BY <1>1, Going DEF ReviseJob
<1>7. ReviseRow => Restful
  BY <1>1, Going DEF ReviseRow
<1>8. CancelMain => Restful \/ Goes("cancelJob") \/ Goes("cancelDelivered")
  BY <1>1, Going DEF CancelMain
<1>9. CancelDelivered => Goes("cancelRow")
  BY <1>1, Going DEF CancelDelivered
<1>10. CancelRow => Goes("cancelJob")
  BY <1>1, Going DEF CancelRow
<1>11. CancelJob => Goes("cancelled")
  BY <1>1, Going DEF CancelJob
<1>12. FinishCancel => Restful
  BY <1>1, Going DEF FinishCancel
<1>13. ImportMain => Restful \/ Goes("importDelivered")
  BY <1>1, Going DEF ImportMain
<1>14. ImportDelivered => Goes("importRow")
  BY <1>1, Going DEF ImportDelivered
<1>15. ImportRow => Restful
  BY <1>1, Going DEF ImportRow
<1> QED BY <1>2, <1>3, <1>4, <1>5, <1>6, <1>7, <1>8, <1>9, <1>10, <1>11, <1>12, <1>13, <1>14, <1>15

\* The next job, the next file, the next operation.
TakesHead ==
    /\ WorkOK' /\ w'.job = FifoHead /\ w'.todo = w.todo /\ FifoHead \in Live
    /\ job[FifoHead].state # "conflicted"
    /\ \/ w'.at = "advance" /\ job[FifoHead].merged # None
       \/ w'.at = "prepare" /\ job[FifoHead].merged = None
            /\ (job[FifoHead].state = "queued" \/ job[FifoHead].external = None)
       \/ w'.at = "merge" /\ job[FifoHead].merged = None /\ job[FifoHead].external # None
            /\ job[FifoHead].state # "queued"
Starts ==
    /\ WorkOK' /\ w'.at = "file" /\ w'.job = w.job /\ w'.todo = w.todo
    /\ w'.left = {p \in Paths : Manifest(files[w.job], job[w.job].external, job[w.job].merged)[p] # None}
Passes ==
    /\ WorkOK' /\ w'.at = "file" /\ w'.job = w.job /\ w'.todo = w.todo
    /\ w'.left = w.left \ {First(w.left)}

\* The head of the queue is taken up from its durable fields.
LEMMA HeadGoes ==
    ASSUME TypeInv, TakeHead
    PROVE  Restful \/ TakesHead
<1>1. CASE Release
  BY <1>1, Going
<1>2. CASE ~(FifoHead = None \/ job[FifoHead].state = "conflicted")
  <2>1. FifoHead \in Live
    BY <1>2, HeadIsLive
  <2> DEFINE s == IF job[FifoHead].merged # None THEN "advance"
                  ELSE IF job[FifoHead].state = "queued" \/ job[FifoHead].external = None THEN "prepare"
                  ELSE "merge"
  <2>2. w' = [w EXCEPT !.job = FifoHead, !.at = s]
    BY <1>2 DEF TakeHead
  <2>3. s \in Steps
    BY DEF Steps, Processing
  <2>4. \/ s = "advance" /\ job[FifoHead].merged # None
        \/ s = "prepare" /\ job[FifoHead].merged = None
            /\ (job[FifoHead].state = "queued" \/ job[FifoHead].external = None)
        \/ s = "merge" /\ job[FifoHead].merged = None /\ job[FifoHead].external # None
            /\ job[FifoHead].state # "queued"
    OBVIOUS
  <2> HIDE DEF s
  <2>5. WorkOK' /\ w'.job = FifoHead /\ w'.at = s /\ w'.todo = w.todo
    BY <2>2, <2>3, Zenon DEF TypeInv, WorkOK
  <2> QED BY <1>2, <2>1, <2>4, <2>5, Zenon DEF TakesHead
<1> QED BY <1>1, <1>2 DEF TakeHead

\* The file loop.
LEMMA FileGoes ==
    ASSUME TypeInv
    PROVE  /\ StartWriting => Starts
           /\ ApplyFile => Restful \/ Goes("recheck") \/ Passes
           /\ Observe => Restful \/ Passes
<1>1. "recheck" \in Steps /\ "file" \in Steps
  BY DEF Steps, Processing
<1>2. StartWriting => Starts
  BY <1>1, Zenon DEF StartWriting, Starts, TypeInv, WorkOK
<1>3. ASSUME At("file"), w' = [w EXCEPT !.left = @ \ {First(w.left)}] PROVE Passes
  BY <1>3 DEF Passes, TypeInv, WorkOK, At
<1>4. ApplyFile => Restful \/ Goes("recheck") \/ Passes
  BY <1>1, <1>3, Going DEF ApplyFile, WritebackConflict
<1>5. ASSUME w' = [w EXCEPT !.at = "file", !.left = @ \ {First(w.left)}] PROVE Passes
  BY <1>1, <1>5, Zenon DEF Passes, TypeInv, WorkOK
<1>6. Observe => Restful \/ Passes
  BY <1>5, Going DEF Observe, WritebackConflict
<1> QED BY <1>2, <1>4, <1>6

\* An operation is taken up: a row of it exists, or the loop of recover holds one.
TakesOp(op) ==
    \/ op.kind = "resolve_index" /\ op \in ops' /\ job[op.job].state = "conflicted" /\ Takes("index", op)
    \/ op.kind = "writeback_revision" /\ op \in ops' \cup w.todo /\ Takes("reviseMain", op)
    \/ op.kind = "merge_cancel" /\ op \in ops' \cup w.todo /\ Takes("cancelMain", op)
    \/ op.kind = "external" /\ op \in ops' /\ Takes("importMain", op)

\* The loop of recover, and the steps that stop the worker.
LEMMA RecoverGoes ==
    ASSUME TypeInv
    PROVE  /\ RecoverImport => Restful
           /\ RecoverNext => Restful \/ \E op \in w.todo : TakesOp(op)
           /\ Validate => Restful
           /\ Drain => Restful
           /\ Crash => Restful
           /\ Fault => Restful
           /\ \A j \in Jobs : Retry(j) => Restful
<1>1. {"head", "index", "reviseMain", "cancelMain", "importMain", "recover", "boot", "idle"} \subseteq Steps
  BY DEF Steps, Resting, Indexing, Revising, Cancelling, Importing
<1>2. ASSUME w' = [w EXCEPT !.at = "recover", !.todo = ops] PROVE Restful
  BY <1>1, <1>2, Zenon DEF Restful, Resting, TypeInv, WorkOK
<1>3. RecoverImport => Restful
  <2>1. ASSUME UNCHANGED w, At("boot") PROVE Restful
    BY <2>1, Zenon DEF Restful, Resting, TypeInv, WorkOK, At, Place
  <2> QED BY <1>2, <2>1, Going, Zenon DEF RecoverImport
<1>4. ASSUME Goto("head"), w.todo = {} PROVE Restful
  BY <1>1, <1>4, Going, Zenon DEF Restful, Resting, Goes
<1>5. RecoverNext => Restful \/ \E op \in w.todo : TakesOp(op)
  <2>1. ASSUME NEW op \in w.todo, op.kind = "resolve_index", op \in ops,
               job[op.job].state = "conflicted", Begin("index", op), UNCHANGED ops
        PROVE  TakesOp(op)
    BY <1>1, <2>1, Going, Zenon DEF TakesOp
  <2>2. ASSUME NEW op \in w.todo, op.kind = "writeback_revision", Begin("reviseMain", op)
        PROVE  TakesOp(op)
    BY <1>1, <2>2, Going DEF TakesOp
  <2>3. ASSUME NEW op \in w.todo, op.kind = "merge_cancel", Begin("cancelMain", op)
        PROVE  TakesOp(op)
    BY <1>1, <2>3, Going DEF TakesOp
  <2>4. \A op : EndOp(op) => Restful
    BY Going
  <2> QED BY <1>4, <2>1, <2>2, <2>3, <2>4, Zenon DEF RecoverNext
<1>6. Validate => Restful
  BY Going DEF Validate
<1>7. Drain => Restful
  BY <1>4, Zenon DEF Drain, TypeInv, Place, At
<1>8. Crash => Restful
  BY <1>1, Zenon DEF Crash, Restful, NoWork, WorkOK, Resting
<1>9. Fault => Restful
  BY Going DEF Fault, Throws
<1>10. \A j \in Jobs : Retry(j) => Restful
  BY <1>2 DEF Retry
<1> QED BY <1>3, <1>5, <1>6, <1>7, <1>8, <1>9, <1>10

\* A request of the user begins an operation that has a row.
LEMMA UserGoes ==
    ASSUME TypeInv
    PROVE  /\ \A j \in Jobs :
                 ResolveMerge(j) \/ ResolveWriteback(j) \/ ResolveAgain(j) \/ Cancel(j) =>
                    \E op \in ops' : TakesOp(op) /\ op.job = j
           /\ ImportExternal => \E op \in ops' : TakesOp(op)
<1>1. {"index", "reviseMain", "cancelMain", "importMain"} \subseteq Steps
  BY DEF Steps, Indexing, Revising, Cancelling, Importing
<1>2. ASSUME NEW j \in Jobs, ResolveMerge(j) PROVE \E op \in ops' : TakesOp(op) /\ op.job = j
  <2>1. \E op \in ops' : op.kind = "resolve_index" /\ op.job = j /\ Begin("index", op)
    BY <1>2, Zenon DEF ResolveMerge
  <2>2. job[j].state = "conflicted"
    BY <1>2, Zenon DEF ResolveMerge
  <2> QED BY <1>1, <2>1, <2>2, Going, Zenon DEF TakesOp
<1>3. ASSUME NEW j \in Jobs, ResolveWriteback(j) PROVE \E op \in ops' : TakesOp(op) /\ op.job = j
  <2>1. \E op \in ops' : op.kind = "writeback_revision" /\ op.job = j /\ Begin("reviseMain", op)
    BY <1>3, Zenon DEF ResolveWriteback
  <2> QED BY <1>1, <2>1, Going, Zenon DEF TakesOp
<1>4. ASSUME NEW j \in Jobs, ResolveAgain(j) PROVE \E op \in ops' : TakesOp(op) /\ op.job = j
  <2>1. \E op \in ops' : op.job = j /\
           (\/ op.kind = "resolve_index" /\ job[j].state = "conflicted" /\ Begin("index", op)
            \/ op.kind = "writeback_revision" /\ Begin("reviseMain", op))
    BY <1>4, Zenon DEF ResolveAgain
  <2> QED BY <1>1, <2>1, Going, Zenon DEF TakesOp
<1>5. ASSUME NEW j \in Jobs, Cancel(j) PROVE \E op \in ops' : TakesOp(op) /\ op.job = j
  <2>1. \E op \in ops' : op.kind = "merge_cancel" /\ op.job = j /\ Begin("cancelMain", op)
    BY <1>5, Zenon DEF Cancel
  <2> QED BY <1>1, <2>1, Going, Zenon DEF TakesOp
<1>6. ImportExternal => \E op \in ops' : TakesOp(op)
  <2>1. ImportExternal => \E op \in ops' : op.kind = "external" /\ Begin("importMain", op)
    BY Zenon DEF ImportExternal
  <2> QED BY <1>1, <2>1, Going, Zenon DEF TakesOp
<1> QED BY <1>2, <1>3, <1>4, <1>5, <1>6

\* Only a revision takes a manifest away.
LEMMA RowsStay ==
    ASSUME TypeInv, Next, ~ReviseJob, NEW j \in Jobs, NEW p \in Paths, files[j][p] # None
    PROVE  files'[j][p] # None
<1>0. files \in [Jobs -> [Paths -> {None} \cup FileRows]]
  BY DEF TypeInv, JobsOK
<1>1. CASE UNCHANGED files
  BY <1>1
<1>2. ASSUME NEW i, NEW q, NEW s, Marked(i, q, s) PROVE files'[j][p] # None
  <2>1. i \in Jobs /\ q \in Paths /\ files[i][q] # None /\ s \in FileStates
    BY <1>2 DEF Marked
  <2>2. [files[i][q] EXCEPT !.state = s] # None
    <3>1. files[i][q] \in FileRows BY <1>0, <2>1
    <3>2. [files[i][q] EXCEPT !.state = s] \in FileRows BY <2>1, <3>1 DEF FileRows, FileStates
    <3> QED BY <3>2, MergeAssumption
  <2>3. files' = [files EXCEPT ![i] = [files[i] EXCEPT ![q] = [files[i][q] EXCEPT !.state = s]]]
    BY <1>2 DEF Marked
  <2> QED BY <1>0, <2>1, <2>2, <2>3
<1>3. ASSUME NEW i \in Jobs, NEW c \in Good, NEW d \in Good,
             files' = [files EXCEPT ![i] = Manifest(files[i], c, d)]
      PROVE  files'[j][p] # None
  <2>1. RowsOK(files[i])
    BY RowsTyped
  <2>2. files[i][p] # None => Manifest(files[i], c, d)[p] = files[i][p]
    BY <2>1, ManifestIs, SMTT(30)
  <2> QED BY <1>0, <1>3, <2>2
<1>4. CASE StartWriting
  <2>1. w.job \in Jobs /\ job[w.job].external \in Good /\ job[w.job].merged \in Good
    BY <1>4, Zenon DEF StartWriting, TypeInv, Place, Processing, Merged, At, JobsOK, JobOK,
       JobRows, Maybe
  <2> QED BY <1>3, <1>4, <2>1, Zenon DEF StartWriting
<1>5. CASE ReviseRow
  <2>1. w.job \in Jobs /\ w.op.external \in Good /\ w.op.target \in Good
    BY <1>5, OpFields, Zenon DEF ReviseRow, At, Revising, OpOK, TypeInv, Place
  <2>2. files' = [files EXCEPT ![w.job] = Manifest(files[w.job], w.op.external, w.op.target)]
    BY <1>0, <1>5, <2>1 DEF ReviseRow
  <2> QED BY <1>3, <2>1, <2>2, Zenon
<1>6. ASSUME NEW i \in Jobs, AuditRefuses(i) PROVE files'[j][p] # None
  <2>1. CASE i # j \/ p \notin Reedited(j)
    BY <1>0, <1>6, <2>1 DEF AuditRefuses
  <2>2. CASE i = j /\ p \in Reedited(j)
    <3>1. [files[j][p] EXCEPT !.state = "conflicted"] # None
      BY RowsTyped, RowState, Zenon
    <3>2. files'[j][p] = [files[j][p] EXCEPT !.state = "conflicted"]
      BY <1>0, <1>6, <2>2 DEF AuditRefuses
    <3> QED BY <3>1, <3>2
  <2> QED BY <2>1, <2>2
<1> QED
  BY <1>1, <1>2, <1>4, <1>5, <1>6, FilesMove, FileActions

\* Every step does.
LEMMA PlaceStep ==
    ASSUME TypeInv, Next
    PROVE  WorkOK' /\ Place' /\ w'.todo \subseteq w.todo \cup ops
\* Between operations the worker relies on nothing.
<1>RestsAnywhere. Restful => Place'
    BY Zenon DEF Restful, Place, Resting, Processing, Adopting, Merging, Merged, Writing,
       Indexing, Revising, Cancelling, Importing
\* What the places rely on stays.
<1>PlaceKeeps.
    ASSUME TypeInv, Next
    PROVE  /\ \A j \in Jobs : /\ job[j].state # "none" => job'[j].state # "none"
                              /\ job[j].external # None => job'[j].external # None
                              /\ job[j].merged # None => job'[j].merged # None
                              /\ intent[j] # None => intent'[j] # None
           /\ \A o : OpOK(o) => OpOK(o)'
  <2>1. \A o : OpOK(o) => OpOK(o)'
    BY OpStays
  <2> QED BY <2>1, JobsGrown, PinsStep, Zenon DEF JobsGrow
\* A step inside an operation.
<1>OperatePlace.
    ASSUME TypeInv, Next, UNCHANGED ops
    PROVE  /\ \A s \in Indexing : Goes(s) /\ w.at \in Indexing => Place'
           /\ \A s \in Revising : Goes(s) /\ w.at \in Revising => Place'
           /\ \A s \in Cancelling : Goes(s) /\ w.at \in Cancelling => Place'
           /\ \A s \in Importing : Goes(s) /\ w.at \in Importing => Place'
  <2> USE DEF Goes, Place, Processing, Adopting, Merging, Merged, Writing, Indexing, Revising,
       Cancelling, Importing, TypeInv
  <2>1. \A s \in Indexing : Goes(s) /\ w.at \in Indexing => Place'
    BY <1>PlaceKeeps, Zenon
  <2>2. \A s \in Revising : Goes(s) /\ w.at \in Revising => Place'
    BY <1>OperatePlace, Zenon
  <2>3. \A s \in Cancelling : Goes(s) /\ w.at \in Cancelling => Place'
    BY <1>OperatePlace, Zenon
  <2>4. \A s \in Importing : Goes(s) /\ w.at \in Importing => Place'
    BY <1>OperatePlace, Zenon
  <2> QED BY <2>1, <2>2, <2>3, <2>4, Zenon
\* An operation begins where its row says.
<1>OpPlace.
    ASSUME TypeInv, Next, NEW op, TakesOp(op), op \in ops', OpOK(op)'
    PROVE  Place'
    BY <1>OpPlace, Zenon DEF TakesOp, Takes, Place, Processing, Adopting, Merging, Merged,
       Writing, Indexing, Revising,
       Cancelling, Importing
\* Every step of process finds what it relies on.
<1>ProcessStep.
    ASSUME TypeInv, Next, Process
    PROVE  WorkOK' /\ Place' /\ w'.todo \subseteq w.todo \cup ops
  \* A step inside process, by the group of the next position.
  <2>ProcessPlace.
      ASSUME TypeInv, Next, w.at \in Processing, ~ReviseJob
      PROVE  /\ \A s \in Adopting : Goes(s) /\ intent'[w.job] # None => Place'
             /\ \A s \in {"merge"} : Goes(s) /\ job'[w.job].external # None => Place'
             /\ Goes("commit") /\ w.at \in Merging /\ integ'.source # None => Place'
             /\ \A s \in Merged \ Writing : Goes(s) /\ job'[w.job].merged # None => Place'
             /\ \A s \in Writing \ {"file"} : Goes(s) /\ w.at \in Writing /\ w.left # {} => Place'
             /\ Passes /\ w.at \in Writing => Place'
    <3>1. w.job \in Jobs /\ w.todo = {} /\ job'[w.job].state # "none"
      BY <2>ProcessPlace, <1>PlaceKeeps, Zenon DEF TypeInv, Place
    <3>2. w.at \in Merging => job'[w.job].external # None
      BY <3>1, <1>PlaceKeeps, Zenon DEF TypeInv, Place
    <3>3. w.at \in Writing => job'[w.job].merged # None /\ \A p \in w.left : files'[w.job][p] # None
      <4>1. w.at \in Writing => job[w.job].merged # None /\ \A p \in w.left : p \in Paths /\ files[w.job][p] # None
        BY Zenon DEF TypeInv, Place, WorkOK, Merged
      <4> QED BY <2>ProcessPlace, <3>1, <4>1, <1>PlaceKeeps, RowsStay, Zenon
    <3>4. \A s \in Adopting : Goes(s) /\ intent'[w.job] # None => Place'
      BY <3>1, Zenon DEF Goes, Place, Processing, Adopting, Merging, Merged, Writing, Indexing,
         Revising,
         Cancelling, Importing
    <3>5. \A s \in {"merge"} : Goes(s) /\ job'[w.job].external # None => Place'
      BY <3>1, Zenon DEF Goes, Place, Processing, Adopting, Merging, Merged, Writing, Indexing,
         Revising,
         Cancelling, Importing
    <3>6. Goes("commit") /\ w.at \in Merging /\ integ'.source # None => Place'
      BY <3>1, <3>2, Zenon DEF Goes, Place, Processing, Adopting, Merging, Merged, Writing,
         Indexing, Revising,
         Cancelling, Importing
    <3>7. \A s \in Merged \ Writing : Goes(s) /\ job'[w.job].merged # None => Place'
      BY <3>1, Zenon DEF Goes, Place, Processing, Adopting, Merging, Merged, Writing, Indexing,
         Revising,
         Cancelling, Importing
    <3>8. \A s \in Writing \ {"file"} : Goes(s) /\ w.at \in Writing /\ w.left # {} => Place'
      BY <3>1, <3>3, Zenon DEF Goes, Place, Processing, Adopting, Merging, Merged, Writing,
         Indexing, Revising,
         Cancelling, Importing
    <3>9. Passes /\ w.at \in Writing => Place'
      BY <3>1, <3>3, Zenon DEF Passes, Place, Processing, Adopting, Merging, Merged, Writing,
         Indexing, Revising,
         Cancelling, Importing
    <3> QED BY <3>4, <3>5, <3>6, <3>7, <3>8, <3>9, Zenon
  <2> USE DEF At
  <2>1. CASE Restful
    BY <2>1, <1>RestsAnywhere DEF Restful
  <2>2. \A s : Goes(s) => WorkOK' /\ w'.todo \subseteq w.todo \cup ops
    BY DEF Goes
  <2>3. Passes \/ Starts \/ TakesHead => WorkOK' /\ w'.todo \subseteq w.todo \cup ops
    BY Zenon DEF Passes, Starts, TakesHead
  <2>4. w.at \in Processing => w.job \in Jobs
    BY Zenon DEF TypeInv, Place
  <2>5. CASE TakeHead
    <3>1. CASE TakesHead
      <4>1. FifoHead \in Jobs /\ job'[FifoHead].state # "none" /\ w.todo = {}
        BY <2>5, <3>1, <1>PlaceKeeps DEF TakesHead, Live, TakeHead, TypeInv, Place
      <4>2. UNCHANGED job
        BY <2>5 DEF TakeHead
      <4> QED
        BY <2>3, <3>1, <4>1, <4>2, Zenon DEF TakesHead, Place, Processing, Adopting, Merging,
           Merged, Writing,
           Indexing, Revising, Cancelling, Importing
    <3> QED BY <2>1, <2>5, <3>1, HeadGoes
  <2>6. CASE Prepare
    <3>1. w.at \in Processing /\ ~ReviseJob
      BY <2>6 DEF Prepare, Processing, ReviseJob
    <3>2. intent'[w.job] # None
      <4>1. [before |-> delivered, target |-> Capture(delivered, w.job)] \in IntentRows
        BY <2>4, <3>1, CaptureIs, Zenon DEF IntentRows, TypeInv, RefsOK
      <4>2. [before |-> delivered, target |-> Capture(delivered, w.job)] # None
        BY <4>1, GoodFields, MergeAssumption, Zenon DEF Intents, IntentRows
      <4> QED BY <2>4, <2>6, <3>1, <4>2 DEF Prepare, TypeInv, JobsOK
    <3>3. Goes("moveMain") /\ "moveMain" \in Adopting
      BY <2>6, ProcessGoes DEF Adopting
    <3> QED BY <2>2, <3>1, <3>2, <3>3, <2>ProcessPlace, Zenon
  <2>7. CASE MoveMain \/ MoveDelivered \/ SaveExternal
    <3>1. w.at \in Processing /\ w.at \in Adopting /\ ~ReviseJob
      BY <2>7 DEF MoveMain, MoveDelivered, SaveExternal, Processing, Adopting, ReviseJob
    <3>2. intent'[w.job] # None
      BY <2>4, <3>1, <1>PlaceKeeps, Zenon DEF TypeInv, Place
    <3>3. Restful \/ \E s \in Adopting : Goes(s)
      BY <2>7, ProcessGoes DEF Adopting
    <3> QED BY <2>1, <2>2, <3>1, <3>2, <3>3, <2>ProcessPlace, Zenon
  <2>8. CASE AdoptExternal
    <3>1. w.at \in Processing /\ ~ReviseJob
      BY <2>8 DEF AdoptExternal, Processing, ReviseJob
    <3>2. job'[w.job].external # None
      <4>1. w.job \in Jobs /\ intent[w.job].target \in Good
        BY <2>8, AdoptWrites
      <4>2. intent[w.job].target # None
        BY <4>1, GoodFields, Zenon
      <4>3. job \in [Jobs -> JobRows] BY DEF TypeInv, JobsOK
      <4> QED BY <2>8, <4>1, <4>2, <4>3 DEF AdoptExternal, JobRows
    <3>3. Goes("merge")
      BY <2>8, ProcessGoes
    <3> QED BY <2>2, <3>1, <3>2, <3>3, <2>ProcessPlace, Zenon
  <2>9. CASE Merge
    <3>1. w.at \in Processing /\ w.at \in Merging /\ ~ReviseJob
      BY <2>9, Zenon DEF Merge, Processing, Merging, ReviseJob
    <3>2. Goes("advance") => job'[w.job].merged # None
      <4>0. w'.at = "advance" => ~Goto("commit") /\ ~Throws
        BY GoesTo, Releases DEF Throws, TypeInv, Steps, Processing
      <4>1. w'.at = "advance" => /\ w.job \in Jobs
               /\ \E c \in Good : job' = [job EXCEPT ![w.job].state = "merging", ![w.job].merged = c]
        <5>1. w.job \in Jobs /\ (pin[w.job] # None => pin[w.job] \in Good) /\ job[w.job].external \in Good
          BY <3>1, <2>4, Zenon DEF TypeInv, Place, JobsOK, JobRows, Maybe
        <5> QED BY <2>9, <4>0, <5>1, Zenon DEF Merge
      <4>2. \A c \in Good : c # None
        BY GoodFields
      <4>3. job \in [Jobs -> JobRows] BY DEF TypeInv, JobsOK
      <4> QED BY <4>1, <4>2, <4>3, Zenon DEF Goes, JobRows
    <3>3. Goes("commit") => integ'.source # None
      <4>0. w'.at = "commit" => ~Goto("advance") /\ ~Throws
        BY GoesTo, Releases DEF Throws, TypeInv, Steps, Processing
      <4>1. job[w.job].source # None
        BY <2>4, <3>1, Zenon DEF TypeInv, Place, JobsOK, JobOK
      <4>2. \/ Goto("advance") \/ Throws \/ integ'.source = job[w.job].source
            \/ integ.source # None /\ UNCHANGED integ
        <5>1. \/ Goto("advance") \/ Throws \/ (integ.source # None /\ UNCHANGED integ)
              \/ \E clash, tree : integ' = Begun(job[w.job].source, clash, tree)
          BY <2>9, Zenon DEF Merge, Begun
        <5> QED BY <5>1, BegunFields
      <4> QED BY <4>0, <4>1, <4>2, Zenon DEF Goes
    <3>4. Restful \/ Goes("advance") \/ Goes("commit")
      BY <2>9, ProcessGoes
    <3>5. "advance" \in Merged \ Writing
      BY DEF Merged, Writing
    <3> QED BY <2>1, <2>2, <3>1, <3>2, <3>3, <3>4, <3>5, <2>ProcessPlace, Zenon
  <2>10. CASE CommitMerge
    <3>1. w.at \in Processing /\ w.at \in Merging /\ ~ReviseJob
      BY <2>10 DEF CommitMerge, Processing, Merging, ReviseJob
    <3>2. job'[w.job].external # None
      BY <2>4, <3>1, <1>PlaceKeeps, Zenon DEF TypeInv, Place
    <3> QED BY <2>1, <2>2, <2>10, <3>1, <3>2, ProcessGoes, <2>ProcessPlace, Zenon
  <2>11. CASE Advance \/ Reset \/ Verify \/ Deliver \/ SaveDelivered
    <3>1. w.at \in Processing /\ w.at \in Merged /\ ~ReviseJob
      BY <2>11, Zenon DEF Advance, Reset, Verify, Deliver, SaveDelivered, Processing, Merged,
         Writing, ReviseJob
    <3>2. job'[w.job].merged # None
      BY <2>4, <3>1, <1>PlaceKeeps, Zenon DEF TypeInv, Place
    <3>3. Restful \/ \E s \in Merged \ Writing : Goes(s)
      BY <2>11, ProcessGoes DEF Merged, Writing
    <3> QED BY <2>1, <2>2, <3>1, <3>2, <3>3, <2>ProcessPlace, Zenon
  <2>12. CASE StartWriting
    <3>1. w.job \in Jobs /\ w.todo = {} /\ job'[w.job].state # "none" /\ job'[w.job].merged # None
      BY <2>12, <1>PlaceKeeps, Zenon DEF StartWriting, TypeInv, Place, Processing, Merged
    <3>2. files'[w.job] = Manifest(files[w.job], job[w.job].external, job[w.job].merged)
      BY <2>12, <3>1 DEF StartWriting, TypeInv, JobsOK
    <3>3. Starts
      BY <2>12, FileGoes
    <3>4. Place'
      BY <3>1, <3>2, <3>3, Zenon DEF Starts, Place, Processing, Adopting, Merging, Merged,
         Writing, Indexing,
         Revising, Cancelling, Importing
    <3> QED BY <2>3, <3>3, <3>4
  <2>13. CASE ApplyFile \/ Recheck \/ Rename \/ Observe
    <3>1. w.at \in Processing /\ w.at \in Writing /\ w.left # {} /\ ~ReviseJob
      BY <2>13, Zenon DEF ApplyFile, Recheck, Rename, Observe, Processing, Writing, ReviseJob,
         TypeInv, Place
    <3>2. Restful \/ Passes \/ \E s \in Writing \ {"file"} : Goes(s)
      BY <2>13, FileGoes, ProcessGoes DEF Writing
    <3> QED BY <2>1, <2>2, <2>3, <3>1, <3>2, <2>ProcessPlace, Zenon
  <2>14. CASE FinishJob
    BY <2>1, <2>14, ProcessGoes
  <2> QED
    BY <1>ProcessStep, <2>5, <2>6, <2>7, <2>8, <2>9, <2>10, <2>11, <2>12, <2>13, <2>14, Zenon
       DEF Process
<1> USE DEF At
<1>1. CASE Restful
  BY <1>1, <1>RestsAnywhere DEF Restful
<1>2. \A s : Goes(s) => WorkOK' /\ w'.todo \subseteq w.todo \cup ops
  BY DEF Goes
<1>3. ASSUME NEW op, TakesOp(op) PROVE WorkOK' /\ w'.todo \subseteq w.todo \cup ops
  BY <1>3, Zenon DEF TakesOp, Takes
<1>4. ASSUME NEW op \in ops', TakesOp(op) PROVE WorkOK' /\ Place' /\ w'.todo \subseteq w.todo \cup ops
  BY <1>3, <1>4, OpsStep, <1>OpPlace, Zenon
<1>5. CASE Process
  BY <1>5, <1>ProcessStep
<1>6. CASE Operate
  <2>1. CASE StageIndex \/ ReviseMain \/ ReviseDelivered \/ ReviseJob \/ CancelMain \/ CancelDelivered
             \/ CancelRow \/ CancelJob \/ ImportMain \/ ImportDelivered
    <3>1. UNCHANGED ops
      BY <2>1, Zenon DEF StageIndex, ReviseMain, ReviseDelivered, ReviseJob, CancelMain,
         CancelDelivered,
             CancelRow, CancelJob, ImportMain, ImportDelivered
    <3>2. CASE StageIndex
      BY <1>2, <3>1, <3>2, OperateGoes, <1>OperatePlace DEF StageIndex, Indexing
    <3>3. CASE ReviseMain \/ ReviseDelivered \/ ReviseJob
      <4>1. w.at \in Revising /\ (Restful \/ \E s \in Revising : Goes(s))
        BY <3>3, OperateGoes DEF ReviseMain, ReviseDelivered, ReviseJob, Revising
      <4> QED BY <1>1, <1>2, <3>1, <4>1, <1>OperatePlace, Zenon
    <3>4. CASE CancelMain \/ CancelDelivered \/ CancelRow \/ CancelJob
      <4>1. w.at \in Cancelling /\ (Restful \/ \E s \in Cancelling : Goes(s))
        BY <3>4, OperateGoes DEF CancelMain, CancelDelivered, CancelRow, CancelJob, Cancelling
      <4> QED BY <1>1, <1>2, <3>1, <4>1, <1>OperatePlace, Zenon
    <3>5. CASE ImportMain \/ ImportDelivered
      <4>1. w.at \in Importing /\ (Restful \/ \E s \in Importing : Goes(s))
        BY <3>5, OperateGoes, Zenon DEF ImportMain, ImportDelivered, Importing
      <4> QED BY <1>1, <1>2, <3>1, <4>1, <1>OperatePlace, Zenon
    <3> QED BY <2>1, <3>2, <3>3, <3>4, <3>5, Zenon
  <2>2. CASE RecoverNext
    <3>1. CASE \E op \in w.todo : TakesOp(op)
      <4>1. PICK op \in w.todo : TakesOp(op) BY <3>1
      <4>2. op \in ops'
        BY <2>2, <4>1, Zenon DEF RecoverNext, TakesOp, TypeInv, OpsOK
      <4> QED BY <1>4, <4>1, <4>2
    <3> QED BY <1>1, <2>2, <3>1, RecoverGoes, Zenon
  <2> QED BY <1>1, <1>6, <2>1, <2>2, OperateGoes, RecoverGoes, Zenon DEF Operate
<1>7. CASE UNCHANGED <<w, intent, integ, files, ops>>
  <2>1. WorkOK' /\ w'.todo \subseteq w.todo \cup ops
    BY <1>7, Zenon DEF TypeInv, WorkOK
  <2>2. /\ w'.at = w.at /\ w'.job = w.job /\ w'.left = w.left /\ w'.op = w.op /\ w'.todo = w.todo
        /\ \A o : OpOK(o) => OpOK(o)'
    BY <1>7, <1>PlaceKeeps, Zenon
  <2>3. Processing \cap Cancelling = {} /\ Adopting \cup Merging \cup Merged \subseteq Processing
        /\ Writing \subseteq Merged
    BY DEF Processing, Cancelling, Adopting, Merging, Merged, Writing
  <2>4. Place'
    BY <1>7, <2>2, <2>3, <1>PlaceKeeps, ZenonT(30) DEF Place, TypeInv
  <2> QED BY <2>1, <2>4
<1>8. CASE Drain \/ ImportExternal \/ Fault \/ Crash
  BY <1>1, <1>4, <1>8, RecoverGoes, UserGoes, Zenon
<1>9. ASSUME NEW j \in Jobs, Enqueue(j) \/ Decide(j)
      PROVE WorkOK' /\ Place' /\ w'.todo \subseteq w.todo \cup ops
  <2>1. CASE Enqueue(j)
    BY <1>7, <2>1 DEF Enqueue
  <2>2. CASE AuditRefuses(j)
    <3>1. w.at = "idle" /\ UNCHANGED w BY <2>2 DEF AuditRefuses
    <3>2. Restful BY <3>1, Zenon DEF Restful, TypeInv, WorkOK, Place, Resting
    <3> QED BY <1>1, <3>2
  <2>3. CASE Retry(j)
    BY <1>1, <2>3, RecoverGoes, Zenon
  <2> QED BY <1>4, <1>9, <2>1, <2>2, <2>3, UserGoes, Zenon DEF Decide
<1>10. ASSUME NEW p \in Paths, NEW e \in Edits, Edit(p, e)
      PROVE WorkOK' /\ Place' /\ w'.todo \subseteq w.todo \cup ops
  BY <1>7, <1>10, Zenon DEF Edit
<1> QED
  BY <1>5, <1>6, <1>8, <1>9, <1>10, Zenon DEF Next

\* The loop of recover never holds an operation whose row is gone, index decisions aside.
LEMMA TodoStep ==
    ASSUME TypeInv, Next
    PROVE  \A o \in w'.todo : o.kind # "resolve_index" => o \in ops'
<1> USE DEF At
<1>1. WorkOK BY DEF TypeInv
<1>2. \A o \in w.todo : o.kind # "resolve_index" => o \in ops
  BY DEF TypeInv, OpsOK
<1>3. w'.todo \subseteq w.todo \cup ops
  BY PlaceStep
<1>4. CASE \A o \in ops : o.kind # "resolve_index" => o \in ops'
  BY <1>2, <1>3, <1>4
<1>5. CASE ReviseRow \/ FinishCancel \/ ImportRow
  <2>1. EndOp(w.op) /\ ops' = ops \ {w.op}
    BY <1>5 DEF ReviseRow, FinishCancel, ImportRow
  <2>2. w'.todo \subseteq w.todo \ {w.op}
    BY <1>1, <2>1, EndsOp
  <2> QED BY <1>2, <2>1, <2>2
<1>6. CASE RecoverImport
  <2>1. CASE UNCHANGED ops BY <1>4, <2>1
  <2>2. CASE UNCHANGED w
    BY <1>6, <2>2, Zenon DEF RecoverImport, TypeInv, Place
  <2> QED BY <1>6, <2>1, <2>2, Zenon DEF RecoverImport
<1>7. CASE FinishIndex
  BY <1>4, <1>7 DEF FinishIndex
<1>8. CASE RecoverNext
  BY <1>4, <1>8, Zenon DEF RecoverNext
<1>9. \/ ReviseRow \/ FinishCancel \/ ImportRow \/ RecoverImport \/ FinishIndex \/ RecoverNext
      \/ ops \subseteq ops'
  BY OpsMove, ZenonT(30) DEF ImportExternal, ResolveMerge, ResolveWriteback, Cancel
<1> QED BY <1>4, <1>5, <1>6, <1>7, <1>8, <1>9

\* The invariant holds at first,
LEMMA TypeInit == Init => TypeInv
<1> SUFFICES ASSUME Init PROVE TypeInv
  OBVIOUS
<1>1. [p \in Paths |-> {}] \in Trees /\ MarksOf([p \in Paths |-> {}]) = {}
  BY DEF Trees, MarksOf, Marks
<1>2. Root \in Good /\ Root.tree = [p \in Paths |-> {}]
  <2>1. \A m \in MarksOf([p \in Paths |-> {}]) : m[1] \in Edits => m \in made
    BY <1>1
  <2>2. {} \in SUBSET Good /\ None \in Jobs \cup {0, None} OBVIOUS
  <2>3. Commit([p \in Paths |-> {}], {}, None) \in Good
    BY <1>1, <2>1, <2>2, CommitGood, Zenon
  <2> QED BY <2>3, Zenon DEF Root, Commit
<1>3. RefsOK /\ IntegOK /\ OpsOK /\ WorkOK /\ Place
  <2>1. RefsOK BY <1>2, Zenon DEF Init, RefsOK, RootRows
  <2>2. integ \in Integs /\ integ.source = None BY Zenon DEF Init, NoMerge, Integs, Maybe
  <2>3. OpsOK BY Zenon DEF Init, OpsOK, NoWork
  <2>4. WorkOK /\ w.at = "idle" /\ w.todo = {} BY Zenon DEF Init, NoWork, WorkOK, Steps, Resting
  <2>5. Place
    BY <2>4, Zenon DEF Place, Processing, Adopting, Merging, Merged, Writing, Indexing, Revising,
       Cancelling,
       Importing
  <2> QED BY <2>1, <2>2, <2>3, <2>4, <2>5, Zenon DEF IntegOK
<1>4. FolderOK
  BY <1>1, <1>2, Zenon DEF Init, FolderOK, Marks
<1>5. JobsOK
  <2>1. NoJob \in JobRows /\ NoJob.state = "none" /\ NoJob.merged = None
    BY DEF NoJob, JobRows, JobStates, Maybe
  <2>2. job \in [Jobs -> JobRows] /\ \A j \in Jobs : job[j] = NoJob
    BY <2>1 DEF Init
  <2>3. files \in [Jobs -> [Paths -> {None} \cup FileRows]] /\ \A j \in Jobs, p \in Paths : files[j][p] = None
    BY DEF Init, NoFiles
  <2>4. intent \in [Jobs -> {None} \cup IntentRows] /\ pin \in [Jobs -> Maybe]
        /\ \A j \in Jobs : intent[j] = None /\ pin[j] = None
    BY DEF Init, Maybe
  <2>5. \A j \in Jobs : JobOK(j)
    BY <2>1, <2>2, <2>3, <2>4, Zenon DEF JobOK
  <2> QED BY <2>2, <2>3, <2>4, <2>5 DEF JobsOK
<1> QED BY <1>3, <1>4, <1>5 DEF TypeInv

\* every step keeps it,
LEMMA TypeStep ==
    ASSUME TypeInv, Next
    PROVE  TypeInv'
<1>1. RefsOK'
  BY RefsTyped, RowTyped, MadeGrows DEF RefsOK
<1>2. WorkOK' /\ Place' BY PlaceStep
<1>3. OpsOK' BY PlaceStep, OpsStep, TodoStep DEF OpsOK
<1> QED BY <1>1, <1>2, <1>3, FolderStep, JobsStep, IntegStep DEF TypeInv

\* and so does a step that changes nothing.
LEMMA TypeStutter ==
    ASSUME TypeInv, UNCHANGED vars
    PROVE  TypeInv'
<1> USE DEF vars
<1>1. Good' = Good /\ Maybe' = Maybe BY Zenon DEF Good, Maybe
<1>2. \A o : OpOK(o)' = OpOK(o) BY <1>1, Zenon DEF OpOK
<1>3. RefsOK' /\ FolderOK' /\ JobsOK' /\ IntegOK' /\ OpsOK'
  BY <1>1, <1>2, Zenon DEF TypeInv, RefsOK, FolderOK, JobsOK, JobOK, IntegOK, OpsOK, RootRows,
     JobRows,
     IntentRows, Integs
<1>4. WorkOK' BY <1>2, Zenon DEF TypeInv, WorkOK
<1>5. Place' BY <1>2, ZenonT(30) DEF TypeInv, Place
<1> QED BY <1>3, <1>4, <1>5 DEF TypeInv

\* Refs, rows, manifests, operation rows, the index and the position of the worker fit
\* together in every reachable state (process, finishRevision, finishCancellation, recover).
THEOREM TypeCorrect == Spec => []TypeInv
<1>1. TypeInv /\ [Next]_vars => TypeInv'
  BY TypeStep, TypeStutter
<1> QED BY <1>1, TypeInit, PTL DEF Spec

\* Every ref, row and file has a value of its type, and only files of the manifest of a job
\* with a merge commit have a writeback row (manifest, saveFiles).
THEOREM TypesHold == Spec => []TypeOK
<1>1. TypeInv => TypeOK
  <2> SUFFICES ASSUME TypeInv PROVE TypeOK
    OBVIOUS
  <2>1. \A c \in Good : c \in Commits BY Zenon DEF Good
  <2> QED
    BY <2>1, ZenonT(30) DEF TypeInv, RefsOK, RootRows, FolderOK, JobsOK, JobOK, JobRows, Maybe,
       IntegOK, Integs, TypeOK
<1> QED BY <1>1, TypeCorrect, PTL

-----------------------------------------------------------------------------
(* The invariant that keeps what the user wrote. *)

\* What is in a file of one tree and not of the next must have been given up.
Gone == waived \cup swept
Kept(old, new, gone) == \A p \in Paths : \A x \in old[p] : x \in new[p] \/ <<x, p>> \in gone

\* A job starts on the folder after the jobs before it are over or merged.
QueueKeeps ==
    \A i, j \in Jobs : i < j =>
       /\ job[j].state # "none" => job[i].state # "none"
       /\ job[j].external # None => job[i].state \in Ended \/ job[i].merged # None
\* What a job, its pin and its manifest hold: everything of the user's that its external
\* commit has. A queued job has taken nothing yet, and a task's source extends its base.
JobKeeps(j) ==
    /\ job[j].state = "queued" => job[j].external = None
    /\ job[j].state # "none" => \A p \in Paths : job[j].base.tree[p] \subseteq job[j].source.tree[p]
    /\ job[j].merged # None => Kept(job[j].external.tree, job[j].merged.tree, Gone)
    /\ job[j].merged = None /\ pin[j] # None => Kept(job[j].external.tree, pin[j].tree, Gone)
    /\ \A p \in Paths : files[j][p] # None =>
          \A x \in files[j][p].before : x \in files[j][p].after \/ <<x, p>> \in Gone
JobsKeep == \A j \in Jobs : JobKeeps(j)
\* A merge in progress belongs to a job that is not over, and keeps the user's edits.
IntegKeeps ==
    integ.source # None =>
       /\ \E r \in Live : job[r].external # None
       /\ \A j \in Live :
             job[j].external # None /\ job[j].merged = None /\ job[j].source = integ.source =>
                Kept(job[j].external.tree, integ.tree, Gone)
\* A decision on the index is of a conflicted job and what it drops is given up; the
\* commit of a revision keeps the folder it was computed from.
OpKeeps(o) ==
    /\ o.kind = "resolve_index" =>
          /\ job[o.job].merged = None /\ job[o.job].state \in {"conflicted", "cancelled"}
          /\ GivenUp(o.choice, job[o.job].external.tree, job[o.job].source.tree) \subseteq waived
    /\ o.kind = "writeback_revision" => Kept(o.external.tree, o.target.tree, Gone)
OpsKeep == \A o \in ops : OpKeeps(o)
\* The steps of process after the merge commit is checked out.
Cleared == {"manifest", "deliver", "saveDelivered", "finish"} \cup Writing
\* What each position of the worker relies on: process works on the head of the queue,
\* the merge it commits is its job's, and the rename replaces the content it has just
\* checked, up to the edits that raced with it.
Stands ==
    /\ w.at \in Processing => w.job = FifoHead /\ job[w.job].state # "conflicted"
    /\ w.at \in Adopting \cup {"prepare"} => job[w.job].external = None
    /\ w.at \in Merging => job[w.job].merged = None
    /\ w.at = "commit" => integ.source = job[w.job].source
    /\ w.at \in Cleared => integ.source = None
    /\ w.at \in Indexing => w.op \in ops /\ job[w.job].state = "conflicted"
    /\ w.at = "cancelJob" => integ.source = None \/ FifoHead # w.job
    /\ w.at = "rename" =>
          \A x \in user[First(w.left)] :
             x \in files[w.job][First(w.left)].before \/ <<x, First(w.left)>> \in raced

KeepInv == QueueKeeps /\ JobsKeep /\ IntegKeeps /\ OpsKeep /\ Stands /\ EditsStay

\* Nothing that was given up is taken back.
LEMMA GoneGrows ==
    ASSUME Next
    PROVE  Gone \subseteq Gone' /\ waived \subseteq waived'
  BY WaivedGrows, Zenon DEF Gone

\* So what is kept stays kept.
LEMMA KeptGrows ==
    ASSUME Next, NEW old, NEW new, Kept(old, new, Gone)
    PROVE  Kept(old, new, Gone')
  BY GoneGrows, Zenon DEF Kept

\* The least of a set of jobs, by name.
LEMMA HeadOf ==
    ASSUME NEW L \in SUBSET Jobs, NEW h \in L, \A i \in L : h <= i
    PROVE  L # {} /\ First(L) = h
<1>1. L # {} OBVIOUS
<1>2. First(L) \in L /\ First(L) <= h BY <1>1, FirstIs
<1>3. h <= First(L) /\ h \in Int /\ First(L) \in Int BY <1>2, MergeAssumption, Zenon
<1> QED BY <1>1, <1>2, <1>3

\* Where the worker processes a job, the job is the oldest one that is not over.
LEMMA AtWork ==
    ASSUME TypeInv, Stands, w.at \in Processing
    PROVE  /\ w.job \in Jobs /\ w.job \in Live /\ job[w.job].state \notin Ended \cup {"none", "conflicted"}
           /\ \A i \in Live : w.job <= i
<1>1. w.job \in Jobs /\ w.job = FifoHead /\ job[w.job].state # "conflicted"
  BY ZenonT(30) DEF TypeInv, Place, Stands
<1>2. FifoHead # None BY <1>1, MergeAssumption
<1>3. w.job \in Live /\ \A i \in Live : w.job <= i BY <1>1, <1>2, HeadIsLive
<1> QED BY <1>1, <1>3 DEF Live

\* The jobs before the one that is processed are over.
LEMMA OlderOver ==
    ASSUME TypeInv, Stands, QueueKeeps, w.at \in Processing, NEW i \in Jobs, i < w.job
    PROVE  job[i].state \in Ended
<1>1. i \notin Live
  <2>1. w.job \in Int /\ i \in Int BY AtWork, MergeAssumption, Zenon
  <2>2. i \in Live => w.job <= i BY AtWork
  <2> QED BY <2>1, <2>2
<1>2. job[i].state # "none" BY AtWork DEF QueueKeeps
<1> QED BY <1>1, <1>2 DEF Live

\* A job whose state alone is written.
LEMMA StateOnly ==
    ASSUME TypeInv, NEW j \in Jobs, job[j].state # "none", NEW s \in JobStates \ {"none"},
           job' = [job EXCEPT ![j].state = s]
    PROVE  /\ job' \in [Jobs -> JobRows] /\ JobsGrow
           /\ \A i \in Jobs : /\ job'[i].source = job[i].source /\ job'[i].base = job[i].base
                              /\ job'[i].external = job[i].external /\ job'[i].merged = job[i].merged
                              /\ i # j => job'[i] = job[i]
           /\ job'[j].state = s
<1> USE DEF TypeInv, JobsOK
<1>1. job[j] \in JobRows
  OBVIOUS
<1>2. job' = [job EXCEPT ![j] = [job[j] EXCEPT !.state = s]]
  OBVIOUS
<1>3. [job[j] EXCEPT !.state = s] \in JobRows
  BY <1>1, Zenon DEF JobRows
<1> QED
  BY <1>1, <1>2, <1>3 DEF JobsGrow, JobRows

\* What a step may do to a job.
JobStep(i) ==
    /\ job[i].state = "none" /\ job'[i] # job[i] => Enqueue(i) /\ job'[i].state = "queued"
    /\ job[i].state # "none" =>
          job'[i].source = job[i].source /\ job'[i].base = job[i].base /\ job'[i].state # "none"
    /\ job'[i].state = "queued" => job[i].state \in {"none", "queued"}
    /\ job'[i].external # job[i].external =>
          i = w.job /\ ((AdoptExternal /\ job'[i].state = "merging") \/ ReviseJob)
    /\ job'[i].merged # job[i].merged => i = w.job /\ ((Merge /\ job'[i].state = "merging") \/ ReviseJob)
    /\ job'[i].state # job[i].state =>
          \/ i = w.job /\ w.at \in Processing \cup {"staged", "cancelJob", "reviseJob"}
          \/ Enqueue(i)
    /\ i = w.job /\ w.at = "reviseJob" /\ job'[i].state # job[i].state => job'[i].state = "writing"
    /\ i = w.job /\ w.at = "cancelJob" /\ job'[i].state # job[i].state => job'[i].state = "cancelled"
    /\ job[i].state \notin Ended /\ job'[i].state \in Ended => FinishJob \/ CancelJob

\* Every step of the system does one of these to a job.
LEMMA JobsMove ==
    ASSUME TypeInv, Next, NEW i \in Jobs
    PROVE  JobStep(i)
<1>1. CASE UNCHANGED job
  BY <1>1, ZenonT(30) DEF JobStep
<1>2. ASSUME NEW s \in Labels, w.job \in Jobs, job[w.job].state # "none", Relabels(w.job, s),
             w.at \in Processing \cup {"staged"}
      PROVE  JobStep(i)
  <2>1. s \in JobStates \ {"none"} /\ s \notin Ended /\ s # "queued"
    BY <1>2 DEF Labels, JobStates, Ended
  <2>2. /\ job'[i].source = job[i].source /\ job'[i].base = job[i].base
        /\ job'[i].external = job[i].external /\ job'[i].merged = job[i].merged
        /\ i # w.job => job'[i] = job[i]
        /\ job'[w.job].state = s
    <3>1. job' = [job EXCEPT ![w.job].state = s] BY <1>2 DEF Relabels
    <3> QED BY <1>2, <2>1, <3>1, StateOnly, ZenonT(30)
  <2>3. w.at # "reviseJob" /\ w.at # "cancelJob" BY <1>2 DEF Processing
  <2> QED BY <1>2, <2>1, <2>2, <2>3 DEF JobStep
<1>3. ASSUME NEW j \in Jobs, NEW b, Writes(j, b)
      PROVE  job'[j] = b /\ \A k \in Jobs : k # j => job'[k] = job[k]
  BY <1>3, ZenonT(30) DEF Writes, TypeInv, JobsOK
<1>4. CASE AdoptExternal
  <2>1. w.at \in Processing BY <1>4 DEF AdoptExternal, At, Processing
  <2>2. w.job \in Jobs /\ job[w.job].state # "none" /\ job[w.job] \in JobRows
    BY <2>1, Zenon DEF TypeInv, Place, JobsOK
  <2>3. /\ job'[w.job] = [job[w.job] EXCEPT !.state = "merging", !.external = intent[w.job].target]
        /\ i # w.job => job'[i] = job[i]
    BY <1>3, <1>4, AdoptWrites
  <2> QED BY <1>4, <2>1, <2>2, <2>3, ZenonT(30) DEF JobStep, JobRows, Ended, Processing
<1>5. CASE Merge
  <2>1. w.at \in Processing /\ w.at # "reviseJob" /\ w.at # "cancelJob"
    BY <1>5, Zenon DEF Merge, At, Processing
  <2>2. w.job \in Jobs /\ job[w.job].state # "none" /\ job[w.job] \in JobRows
    BY <2>1, ZenonT(30) DEF TypeInv, Place, JobsOK
  <2>3. CASE UNCHANGED job BY <2>3 DEF JobStep
  <2>4. CASE Relabels(w.job, "recovering") BY <1>2, <2>1, <2>2, <2>4 DEF Labels
  <2>5. ASSUME NEW c \in Good,
               job' = [job EXCEPT ![w.job] = [job[w.job] EXCEPT !.state = "merging", !.merged = c]]
        PROVE  JobStep(i)
    <3>1. /\ job'[w.job] = [job[w.job] EXCEPT !.state = "merging", !.merged = c]
          /\ i # w.job => job'[i] = job[i]
      BY <2>2, <2>5, Zenon DEF TypeInv, JobsOK
    <3> QED BY <1>5, <2>1, <2>2, <3>1, ZenonT(30) DEF JobStep, JobRows, Ended
  <2> QED BY <1>5, <2>3, <2>4, <2>5, MergeWrites, Zenon
<1>6. CASE FinishJob
  <2>1. w.at \in Processing /\ w.at # "reviseJob" /\ w.at # "cancelJob"
    BY <1>6 DEF FinishJob, At, Processing
  <2>2. w.job \in Jobs /\ job[w.job].state # "none" BY <2>1, ZenonT(30) DEF TypeInv, Place
  <2>3. /\ job'[i].source = job[i].source /\ job'[i].base = job[i].base
        /\ job'[i].external = job[i].external /\ job'[i].merged = job[i].merged
        /\ i # w.job => job'[i] = job[i]
        /\ job'[w.job].state = "delivered"
    <3>1. job' = [job EXCEPT ![w.job].state = "delivered"] BY <1>6 DEF FinishJob
    <3>2. "delivered" \in JobStates \ {"none"} BY DEF JobStates, Ended
    <3> QED BY <2>2, <3>1, <3>2, StateOnly, ZenonT(30)
  <2> QED BY <1>6, <2>1, <2>2, <2>3, ZenonT(30) DEF JobStep
<1>7. CASE CancelJob
  <2>1. w.at = "cancelJob" BY <1>7 DEF CancelJob, At
  <2>2. w.job \in Jobs /\ job[w.job].state # "none"
    BY <2>1, OpFields, Zenon DEF TypeInv, Place, Cancelling, OpOK
  <2>3. /\ job'[i].source = job[i].source /\ job'[i].base = job[i].base
        /\ job'[i].external = job[i].external /\ job'[i].merged = job[i].merged
        /\ i # w.job => job'[i] = job[i]
        /\ job'[w.job].state = "cancelled"
    <3>1. job' = [job EXCEPT ![w.job].state = "cancelled"] BY <1>7 DEF CancelJob
    <3>2. "cancelled" \in JobStates \ {"none"} BY DEF JobStates, Ended
    <3> QED BY <2>2, <3>1, <3>2, StateOnly, ZenonT(30)
  <2> QED BY <1>7, <2>1, <2>2, <2>3 DEF JobStep
<1>8. CASE ReviseJob
  <2>1. w.at = "reviseJob" BY <1>8 DEF ReviseJob, At
  <2>2. w.job \in Jobs /\ job[w.job] \in JobRows BY <1>8, ReviseWrites DEF TypeInv, JobsOK
  <2>3. job[w.job].state # "none"
    BY <2>1, OpFields, Zenon DEF TypeInv, Place, Revising, OpOK
  <2>4. CASE UNCHANGED job BY <2>4 DEF JobStep
  <2>5. CASE Writes(w.job, [job[w.job] EXCEPT !.state = "writing", !.external = w.op.external,
                                              !.merged = w.op.target])
    <3>1. /\ job'[w.job] = [job[w.job] EXCEPT !.state = "writing", !.external = w.op.external,
                                              !.merged = w.op.target]
          /\ i # w.job => job'[i] = job[i]
      BY <1>3, <2>2, <2>5
    <3>2. /\ job'[w.job].state = "writing"
          /\ job'[w.job].source = job[w.job].source /\ job'[w.job].base = job[w.job].base
      BY <2>2, <3>1 DEF JobRows
    <3> QED BY <1>8, <2>1, <2>3, <3>1, <3>2, Zenon DEF JobStep, Ended
  <2> QED BY <1>8, <2>4, <2>5, ReviseWrites
<1>9. ASSUME NEW j \in Jobs, Enqueue(j) PROVE JobStep(i)
  <2>1. job[j].state = "none" /\ job[j] \in JobRows BY <1>9 DEF Enqueue, TypeInv, JobsOK
  <2>2. PICK source \in Good : job' = [job EXCEPT ![j] = [job[j] EXCEPT !.state = "queued",
                                                  !.base = delivered, !.source = source]]
    BY <1>9, EnqueueWrites, Zenon
  <2>3. /\ job'[j] = [job[j] EXCEPT !.state = "queued", !.base = delivered, !.source = source]
        /\ i # j => job'[i] = job[i]
    BY <2>2 DEF TypeInv, JobsOK
  <2>4. /\ job'[j].state = "queued"
        /\ job'[j].external = job[j].external /\ job'[j].merged = job[j].merged
    BY <2>1, <2>3 DEF JobRows
  <2>7. w.at \in {"reviseJob", "cancelJob"} => job[w.job].state # "none"
    BY OpFields, Zenon DEF TypeInv, Place, Revising, Cancelling, OpOK
  <2>5. CASE i = j BY <1>9, <2>1, <2>4, <2>5, <2>7, Zenon DEF JobStep, Ended
  <2>6. CASE i # j BY <2>3, <2>6 DEF JobStep
  <2> QED BY <2>5, <2>6
<1> QED BY <1>1, <1>2, <1>4, <1>5, <1>6, <1>7, <1>8, <1>9, JobEffects

\* A job that is over stays so, unless a revision of its writeback takes it up again.
LEMMA OverStays ==
    ASSUME TypeInv, Stands, Next, NEW i \in Jobs, job[i].state \in Ended
    PROVE  job'[i].state \in Ended \/ (job[i].merged # None /\ i = w.job /\ w.at = "reviseJob")
<1>1. JobStep(i) BY JobsMove
<1>2. job[i].state # "none" /\ job[i].state # "conflicted" BY DEF Ended
<1>3. ~(i = w.job /\ w.at \in Processing) BY AtWork
<1>4. ~(i = w.job /\ w.at = "staged") BY <1>2 DEF Stands, Indexing
<1>5. ~Enqueue(i) BY <1>2 DEF Enqueue
<1>6. i = w.job /\ w.at = "reviseJob" => job[i].merged # None
  BY OpFields, Zenon DEF TypeInv, Place, Revising, OpOK
<1>7. job'[i].state # job[i].state => i = w.job /\ w.at \in {"cancelJob", "reviseJob"}
  BY <1>1, <1>3, <1>4, <1>5, ZenonT(30) DEF JobStep
<1>8. i = w.job /\ w.at = "cancelJob" /\ job'[i].state # job[i].state => job'[i].state \in Ended
  BY <1>1, ZenonT(30) DEF JobStep, Ended
<1> QED BY <1>6, <1>7, <1>8

\* The job of a revision has its commits.
LEMMA ReviseKnown ==
    ASSUME TypeInv, w.at \in Revising
    PROVE  w.job \in Jobs /\ job[w.job].merged # None /\ job[w.job].external # None /\ w.job = w.op.job
<1>1. w.job \in Jobs /\ job[w.job].merged # None /\ w.job = w.op.job
  BY OpFields, Zenon DEF TypeInv, Place, OpOK
<1> QED BY <1>1, ZenonT(30) DEF TypeInv, JobsOK, JobOK

\* The order of the queue: a new job is the next one, and a job takes the user's edits
\* only as the head.
LEMMA QueueStep ==
    ASSUME TypeInv, Stands, QueueKeeps, Next
    PROVE  QueueKeeps'
<1> SUFFICES ASSUME NEW i \in Jobs, NEW j \in Jobs, i < j
             PROVE  /\ job'[j].state # "none" => job'[i].state # "none"
                    /\ job'[j].external # None => job'[i].state \in Ended \/ job'[i].merged # None
  BY DEF QueueKeeps
<1>2. JobStep(i) /\ JobStep(j) BY JobsMove
<1>3. i # j BY MergeAssumption
<1>4. ASSUME job'[j].state # "none" PROVE job'[i].state # "none"
  <2>1. CASE job[j].state # "none"
    BY <1>2, <2>1, Zenon DEF QueueKeeps, JobStep
  <2>2. CASE job[j].state = "none"
    <3>1. Enqueue(j) BY <1>2, <1>4, <2>2, ZenonT(30) DEF JobStep
    <3>2. job[i].state # "none" BY <3>1 DEF Enqueue
    <3> QED BY <1>2, <3>2, ZenonT(30) DEF JobStep
  <2> QED BY <2>1, <2>2
<1>5. ASSUME job'[j].external # None PROVE job'[i].state \in Ended \/ job'[i].merged # None
  <2>1. job[i].merged # None => job'[i].merged # None
    BY JobsGrown DEF JobsGrow
  <2>2. CASE job[j].external # None
    <3>1. job[i].state \in Ended \/ job[i].merged # None BY <2>2 DEF QueueKeeps
    <3> QED BY <2>1, <3>1, OverStays
  <2>3. CASE job[j].external = None
    <3>1. j = w.job /\ (AdoptExternal \/ ReviseJob) BY <1>2, <1>5, <2>3, Zenon DEF JobStep
    <3>2. ~ReviseJob BY <2>3, <3>1, ReviseKnown DEF ReviseJob, At, Revising
    <3>3. w.at = "adoptExternal" BY <3>1, <3>2 DEF AdoptExternal, At
    <3>4. job[i].state \in Ended BY <3>1, <3>3, OlderOver DEF Processing
    <3> QED BY <2>1, <3>4, OverStays
  <2> QED BY <2>2, <2>3
<1> QED BY <1>4, <1>5, ZenonT(30)

\* Where a row of the manifest comes from.
RowStep(j, p) ==
    \/ /\ files[j][p] # None
       /\ files'[j][p].before = files[j][p].before /\ files'[j][p].after = files[j][p].after
    \/ /\ files[j][p] = None /\ StartWriting /\ j = w.job
       /\ files'[j][p] = [before |-> job[j].external.tree[p], after |-> job[j].merged.tree[p],
                          state |-> "pending"]
    \/ /\ files[j][p] = None /\ ReviseRow /\ j = w.job
       /\ files'[j][p] = [before |-> w.op.external.tree[p], after |-> w.op.target.tree[p],
                          state |-> "pending"]

\* A row is the one of the manifest, of a revision, or it was there.
LEMMA RowsMove ==
    ASSUME TypeInv, Next, NEW j \in Jobs, NEW p \in Paths, files'[j][p] # None
    PROVE  RowStep(j, p)
<1>1. CASE UNCHANGED files BY <1>1 DEF RowStep
<1>2. files \in [Jobs -> [Paths -> {None} \cup FileRows]] BY DEF TypeInv, JobsOK
<1>3. \A i \in Jobs : RowsOK(files[i]) BY RowsTyped
<1>4. ASSUME NEW i \in Jobs, NEW q \in Paths, NEW s \in FileStates, Marked(i, q, s)
      PROVE  RowStep(j, p)
  <2>1. files'[j][p] = IF i = j /\ p = q THEN [files[j][p] EXCEPT !.state = s] ELSE files[j][p]
    BY <1>2, <1>4 DEF Marked
  <2>2. CASE i = j /\ p = q
    <3>1. files[j][p] # None BY <1>4, <2>2 DEF Marked
    <3>2. /\ [files[j][p] EXCEPT !.state = s].before = files[j][p].before
          /\ [files[j][p] EXCEPT !.state = s].after = files[j][p].after
      BY <1>3, <3>1, RowState, SMTT(30) DEF FileStates
    <3> QED BY <2>1, <2>2, <3>1, <3>2 DEF RowStep
  <2>3. CASE ~(i = j /\ p = q) BY <2>1, <2>3 DEF RowStep
  <2> QED BY <2>2, <2>3
<1>5. CASE StartWriting
  <2>1. w.at = "manifest" /\ files' = [files EXCEPT ![w.job] =
                                Manifest(files[w.job], job[w.job].external, job[w.job].merged)]
    BY <1>5 DEF StartWriting, At
  <2>2. w.job \in Jobs /\ job[w.job].merged # None
    BY <2>1, Zenon DEF TypeInv, Place, Merged, Processing
  <2>3. job[w.job].external \in Good /\ job[w.job].merged \in Good
    BY <2>2, Zenon DEF TypeInv, JobsOK, JobOK, JobRows, Maybe
  <2>4. CASE j # w.job
    <3>1. files'[j] = files[j] BY <1>2, <2>1, <2>4
    <3> QED BY <3>1, ZenonT(30) DEF RowStep
  <2>5. CASE j = w.job
    <3>1. files'[j] = Manifest(files[j], job[j].external, job[j].merged) BY <1>2, <2>1, <2>2, <2>5
    <3>2. CASE files[j][p] # None
      <4>1. files'[j][p] = IF files[j][p] # None \/ job[j].external.tree[p] = job[j].merged.tree[p]
                           THEN files[j][p]
                           ELSE [before |-> job[j].external.tree[p], after |-> job[j].merged.tree[p],
                                 state |-> "pending"]
        BY <3>1, Zenon DEF Manifest
      <4>2. files'[j][p] = files[j][p] BY <3>2, <4>1, Zenon
      <4> QED BY <3>2, <4>2, Zenon DEF RowStep
    <3>3. CASE files[j][p] = None
      <4>0. files'[j][p] = IF files[j][p] # None \/ job[j].external.tree[p] = job[j].merged.tree[p]
                           THEN files[j][p]
                           ELSE [before |-> job[j].external.tree[p], after |-> job[j].merged.tree[p],
                                 state |-> "pending"]
        BY <3>1, Zenon DEF Manifest
      <4>1. files'[j][p] = [before |-> job[j].external.tree[p], after |-> job[j].merged.tree[p],
                            state |-> "pending"]
        BY <3>3, <4>0, Zenon
      <4> QED BY <1>5, <2>5, <3>3, <4>1, Zenon DEF RowStep
    <3> QED BY <3>2, <3>3
  <2> QED BY <2>4, <2>5
<1>6. CASE ReviseRow
  <2>1. w.at = "reviseRow" /\ files' = [files EXCEPT ![w.job] =
                                Manifest(files[w.job], w.op.external, w.op.target)]
    BY <1>6 DEF ReviseRow, At
  <2>2. w.job \in Jobs BY <2>1, ReviseKnown DEF Revising
  <2>3. w.op.external \in Good /\ w.op.target \in Good BY <2>1, OpFields, Zenon DEF OpOK, Revising
  <2>4. CASE j # w.job
    <3>1. files'[j] = files[j] BY <1>2, <2>1, <2>4
    <3> QED BY <3>1, Zenon DEF RowStep
  <2>5. CASE j = w.job
    <3>1. files'[j] = Manifest(files[j], w.op.external, w.op.target) BY <1>2, <2>1, <2>2, <2>5
    <3>2. CASE files[j][p] # None
      <4>1. files'[j][p] = IF files[j][p] # None \/ w.op.external.tree[p] = w.op.target.tree[p]
                           THEN files[j][p]
                           ELSE [before |-> w.op.external.tree[p], after |-> w.op.target.tree[p],
                                 state |-> "pending"]
        BY <3>1, Zenon DEF Manifest
      <4>2. files'[j][p] = files[j][p] BY <3>2, <4>1, Zenon
      <4> QED BY <3>2, <4>2, Zenon DEF RowStep
    <3>3. CASE files[j][p] = None
      <4>0. files'[j][p] = IF files[j][p] # None \/ w.op.external.tree[p] = w.op.target.tree[p]
                           THEN files[j][p]
                           ELSE [before |-> w.op.external.tree[p], after |-> w.op.target.tree[p],
                                 state |-> "pending"]
        BY <3>1, Zenon DEF Manifest
      <4>1. files'[j][p] = [before |-> w.op.external.tree[p], after |-> w.op.target.tree[p],
                            state |-> "pending"]
        BY <3>3, <4>0, Zenon
      <4> QED BY <1>6, <2>5, <3>3, <4>1, Zenon DEF RowStep
    <3> QED BY <3>2, <3>3
  <2> QED BY <2>4, <2>5, ZenonT(30)
<1>7. CASE ReviseJob
  <2>1. UNCHANGED files \/ (w.job \in Jobs /\ files' = [files EXCEPT ![w.job] = NoFiles])
    BY <1>7, ReviseWrites
  <2>2. ASSUME w.job \in Jobs, files' = [files EXCEPT ![w.job] = NoFiles] PROVE files'[j] = files[j]
    BY <1>2, <2>2 DEF NoFiles
  <2> QED BY <1>1, <2>1, <2>2, Zenon DEF RowStep
<1>8. ASSUME NEW i \in Jobs, AuditRefuses(i) PROVE RowStep(j, p)
  <2>1. files' = [files EXCEPT ![i] = [q \in Paths |->
                    IF q \in Reedited(i) THEN [files[i][q] EXCEPT !.state = "conflicted"] ELSE files[i][q]]]
    BY <1>8 DEF AuditRefuses
  <2>2. CASE ~(i = j /\ p \in Reedited(i))
    <3>1. files'[j][p] = files[j][p] BY <1>2, <2>1, <2>2
    <3> QED BY <3>1, Zenon DEF RowStep
  <2>3. CASE i = j /\ p \in Reedited(i)
    <3>1. files'[j][p] = [files[j][p] EXCEPT !.state = "conflicted"] BY <1>2, <2>1, <2>3
    <3>2. files[j][p] # None BY <2>3 DEF Reedited
    <3>3. /\ [files[j][p] EXCEPT !.state = "conflicted"].before = files[j][p].before
          /\ [files[j][p] EXCEPT !.state = "conflicted"].after = files[j][p].after
      BY <1>3, <3>2, RowState
    <3> QED BY <3>1, <3>2, <3>3 DEF RowStep
  <2> QED BY <2>2, <2>3
<1>9. ASSUME ApplyFile \/ Recheck \/ Observe \/ Verify
      PROVE  UNCHANGED files \/ \E i \in Jobs, q \in Paths, s \in FileStates : Marked(i, q, s)
  <2>1. "conflicted" \in FileStates BY DEF FileStates
  <2>2. ASSUME NEW i, NEW q, NEW s, Marked(i, q, s) PROVE i \in Jobs /\ q \in Paths /\ s \in FileStates
    BY <2>2 DEF Marked
  <2> QED BY <1>9, <2>1, <2>2, FileActions
<1> QED BY <1>1, <1>4, <1>5, <1>6, <1>7, <1>8, <1>9, FilesMove

\* The commits of a job are written by different steps of the worker.
LEMMA Adopts ==
    ASSUME TypeInv, Stands, Next, AdoptExternal
    PROVE  /\ w.job \in Jobs /\ job[w.job].external = None /\ pin[w.job] = None /\ pin' = pin
           /\ job[w.job].merged = None /\ ~Merge /\ ~ReviseJob
<1>1. w.at = "adoptExternal" BY DEF AdoptExternal, At
<1>2. w.job \in Jobs /\ job[w.job].external = None
  BY <1>1, Zenon DEF TypeInv, Place, Stands, Adopting, Processing
<1>3. pin[w.job] = None /\ job[w.job].merged = None BY <1>2, Zenon DEF TypeInv, JobsOK, JobOK
<1>4. pin' = pin BY DEF AdoptExternal
<1>5. ~Merge /\ ~ReviseJob BY <1>1 DEF Merge, ReviseJob, At
<1> QED BY <1>2, <1>3, <1>4, <1>5

\* A revision puts both of its commits in the job, or leaves the job alone.
LEMMA Revises ==
    ASSUME TypeInv, OpsKeep, Next, ReviseJob
    PROVE  /\ w.job \in Jobs /\ job[w.job].merged # None /\ job[w.job].external # None
           /\ Kept(w.op.external.tree, w.op.target.tree, Gone)
           /\ \/ UNCHANGED job
              \/ job'[w.job].external = w.op.external /\ job'[w.job].merged = w.op.target
<1>1. w.at = "reviseJob" /\ w.at \in Revising BY DEF ReviseJob, At, Revising
<1>2. w.job \in Jobs /\ job[w.job].merged # None /\ job[w.job].external # None
  BY <1>1, ReviseKnown
<1>3. w.op \in ops /\ w.op.kind = "writeback_revision" BY <1>1, Zenon DEF TypeInv, Place
<1>4. Kept(w.op.external.tree, w.op.target.tree, Gone) BY <1>3 DEF OpsKeep, OpKeeps
<1>5. ASSUME Writes(w.job, [job[w.job] EXCEPT !.state = "writing", !.external = w.op.external,
                                              !.merged = w.op.target])
      PROVE  job'[w.job].external = w.op.external /\ job'[w.job].merged = w.op.target
  BY <1>2, <1>5 DEF Writes, TypeInv, JobsOK, JobRows
<1> QED BY <1>2, <1>4, <1>5, ReviseWrites

\* The merge step takes the pin or, if the source is merged already, the external commit.
LEMMA Merges ==
    ASSUME TypeInv, Stands, JobsKeep, Next, Merge
    PROVE  /\ w.job \in Jobs /\ job[w.job].merged = None /\ ~AdoptExternal /\ ~ReviseJob
           /\ \/ job'[w.job].merged = None
              \/ Kept(job[w.job].external.tree, job'[w.job].merged.tree, Gone)
<1>1. w.at = "merge" BY Zenon DEF Merge, At
<1>2. w.job \in Jobs /\ job[w.job].merged = None
  BY <1>1, Zenon DEF TypeInv, Place, Stands, Merging, Processing
<1>3. ~AdoptExternal /\ ~ReviseJob BY <1>1 DEF AdoptExternal, ReviseJob, At
<1>4. CASE UNCHANGED job BY <1>2, <1>3, <1>4, Zenon
<1>5. CASE Relabels(w.job, "recovering")
  <2>1. job'[w.job].merged = None BY <1>2, <1>5 DEF Relabels, TypeInv, JobsOK, JobRows
  <2> QED BY <1>2, <1>3, <2>1
<1>6. ASSUME NEW c \in Good,
             job' = [job EXCEPT ![w.job] = [job[w.job] EXCEPT !.state = "merging", !.merged = c]],
             c = IF pin[w.job] # None THEN pin[w.job] ELSE job[w.job].external
      PROVE  Kept(job[w.job].external.tree, job'[w.job].merged.tree, Gone)
  <2>1. job'[w.job].merged = c BY <1>2, <1>6 DEF TypeInv, JobsOK, JobRows
  <2>2. CASE pin[w.job] # None
    BY <1>2, <1>6, <2>1, <2>2 DEF JobsKeep, JobKeeps
  <2>3. CASE pin[w.job] = None
    <3>1. Kept(job[w.job].external.tree, job[w.job].external.tree, Gone) BY DEF Kept
    <3> QED BY <1>6, <2>1, <2>3, <3>1
  <2> QED BY <2>2, <2>3
<1> QED BY <1>2, <1>3, <1>4, <1>5, <1>6, MergeWrites, Zenon

\* Jobs, pins and manifests keep the user's edits in every step.
LEMMA JobsKeepStep ==
    ASSUME TypeInv, JobsKeep, IntegKeeps, OpsKeep, Stands, Next
    PROVE  JobsKeep'
<1> SUFFICES ASSUME NEW j \in Jobs
             PROVE  JobKeeps(j)'
  BY DEF JobsKeep
<1>1. JobStep(j) /\ JobKeeps(j) BY JobsMove DEF JobsKeep
<1>2. job[j].merged # None => job'[j].merged # None BY JobsGrown DEF JobsGrow
<1>3. job[j].state = "none" => job[j].external = None /\ job[j].merged = None /\ job[j].state # "queued"
  <2>1. job[j].state = "none" => job[j] = NoJob BY Zenon DEF TypeInv, JobsOK, JobOK
  <2> QED BY <2>1, NoJobFields, Zenon
<1>4. ASSUME job'[j].state = "queued" PROVE job'[j].external = None
  <2>1. job[j].external = None
    BY <1>1, <1>3, <1>4, Zenon DEF JobStep, JobKeeps
  <2>2. ASSUME job'[j].external # None PROVE j = w.job /\ ReviseJob
    <3>1. j = w.job /\ ((AdoptExternal /\ job'[j].state = "merging") \/ ReviseJob)
      BY <1>1, <2>1, <2>2, Zenon DEF JobStep
    <3>2. job'[j].state # "merging" BY <1>4
    <3> QED BY <3>1, <3>2
  <2> QED BY <2>1, <2>2, Revises, Zenon
<1>5. ASSUME job'[j].state # "none", NEW p \in Paths
      PROVE  job'[j].base.tree[p] \subseteq job'[j].source.tree[p]
  <2>1. CASE job[j].state # "none" BY <1>1, <2>1, Zenon DEF JobStep, JobKeeps
  <2>2. CASE job[j].state = "none"
    <3>1. Enqueue(j) BY <1>1, <1>5, <2>2, Zenon DEF JobStep
    <3>2. PICK source \in Good :
              /\ job' = [job EXCEPT ![j] = [job[j] EXCEPT !.state = "queued", !.base = delivered,
                                                          !.source = source]]
              /\ \/ source = delivered
                 \/ source.tree[p] = IF p \in Changes[j] THEN delivered.tree[p] \cup {j}
                                     ELSE delivered.tree[p]
      BY <3>1, EnqueueWrites, Zenon
    <3>3. job'[j].base = delivered /\ job'[j].source = source
      BY <3>2 DEF TypeInv, JobsOK, JobRows
    <3> QED BY <3>2, <3>3
  <2> QED BY <2>1, <2>2, Zenon
<1>6. ASSUME job'[j].merged # None PROVE Kept(job'[j].external.tree, job'[j].merged.tree, Gone')
  <2>1. CASE j = w.job /\ ReviseJob /\ ~UNCHANGED job
    <3>1. Kept(w.op.external.tree, w.op.target.tree, Gone') BY <2>1, Revises, KeptGrows
    <3> QED BY <2>1, <3>1, Revises, ZenonT(30)
  <2>2. CASE j = w.job /\ Merge /\ ~UNCHANGED job
    <3>1. job'[j].external = job[j].external BY <1>1, <2>2, Merges, Zenon DEF JobStep
    <3>2. Kept(job[j].external.tree, job'[j].merged.tree, Gone) BY <1>6, <2>2, Merges, Zenon
    <3> QED BY <3>1, <3>2, KeptGrows, ZenonT(30)
  <2>3. CASE j = w.job /\ AdoptExternal
    BY <1>1, <1>6, <2>3, Adopts, Zenon DEF JobStep
  <2>4. CASE UNCHANGED job \/ ~(j = w.job /\ (ReviseJob \/ Merge \/ AdoptExternal))
    <3>1. job'[j].external = job[j].external /\ job'[j].merged = job[j].merged
      BY <1>1, <2>4, Zenon DEF JobStep
    <3>2. Kept(job[j].external.tree, job[j].merged.tree, Gone)
      BY <1>1, <1>6, <3>1, Zenon DEF JobKeeps
    <3> QED BY <3>1, <3>2, KeptGrows, Zenon
  <2> QED BY <2>1, <2>2, <2>3, <2>4, Zenon
<1>7. ASSUME job'[j].merged = None, pin'[j] # None
      PROVE  Kept(job'[j].external.tree, pin'[j].tree, Gone')
  <2>0. job[j].merged = None BY <1>2, <1>7
  <2>1. ~(j = w.job /\ ReviseJob) BY <2>0, Revises
  <2>2. ~(j = w.job /\ AdoptExternal) BY <1>7, Adopts, Zenon
  <2>3. job'[j].external = job[j].external BY <1>1, <2>1, <2>2, Zenon DEF JobStep
  <2>4. CASE pin'[j] = pin[j]
    <3>1. Kept(job[j].external.tree, pin[j].tree, Gone)
      BY <1>1, <1>7, <2>0, <2>4, Zenon DEF JobKeeps
    <3> QED BY <2>3, <2>4, <3>1, KeptGrows
  <2>5. CASE pin'[j] # pin[j]
    <3>1. j = w.job /\ job[j].external # None BY <2>5, PinsStep, Zenon
    <3>2. ~Prepare BY <2>5 DEF Prepare
    <3>3. ~Merge
      <4>1. SUFFICES ASSUME Merge PROVE FALSE OBVIOUS
      <4>2. job' = [job EXCEPT ![w.job].state = "merging", ![w.job].merged = job[w.job].external]
        BY <2>5, <4>1, Zenon DEF Merge
      <4>3. job'[j].merged = job[j].external BY <3>1, <4>2 DEF TypeInv, JobsOK, JobRows
      <4> QED BY <1>7, <3>1, <4>3
    <3>4. CommitMerge BY <2>5, <3>2, <3>3, PinMoves
    <3>5. /\ w.at = "commit"
          /\ pin' = [pin EXCEPT ![w.job] =
                       Commit(integ.tree, {job[w.job].external, job[w.job].source}, w.job)]
      BY <2>5, <3>4 DEF CommitMerge, At
    <3>6. pin'[j].tree = integ.tree
      <4>1. pin'[j] = Commit(integ.tree, {job[w.job].external, job[w.job].source}, w.job)
        BY <3>1, <3>5, Zenon DEF TypeInv, JobsOK
      <4> QED BY <4>1, CommitFields
    <3>7. integ.source # None /\ integ.source = job[w.job].source
      BY <3>5, Zenon DEF TypeInv, Place, Stands
    <3>8. w.job \in Live BY <3>5, AtWork, ZenonT(30) DEF Processing
    <3>9. Kept(job[j].external.tree, integ.tree, Gone)
      BY <2>0, <3>1, <3>7, <3>8, Zenon DEF IntegKeeps
    <3> QED BY <2>3, <3>6, <3>9, KeptGrows
  <2> QED BY <2>4, <2>5
<1>8. ASSUME NEW p \in Paths, files'[j][p] # None, NEW x \in files'[j][p].before
      PROVE  x \in files'[j][p].after \/ <<x, p>> \in Gone'
  <2>0. RowStep(j, p) BY <1>8, RowsMove, ZenonT(30)
  <2>1. CASE /\ files[j][p] # None
             /\ files'[j][p].before = files[j][p].before /\ files'[j][p].after = files[j][p].after
    BY <1>1, <1>8, <2>1, GoneGrows, Zenon DEF JobKeeps
  <2>2. CASE /\ StartWriting /\ j = w.job
             /\ files'[j][p] = [before |-> job[j].external.tree[p], after |-> job[j].merged.tree[p],
                                state |-> "pending"]
    <3>1. job[j].merged # None BY <2>2, Zenon DEF StartWriting, At, TypeInv, Place, Merged
    <3>2. Kept(job[j].external.tree, job[j].merged.tree, Gone) BY <1>1, <3>1, Zenon DEF JobKeeps
    <3>3. files'[j][p].before = job[j].external.tree[p] /\ files'[j][p].after = job[j].merged.tree[p]
      <4>1. files'[j][p] = NewRow(job[j].external.tree[p], job[j].merged.tree[p])
        BY <2>2, Zenon DEF NewRow
      <4> QED BY <4>1, NewRowFields
    <3> QED BY <1>8, <3>2, <3>3, GoneGrows, Zenon DEF Kept
  <2>3. CASE /\ ReviseRow /\ j = w.job
             /\ files'[j][p] = [before |-> w.op.external.tree[p], after |-> w.op.target.tree[p],
                                state |-> "pending"]
    <3>1. w.op \in ops /\ w.op.kind = "writeback_revision"
      BY <2>3, Zenon DEF ReviseRow, At, TypeInv, Place, Revising
    <3>2. Kept(w.op.external.tree, w.op.target.tree, Gone) BY <3>1, Zenon DEF OpsKeep, OpKeeps
    <3>3. files'[j][p].before = w.op.external.tree[p] /\ files'[j][p].after = w.op.target.tree[p]
      <4>1. files'[j][p] = NewRow(w.op.external.tree[p], w.op.target.tree[p])
        BY <2>3, Zenon DEF NewRow
      <4> QED BY <4>1, NewRowFields
    <3> QED BY <1>8, <3>2, <3>3, GoneGrows, Zenon DEF Kept
  <2> QED BY <2>0, <2>1, <2>2, <2>3, Zenon DEF RowStep
<1> QED BY <1>4, <1>5, <1>6, <1>7, <1>8, Zenon DEF JobKeeps

\* What a choice does not take is given up.
LEMMA GivenUpHas ==
    ASSUME NEW choice, NEW ours \in Trees, NEW theirs \in Trees, NEW p \in Paths,
           p \in DOMAIN choice, NEW x \in ours[p] \cup theirs[p],
           x \notin Chosen(choice[p], ours[p], theirs[p])
    PROVE  <<x, p>> \in GivenUp(choice, ours, theirs)
<1>1. x \in Jobs \cup Edits BY DEF Trees
<1>2. <<x, p>> \in Marks /\ <<x, p>>[1] = x /\ <<x, p>>[2] = p BY <1>1 DEF Marks
<1> QED BY <1>2, Zenon DEF GivenUp

\* What becomes of the integration worktree.
IntegStepOf ==
    \/ integ' = integ
    \/ integ'.source = None
    \/ /\ Merge /\ job' = job /\ integ.source = None /\ integ'.source = job[w.job].source
       /\ \A p \in Paths : integ'.tree[p] = Clean(job[w.job].base.tree[p], job[w.job].external.tree[p],
                                                  job[w.job].source.tree[p])
    \/ /\ StageIndex /\ integ.source # None /\ integ'.source = integ.source
       /\ \A p \in Paths : integ'.tree[p] =
             IF p \notin DOMAIN w.op.choice THEN integ.tree[p]
             ELSE Chosen(w.op.choice[p], job[w.job].external.tree[p], job[w.job].source.tree[p])

\* Every step does one of these to the integration worktree.
LEMMA IntegMovesTo ==
    ASSUME TypeInv, Next
    PROVE  IntegStepOf
<1>1. ASSUME integ' = NoMerge PROVE IntegStepOf BY <1>1, Zenon DEF NoMerge, IntegStepOf
<1>2. CASE Merge
  <2>1. CASE integ' = integ BY <2>1, ZenonT(30) DEF IntegStepOf
  <2>2. CASE integ' # integ
    <3> DEFINE t == [p \in Paths |-> Clean(job[w.job].base.tree[p], job[w.job].external.tree[p],
                                           job[w.job].source.tree[p])]
               c == job[w.job].source
    <3>1. integ.source = None /\ job' = job /\ \E clash : integ' = Begun(c, clash, t)
      BY <1>2, <2>2, Zenon DEF Merge, Begun
    <3>2. integ'.source = c /\ integ'.tree = t
      <4> HIDE DEF t, c
      <4>1. PICK clash : integ' = Begun(c, clash, t) BY <3>1, Zenon
      <4> QED BY <4>1, BegunFields
    <3> QED BY <1>2, <3>1, <3>2, Zenon DEF IntegStepOf
  <2> QED BY <2>1, <2>2
<1>3. CASE StageIndex
  <2>1. CASE integ.source = None
    <3>1. integ' = integ BY <1>3, <2>1 DEF StageIndex
    <3> QED BY <3>1, Zenon DEF IntegStepOf
  <2>2. CASE integ.source # None
    <3>1. integ \in Integs BY DEF TypeInv, IntegOK
    <3>2. integ' = [integ EXCEPT
          !.tree = [p \in Paths |->
                       IF p \notin DOMAIN w.op.choice THEN integ.tree[p]
                       ELSE Chosen(w.op.choice[p], job[w.job].external.tree[p],
                                   job[w.job].source.tree[p])],
          !.conflicts = integ.conflicts \ DOMAIN w.op.choice]
      BY <1>3, <2>2 DEF StageIndex
    <3> QED BY <1>3, <2>2, <3>1, <3>2, Zenon DEF IntegStepOf, Integs
  <2> QED BY <2>1, <2>2
<1>4. CASE RecoverImport
  <2>1. integ' = integ \/ integ' = NoMerge BY <1>4, Zenon DEF RecoverImport
  <2> QED BY <1>1, <2>1, Zenon DEF IntegStepOf
<1>5. CASE Reset \/ CancelRow \/ ImportRow
  <2>1. integ' = NoMerge BY <1>5 DEF Reset, CancelRow, ImportRow
  <2> QED BY <1>1, <2>1
<1>6. CASE UNCHANGED integ BY <1>6, Zenon DEF IntegStepOf
<1> QED BY <1>2, <1>3, <1>4, <1>5, <1>6, IntegMoves

\* Where the user's edits are taken, no merge is in progress.
LEMMA AdoptsAlone ==
    ASSUME TypeInv, QueueKeeps, IntegKeeps, Stands, Next, AdoptExternal
    PROVE  integ.source = None /\ integ' = integ
<1>1. w.at = "adoptExternal" /\ integ' = integ BY DEF AdoptExternal, At
<1>2. w.job \in Live /\ job[w.job].state \notin Ended /\ \A i \in Live : w.job <= i
  BY <1>1, AtWork DEF Processing
<1>3. ASSUME NEW r \in Live, job[r].external # None PROVE FALSE
  <2>1. r # w.job /\ r \in Jobs /\ w.job \in Jobs BY <1>3, Adopts DEF Live
  <2>4. w.job <= r /\ w.job \in Int /\ r \in Int BY <1>2, <1>3, <2>1, MergeAssumption, Zenon
  <2>2. w.job < r BY <2>1, <2>4
  <2>3. job[w.job].merged # None BY <1>2, <1>3, <2>1, <2>2, Zenon DEF QueueKeeps
  <2> QED BY <2>3, Adopts
<1> QED BY <1>1, <1>3, Zenon DEF IntegKeeps

\* The merge in progress keeps the user's edits in every step.
LEMMA IntegKeepsStep ==
    ASSUME TypeInv, QueueKeeps, JobsKeep, IntegKeeps, OpsKeep, Stands, Next
    PROVE  IntegKeeps'
\* Of the jobs that have the user's edits and no merge commit, one is not over.
<1>OneTaken.
    ASSUME TypeInv, QueueKeeps, NEW i \in Live, NEW j \in Live,
           job[i].external # None, job[i].merged = None, job[j].external # None, job[j].merged = None
    PROVE  i = j
  <2>1. i \in Jobs /\ j \in Jobs /\ job[i].state \notin Ended /\ job[j].state \notin Ended
    BY DEF Live
  <2>2. ~(i < j) /\ ~(j < i) BY <1>OneTaken, <2>1, Zenon DEF QueueKeeps
  <2>3. i \in Int /\ j \in Int BY <2>1, MergeAssumption
  <2> QED BY <2>2, <2>3
\* What git merges keeps the user's edits: the source took in all of its base.
<1>CleanKeeps.
    ASSUME NEW base, NEW ours, NEW theirs, base \subseteq theirs
    PROVE  ours \subseteq Clean(base, ours, theirs)
    BY <1>CleanKeeps, Zenon DEF Clean
\* A job with the user's edits and no merge commit does not come back from its end.
<1>LiveStays.
    ASSUME TypeInv, Stands, Next, NEW j \in Live', job[j].merged = None, job[j].external # None
    PROVE  j \in Live
  <2>1. j \in Jobs /\ job'[j].state \notin Ended BY DEF Live
  <2>2. job[j].state # "none"
    <3>1. job[j].state = "none" => job[j] = NoJob BY <2>1, Zenon DEF TypeInv, JobsOK, JobOK
    <3> QED BY <1>LiveStays, <3>1, NoJobFields, Zenon
  <2>3. job[j].state \notin Ended BY <1>LiveStays, <2>1, OverStays, Zenon
  <2> QED BY <2>1, <2>2, <2>3, Zenon DEF Live
<1> SUFFICES ASSUME integ'.source # None
             PROVE  /\ \E r \in Live' : job'[r].external # None
                    /\ \A j \in Live' :
                          job'[j].external # None /\ job'[j].merged = None /\ job'[j].source = integ'.source =>
                             Kept(job'[j].external.tree, integ'.tree, Gone')
  BY Zenon DEF IntegKeeps
<1>0. IntegStepOf BY IntegMovesTo
<1>1. ASSUME NEW r \in Live, job[r].external # None, job'[r].state \notin Ended
      PROVE  r \in Live' /\ job'[r].external # None
  <2>1. r \in Jobs /\ job[r].state # "none" BY DEF Live
  <2>2. job'[r].state # "none" /\ job'[r].external # None
    BY <1>1, <2>1, JobsGrown, Zenon DEF JobsGrow
  <2> QED BY <1>1, <2>1, <2>2 DEF Live
<1>2. \E r \in Live' : job'[r].external # None
  <2>1. CASE integ.source # None
    <3>1. PICK r \in Live : job[r].external # None BY <2>1, Zenon DEF IntegKeeps
    <3>2. CASE job'[r].state \notin Ended BY <1>1, <3>1, <3>2
    <3>3. CASE job'[r].state \in Ended
      <4>1. r \in Jobs /\ job[r].state \notin Ended /\ job[r].state # "none" BY DEF Live
      <4>2. JobStep(r) BY <4>1, JobsMove
      <4>3. FinishJob \/ CancelJob BY <3>3, <4>1, <4>2, Zenon DEF JobStep
      <4>4. ~FinishJob BY <2>1 DEF FinishJob, At, Stands, Cleared
      <4>5. CancelJob /\ w.at = "cancelJob" BY <4>3, <4>4 DEF CancelJob, At
      <4>6. r = w.job
        BY <3>3, <4>1, <4>2, Zenon DEF JobStep, Enqueue
      <4>7. FifoHead # w.job BY <2>1, <4>5, Zenon DEF Stands
      <4>8. FifoHead \in Live /\ FifoHead <= r BY <3>1, HeadIsLive
      <4>9. FifoHead \in Jobs /\ job[FifoHead].state \notin Ended BY <4>8 DEF Live
      <4>10. FifoHead < r BY <4>1, <4>6, <4>7, <4>8, <4>9, MergeAssumption
      <4>11. job[FifoHead].merged # None BY <3>1, <4>1, <4>9, <4>10, Zenon DEF QueueKeeps
      <4>12. job[FifoHead].external # None BY <4>9, <4>11, Zenon DEF TypeInv, JobsOK, JobOK
      <4>13. JobStep(FifoHead) BY <4>9, JobsMove
      <4>14. ~Enqueue(FifoHead) BY <4>8 DEF Enqueue, Live
      <4>15. job'[FifoHead].state = job[FifoHead].state BY <4>7, <4>13, <4>14, Zenon DEF JobStep
      <4> QED BY <1>1, <4>8, <4>9, <4>12, <4>15, Zenon
    <3> QED BY <3>2, <3>3
  <2>2. CASE integ.source = None
    <3>1. Merge /\ job' = job BY <1>0, <2>2, Zenon DEF IntegStepOf
    <3>2. w.at = "merge" BY <3>1, Zenon DEF Merge, At
    <3>3. w.job \in Live /\ job[w.job].external # None /\ job[w.job].state \notin Ended
      BY <3>2, AtWork, Zenon DEF Processing, Merging, TypeInv, Place
    <3> QED BY <1>1, <3>1, <3>3
  <2> QED BY <2>1, <2>2
<1>3. ASSUME NEW j \in Live', job'[j].external # None, job'[j].merged = None,
             job'[j].source = integ'.source
      PROVE  Kept(job'[j].external.tree, integ'.tree, Gone')
  <2>1. j \in Jobs /\ JobStep(j) /\ job[j].merged = None
    BY <1>3, JobsMove, JobsGrown, Zenon DEF Live, JobsGrow
  <2>2. ~(j = w.job /\ ReviseJob) BY <2>1, Revises, Zenon
  <2>3. ~(j = w.job /\ AdoptExternal) BY AdoptsAlone
  <2>4. job'[j].external = job[j].external BY <2>1, <2>2, <2>3, Zenon DEF JobStep
  <2>5. j \in Live BY <1>3, <2>1, <2>4, <1>LiveStays
  <2>6. job'[j].source = job[j].source BY <2>1, <2>5, Zenon DEF JobStep, Live
  <2>7. CASE integ' = integ
    <3>1. Kept(job[j].external.tree, integ.tree, Gone)
      BY <1>3, <2>1, <2>4, <2>5, <2>6, <2>7, Zenon DEF IntegKeeps
    <3> QED BY <2>4, <2>7, <3>1, KeptGrows, Zenon
  <2>8. CASE Merge /\ \A p \in Paths : integ'.tree[p] = Clean(job[w.job].base.tree[p],
                                          job[w.job].external.tree[p], job[w.job].source.tree[p])
    <3>1. w.at = "merge" BY <2>8, Zenon DEF Merge, At
    <3>2. w.job \in Live /\ job[w.job].external # None /\ job[w.job].state # "none" /\ w.job \in Jobs
      BY <3>1, AtWork, Zenon DEF Processing, Merging, TypeInv, Place
    <3>3. job[w.job].merged = None BY <3>1, Zenon DEF Stands, Merging
    <3>4. j = w.job BY <1>3, <2>1, <2>4, <2>5, <3>2, <3>3, <1>OneTaken, Zenon
    <3>5. \A p \in Paths : job[j].base.tree[p] \subseteq job[j].source.tree[p]
      BY <3>2, <3>4, Zenon DEF JobsKeep, JobKeeps
    <3>6. Kept(job[j].external.tree, integ'.tree, Gone')
      <4>1. ASSUME NEW p \in Paths, NEW x \in job[j].external.tree[p] PROVE x \in integ'.tree[p]
        BY <2>8, <3>4, <3>5, <1>CleanKeeps, ZenonT(30)
      <4> QED BY <4>1, Zenon DEF Kept
    <3> QED BY <2>4, <3>6, ZenonT(30)
  <2>9. CASE /\ StageIndex /\ integ.source # None /\ integ'.source = integ.source
             /\ \A p \in Paths : integ'.tree[p] =
                   IF p \notin DOMAIN w.op.choice THEN integ.tree[p]
                   ELSE Chosen(w.op.choice[p], job[w.job].external.tree[p], job[w.job].source.tree[p])
    <3>1. w.at = "index" /\ w.op \in ops /\ job[w.job].state = "conflicted"
      BY <2>9 DEF StageIndex, At, Stands, Indexing
    <3>2. w.job \in Jobs /\ w.job = w.op.job /\ w.op.kind = "resolve_index"
      BY <3>1, OpFields, Zenon DEF TypeInv, Place, Indexing, OpOK
    <3>3. /\ job[w.job].merged = None
          /\ GivenUp(w.op.choice, job[w.job].external.tree, job[w.job].source.tree) \subseteq waived
      BY <3>1, <3>2, Zenon DEF OpsKeep, OpKeeps
    <3>4. job[w.job].external # None /\ w.job \in Live
      BY <3>1, <3>2, Zenon DEF TypeInv, JobsOK, JobOK, Live, Ended
    <3>5. j = w.job BY <1>3, <2>1, <2>4, <2>5, <3>3, <3>4, <1>OneTaken, Zenon
    <3>6. Kept(job[j].external.tree, integ.tree, Gone)
      BY <1>3, <2>1, <2>4, <2>5, <2>6, <2>9, Zenon DEF IntegKeeps
    <3>7. job[j].external.tree \in Trees /\ job[j].source.tree \in Trees
      <4>1. job[j].external \in Good /\ job[j].source \in Good
        BY <3>2, <3>4, <3>5, Zenon DEF TypeInv, JobsOK, JobOK, JobRows, Maybe, Live
      <4> QED BY <4>1, GoodFields, Zenon
    <3>8. ASSUME NEW p \in Paths, NEW x \in job[j].external.tree[p]
          PROVE  x \in integ'.tree[p] \/ <<x, p>> \in Gone'
      <4>1. CASE p \notin DOMAIN w.op.choice
        <5>1. integ'.tree[p] = integ.tree[p] BY <2>9, <4>1, Zenon
        <5> QED BY <3>6, <5>1, GoneGrows, Zenon DEF Kept
      <4>2. CASE p \in DOMAIN w.op.choice
        <5>1. integ'.tree[p] = Chosen(w.op.choice[p], job[j].external.tree[p], job[j].source.tree[p])
          BY <2>9, <3>5, <4>2, Zenon
        <5>2. x \notin integ'.tree[p] =>
                <<x, p>> \in GivenUp(w.op.choice, job[j].external.tree, job[j].source.tree)
          BY <3>7, <4>2, <5>1, GivenUpHas, Zenon
        <5> QED BY <3>3, <3>5, <5>2, GoneGrows, Zenon DEF Gone
      <4> QED BY <4>1, <4>2, Zenon
    <3> QED BY <2>4, <3>8, Zenon DEF Kept
  <2> QED BY <1>0, <2>7, <2>8, <2>9, Zenon DEF IntegStepOf
<1> QED BY <1>2, <1>3, Zenon

\* Decisions as the operation rows record them.
Indexes(j, o) ==
    /\ ResolveMerge(j)
    /\ o.kind = "resolve_index" /\ o.job = j
    /\ waived' = waived \cup GivenUp(o.choice, job[j].external.tree, job[j].source.tree)
Rewrites(j, o, choice) ==
    /\ ResolveWriteback(j)
    /\ o.kind = "writeback_revision" /\ o.job = j /\ o.before = job[j].merged
    /\ o.external = Capture(job[j].external, j)
    /\ o.target = Commit(Revised(j, o.external, choice), {o.external, job[j].merged}, j)
    /\ waived' = waived \cup GivenUp(choice, o.external.tree,
                     [p \in Paths |-> IF files[j][p] = None THEN {} ELSE files[j][p].after])
    /\ swept' = swept \cup {m \in MarksOf(o.external.tree) \ MarksOf(o.target.tree) :
                               m[2] \notin DOMAIN choice}

\* The operations a step can record.
LEMMA NewOps ==
    ASSUME Next, NEW o \in ops', o \notin ops
    PROVE  \/ o.kind \in {"merge_cancel", "external"}
           \/ \E j \in Jobs : Indexes(j, o)
           \/ \E j \in Jobs : \E choice \in [Undecided(j) -> Actions] : Rewrites(j, o, choice)
<1>1. ASSUME NEW j \in Jobs, ResolveMerge(j) PROVE Indexes(j, o)
  <2>1. PICK choice, op :
           /\ op \in IF {q \in ops : q.kind = "resolve_index" /\ q.job = j /\ q.choice = choice} = {}
                     THEN {[no |-> NextNo, kind |-> "resolve_index", job |-> j, choice |-> choice]}
                     ELSE {q \in ops : q.kind = "resolve_index" /\ q.job = j /\ q.choice = choice}
           /\ ops' = ops \cup {op}
           /\ waived' = waived \cup GivenUp(choice, job[j].external.tree, job[j].source.tree)
    BY <1>1, Zenon DEF ResolveMerge
  <2>2. o = op BY <2>1
  <2>3. o = [no |-> NextNo, kind |-> "resolve_index", job |-> j, choice |-> choice]
    BY <2>1, <2>2
  <2>4. o.kind = "resolve_index" /\ o.job = j /\ o.choice = choice BY <2>3
  <2> QED BY <1>1, <2>1, <2>4, Zenon DEF Indexes
<1>2. ASSUME NEW j \in Jobs, ResolveWriteback(j)
      PROVE  \E choice \in [Undecided(j) -> Actions] : Rewrites(j, o, choice)
  <2>1. PICK choice \in [Undecided(j) -> Actions] :
          LET external == Capture(job[j].external, j)
              merged == Commit(Revised(j, external, choice), {external, job[j].merged}, j)
              op == [no |-> NextNo, kind |-> "writeback_revision", job |-> j,
                     before |-> job[j].merged, target |-> merged, external |-> external]
              after == [p \in Paths |-> IF files[j][p] = None THEN {} ELSE files[j][p].after] IN
          /\ ops' = ops \cup {op}
          /\ waived' = waived \cup GivenUp(choice, external.tree, after)
          /\ swept' = swept \cup {m \in MarksOf(external.tree) \ MarksOf(merged.tree) :
                                     m[2] \notin DOMAIN choice}
    BY <1>2, Zenon DEF ResolveWriteback
  <2> DEFINE external == Capture(job[j].external, j)
             merged == Commit(Revised(j, external, choice), {external, job[j].merged}, j)
  <2>2. ops' = ops \cup {[no |-> NextNo, kind |-> "writeback_revision", job |-> j,
                          before |-> job[j].merged, target |-> merged, external |-> external]}
    BY <2>1, Zenon
  <2> HIDE DEF external, merged
  <2>3. o = [no |-> NextNo, kind |-> "writeback_revision", job |-> j,
             before |-> job[j].merged, target |-> merged, external |-> external]
    BY <2>2
  <2>4. /\ o.kind = "writeback_revision" /\ o.job = j /\ o.before = job[j].merged
        /\ o.target = merged /\ o.external = external
    BY <2>3
  <2>5. Rewrites(j, o, choice) BY <1>2, <2>1, <2>4, Zenon DEF Rewrites, external, merged
  <2> QED BY <2>5
<1>3. ASSUME NEW j \in Jobs, Cancel(j) PROVE o.kind = "merge_cancel"
  <2>1. \E op : /\ ops' = ops \cup {op} /\ op.kind = "merge_cancel"
    <3>1. PICK op, preserved : /\ ops' = ops \cup {op}
                    /\ op \in IF {q \in ops : q.kind = "merge_cancel" /\ q.job = j} = {}
                              THEN {[no |-> NextNo, kind |-> "merge_cancel", job |-> j, target |-> preserved]}
                              ELSE {q \in {r \in ops : r.kind = "merge_cancel" /\ r.job = j} : q.target = preserved}
      BY <1>3, ZenonT(30) DEF Cancel
    <3>2. op.kind = "merge_cancel" BY <3>1
    <3> QED BY <3>1, <3>2
  <2> QED BY <2>1
<1>4. ASSUME ImportExternal PROVE o.kind = "external"
  <2>1. ops' = ops \cup {[no |-> NextNo, kind |-> "external", job |-> None, before |-> delivered,
                          target |-> Capture(delivered, 0)]}
    BY <1>4 DEF ImportExternal
  <2>2. o = [no |-> NextNo, kind |-> "external", job |-> None, before |-> delivered,
             target |-> Capture(delivered, 0)]
    BY <2>1
  <2> QED BY <2>2
<1>5. ASSUME FinishIndex \/ ReviseRow \/ FinishCancel \/ ImportRow \/ RecoverImport \/ RecoverNext
      PROVE  FALSE
  <2>1. ops' \subseteq ops
    BY <1>5, Zenon DEF FinishIndex, ReviseRow, FinishCancel, ImportRow, RecoverImport, RecoverNext
  <2> QED BY <2>1
<1>6. ASSUME NEW j \in Jobs, ResolveMerge(j) \/ ResolveWriteback(j) \/ Cancel(j)
      PROVE  \/ o.kind = "merge_cancel"
             \/ \E i \in Jobs : Indexes(i, o)
             \/ \E i \in Jobs : \E choice \in [Undecided(i) -> Actions] : Rewrites(i, o, choice)
  BY <1>1, <1>2, <1>3, <1>6
<1> QED BY <1>4, <1>5, <1>6, OpsMove

\* The record of a revision: the external commit is the folder as it is, the merge commit
\* what is to be written.
LEMMA RevisionIs ==
    ASSUME TypeInv, NEW j \in Jobs, NEW o, NEW choice \in [Undecided(j) -> Actions],
           Rewrites(j, o, choice)
    PROVE  /\ job[j].state = "conflicted" /\ job[j].merged # None /\ job' = job /\ files' = files
           /\ o.external \in Good /\ o.target \in Good /\ o.external.tree = user
           /\ o.external.srcs = job[j].external.srcs
           /\ o.target.srcs = job[j].external.srcs \cup job[j].merged.srcs
           /\ \A p \in Paths : o.target.tree[p] =
                IF files[j][p] = None THEN user[p]
                ELSE IF files[j][p].state = "applied" THEN user[p]
                ELSE IF p \in DOMAIN choice THEN Chosen(choice[p], user[p], files[j][p].after)
                ELSE files[j][p].after
           /\ \A p \in DOMAIN choice : /\ p \in Paths /\ files[j][p] # None
                                       /\ files[j][p].state = "conflicted"
<1>1. job[j].state = "conflicted" /\ job[j].merged # None /\ job' = job /\ files' = files
  BY Zenon DEF Rewrites, ResolveWriteback
<1>2. job[j].external \in Good /\ job[j].merged \in Good
  BY <1>1, Zenon DEF TypeInv, JobsOK, JobOK, JobRows, Maybe
<1>3. o.external \in Good /\ o.external.tree = user /\ o.external.srcs = job[j].external.srcs
  <2>1. FolderOK /\ o.external = Capture(job[j].external, j) BY Zenon DEF Rewrites, TypeInv
  <2> DEFINE c == Capture(job[j].external, j)
  <2>2. c \in Good /\ c.tree = user /\ c.srcs = job[j].external.srcs BY <1>2, <2>1, CaptureIs, ZenonT(30)
  <2> HIDE DEF c
  <2>3. o.external = c BY <2>1 DEF c
  <2> QED BY <2>2, <2>3
<1>4. o.target \in Good BY <1>1, RevisionGood, Zenon DEF Rewrites
<1>5. /\ o.target.tree = Revised(j, o.external, choice)
      /\ o.target.srcs = o.external.srcs \cup job[j].merged.srcs
  <2>1. o.target = Commit(Revised(j, o.external, choice), {o.external, job[j].merged}, j)
    BY Zenon DEF Rewrites
  <2> DEFINE t == Revised(j, o.external, choice)
             m == job[j].merged
             e == o.external
  <2>2. o.target = Commit(t, {e, m}, j) BY <2>1, Zenon
  <2> HIDE DEF t, m, e
  <2>3. o.target.tree = t BY <2>2, CommitFields
  <2>4. o.target.srcs = UNION {c.srcs : c \in {e, m}} BY <2>2, CommitFields
  <2>5. UNION {c.srcs : c \in {e, m}} = e.srcs \cup m.srcs OBVIOUS
  <2> QED BY <2>3, <2>4, <2>5, ZenonT(30) DEF t, m, e
<1>6. \A p \in Paths : o.target.tree[p] =
                IF files[j][p] = None THEN user[p]
                ELSE IF files[j][p].state = "applied" THEN user[p]
                ELSE IF p \in DOMAIN choice THEN Chosen(choice[p], user[p], files[j][p].after)
                ELSE files[j][p].after
  BY <1>3, <1>5, Zenon DEF Revised
<1>7. \A p \in DOMAIN choice : p \in Paths /\ files[j][p] # None /\ files[j][p].state = "conflicted"
  <2>1. DOMAIN choice = Undecided(j) OBVIOUS
  <2> QED BY <1>1, <2>1, Zenon DEF Undecided
<1> QED BY <1>1, <1>3, <1>4, <1>5, <1>6, <1>7, Zenon

\* The jobs with an index decision are not written, except where it is finished.
LEMMA StagedFinishes ==
    ASSUME TypeInv, Next, w.at = "staged", w.job \in Jobs, job'[w.job] # job[w.job]
    PROVE  FinishIndex \/ Enqueue(w.job)
<1>1. ASSUME FinishJob \/ ReviseJob \/ CancelJob \/ Prepare \/ MoveMain \/ MoveDelivered \/ AdoptExternal
             \/ Merge \/ CommitMerge \/ Advance \/ StartWriting \/ ApplyFile \/ Recheck \/ Observe \/ Verify
             \/ Deliver
      PROVE  FALSE
 
    BY <1>1, Zenon DEF At, FinishJob, ReviseJob, CancelJob, Prepare, MoveMain, MoveDelivered,
       AdoptExternal,
     Merge, CommitMerge, Advance, StartWriting, ApplyFile, Recheck, Observe, Verify, Deliver
<1>2. ASSUME Fault PROVE FALSE
  <2>1. w.at \notin Processing BY DEF Processing
  <2> QED BY <1>2, <2>1 DEF Fault
<1>3. ASSUME NEW j \in Jobs, Enqueue(j) PROVE j = w.job
  <2>1. JobStep(w.job) /\ job[w.job].state # "none"
    BY JobsMove, OpFields, Zenon DEF TypeInv, Place, Indexing, OpOK
  <2>2. PICK source \in Good : job' = [job EXCEPT ![j] = [job[j] EXCEPT !.state = "queued",
                                          !.base = delivered, !.source = source]]
    BY <1>3, EnqueueWrites, Zenon
  <2> QED BY <2>2 DEF TypeInv, JobsOK
<1> QED BY <1>1, <1>2, <1>3, JobMoves

\* The pending operations keep the user's edits in every step.
LEMMA OpsKeepStep ==
    ASSUME TypeInv, OpsKeep, Stands, Next
    PROVE  OpsKeep'
\* The commit of a revision keeps the folder, but for what it gives up or sweeps away.
<1>RevisionKept.
    ASSUME TypeInv, Next, NEW j \in Jobs, NEW o, NEW choice \in [Undecided(j) -> Actions],
           Rewrites(j, o, choice)
    PROVE  Kept(o.external.tree, o.target.tree, Gone')
  <2> DEFINE after == [p \in Paths |-> IF files[j][p] = None THEN {} ELSE files[j][p].after]
  <2>0. user \in Trees /\ o.external.tree = user
    BY <1>RevisionKept, RevisionIs, Zenon DEF TypeInv, FolderOK
  <2>1. after \in Trees
    <3>1. \A p \in Paths : files[j][p] # None => files[j][p] \in FileRows BY DEF TypeInv, JobsOK
    <3> QED BY <3>1, ZenonT(30) DEF FileRows, Trees
  <2> SUFFICES ASSUME NEW p \in Paths, NEW x \in user[p], x \notin o.target.tree[p]
               PROVE  <<x, p>> \in Gone'
    BY <2>0, Zenon DEF Kept
  <2>2. x \in Jobs \cup Edits BY <2>0, ZenonT(30) DEF Trees
  <2>3. <<x, p>> \in Marks /\ <<x, p>>[1] = x /\ <<x, p>>[2] = p BY <2>2 DEF Marks
  <2>4. CASE p \notin DOMAIN choice
    <3>1. <<x, p>> \in MarksOf(o.external.tree) \ MarksOf(o.target.tree) BY <2>0, <2>3, ZenonT(30) DEF MarksOf
    <3>2. <<x, p>> \in swept' BY <1>RevisionKept, <2>3, <2>4, <3>1, Zenon DEF Rewrites
    <3> QED BY <3>2, ZenonT(30) DEF Gone
  <2>5. CASE p \in DOMAIN choice
    <3>1. files[j][p] # None /\ files[j][p].state # "applied"
      BY <1>RevisionKept, <2>5, RevisionIs, Zenon
    <3>2. after[p] = files[j][p].after BY <3>1, ZenonT(30)
    <3>6. o.target.tree[p] = Chosen(choice[p], user[p], files[j][p].after)
      BY <1>RevisionKept, <2>5, <3>1, RevisionIs, ZenonT(30)
    <3>3. x \notin Chosen(choice[p], user[p], after[p]) BY <3>2, <3>6, Zenon
    <3> HIDE DEF after
    <3>4. <<x, p>> \in GivenUp(choice, user, after) BY <2>0, <2>1, <2>5, <3>3, GivenUpHas, Zenon
    <3>5. waived' = waived \cup GivenUp(choice, user, after)
      BY <1>RevisionKept, <2>0, Zenon DEF Rewrites, after
    <3> QED BY <3>4, <3>5, ZenonT(30) DEF Gone
  <2> QED BY <2>4, <2>5
<1> SUFFICES ASSUME NEW o \in ops'
             PROVE  OpKeeps(o)'
  BY DEF OpsKeep
<1>1. ASSUME o \in ops, o.kind = "resolve_index"
      PROVE  /\ job'[o.job].merged = None /\ job'[o.job].state \in {"conflicted", "cancelled"}
             /\ GivenUp(o.choice, job'[o.job].external.tree, job'[o.job].source.tree) \subseteq waived'
  <2> DEFINE j == o.job
  <2>1. j \in Jobs /\ job[j].external # None /\ job[j].state # "none"
    BY <1>1, ZenonT(30) DEF TypeInv, OpsOK, OpOK
  <2>2. /\ job[j].merged = None /\ job[j].state \in {"conflicted", "cancelled"}
        /\ GivenUp(o.choice, job[j].external.tree, job[j].source.tree) \subseteq waived
    BY <1>1, Zenon DEF OpsKeep, OpKeeps
  <2> HIDE DEF j
  <2>3. JobStep(j) BY <2>1, JobsMove
  <2>4. ~(j = w.job /\ w.at \in Processing) BY <2>2, AtWork DEF Ended
  <2>5. ~(j = w.job /\ w.at \in Revising) BY <2>2, ReviseKnown, ZenonT(30)
  <2>6. ~(j = w.job /\ (AdoptExternal \/ Merge \/ ReviseJob))
    BY <2>4, <2>5, Zenon DEF AdoptExternal, Merge, ReviseJob, At, Processing, Revising
  <2>7. job'[j].external = job[j].external /\ job'[j].merged = job[j].merged /\ job'[j].source = job[j].source
    BY <2>1, <2>3, <2>6, Zenon DEF JobStep
  <2>8. job'[j].state \in {"conflicted", "cancelled"}
    <3>1. CASE job'[j].state = job[j].state BY <2>2, <3>1, ZenonT(30)
    <3>2. CASE job'[j].state # job[j].state
      <4>1. ~Enqueue(j) BY <2>1 DEF Enqueue
      <4>2. ~(j = w.job /\ w.at = "staged")
        <5>1. SUFFICES ASSUME j = w.job, w.at = "staged" PROVE FALSE OBVIOUS
        <5>2. FinishIndex BY <2>1, <3>2, <4>1, <5>1, StagedFinishes, Zenon
        <5>3. o \notin ops' BY <1>1, <5>1, <5>2 DEF FinishIndex, j
        <5> QED BY <5>3
      <4>3. j = w.job /\ w.at = "cancelJob"
        BY <2>3, <2>4, <2>5, <3>2, <4>1, <4>2, Zenon DEF JobStep, Revising
      <4> QED BY <2>3, <3>2, <4>3, Zenon DEF JobStep
    <3> QED BY <3>1, <3>2
  <2> QED BY <2>2, <2>7, <2>8, GoneGrows, Zenon DEF j
<1>2. ASSUME o \in ops, o.kind = "writeback_revision"
      PROVE  Kept(o.external.tree, o.target.tree, Gone')
  <2>1. Kept(o.external.tree, o.target.tree, Gone) BY <1>2, Zenon DEF OpsKeep, OpKeeps
  <2> QED BY <2>1, KeptGrows
<1>3. CASE o \in ops BY <1>1, <1>2, <1>3, Zenon DEF OpKeeps
<1>4. ASSUME NEW j \in Jobs, Indexes(j, o) PROVE OpKeeps(o)'
  <2>1. job[j].merged = None /\ job[j].state = "conflicted" /\ job' = job
    BY <1>4, Zenon DEF Indexes, ResolveMerge
  <2>2. /\ job'[j].merged = None /\ job'[j].state \in {"conflicted", "cancelled"}
        /\ GivenUp(o.choice, job'[j].external.tree, job'[j].source.tree) \subseteq waived'
    BY <1>4, <2>1, Zenon DEF Indexes
  <2>3. o.kind = "resolve_index" /\ o.job = j BY <1>4, Zenon DEF Indexes
  <2> QED BY <2>2, <2>3, ZenonT(30) DEF OpKeeps
<1>5. ASSUME NEW j \in Jobs, NEW choice \in [Undecided(j) -> Actions], Rewrites(j, o, choice)
      PROVE  OpKeeps(o)'
  <2>1. o.kind = "writeback_revision" BY <1>5, Zenon DEF Rewrites
  <2>2. Kept(o.external.tree, o.target.tree, Gone') BY <1>5, <1>RevisionKept
  <2> QED BY <2>1, <2>2, Zenon DEF OpKeeps
<1>6. CASE o.kind \in {"merge_cancel", "external"} BY <1>6 DEF OpKeeps
<1> QED BY <1>3, <1>4, <1>5, <1>6, NewOps

\* What the positions of the worker rely on holds after every step.
LEMMA StandsStep ==
    ASSUME TypeInv, QueueKeeps, JobsKeep, Stands, Next
    PROVE  Stands'
\* The head of the queue stays the head while it is processed.
<1>HeadStays.
    ASSUME TypeInv, QueueKeeps, Stands, Next, w.at \in Processing,
           job'[w.job].state \notin Ended \cup {"none"}
    PROVE  FifoHead' = w.job
  <2>1. w.job \in Jobs /\ w.job \in Live BY <1>HeadStays, AtWork, Zenon
  <2>2. w.job \in Live' BY <1>HeadStays, <2>1, Zenon DEF Live
  <2>3. ASSUME NEW i \in Live' PROVE w.job <= i
    <3>1. i \in Jobs /\ job'[i].state \notin Ended BY DEF Live
    <3>2. w.at # "reviseJob" BY <1>HeadStays, Zenon DEF Processing
    <3>3. ~(i < w.job) BY <1>HeadStays, <3>1, <3>2, OlderOver, OverStays, Zenon
    <3>4. i \in Int /\ w.job \in Int BY <2>1, <3>1, MergeAssumption, Zenon
    <3> QED BY <3>3, <3>4
  <2>4. Live' \in SUBSET Jobs BY DEF Live
  <2>5. Live' # {} /\ First(Live') = w.job BY <2>2, <2>3, <2>4, HeadOf
  <2> QED BY <2>5 DEF FifoHead
\* At the other positions nothing is relied on.
<1>StandsElsewhere.
    ASSUME w'.at \notin Processing \cup Indexing \cup {"cancelJob"}
    PROVE  Stands'
    BY <1>StandsElsewhere, Zenon DEF Stands, Processing, Adopting, Merging, Cleared, Writing
\* Nor where the worker rests.
<1>StandsRest.
    ASSUME Restful
    PROVE  Stands'
  <2>1. w'.at \notin Processing \cup Indexing \cup {"cancelJob"}
    BY <1>StandsRest, Zenon DEF Restful, Resting, Processing, Indexing
  <2> QED BY <2>1, <1>StandsElsewhere
\* A step of process that goes on with its job.
<1>ProcessStands.
    ASSUME TypeInv, QueueKeeps, JobsKeep, Stands, Next, Process
    PROVE  Stands'
  \* A step of process that goes on with the same job keeps what process relies on.
  <2>StandsAtWork.
      ASSUME TypeInv, QueueKeeps, Stands, Next, w.at \in Processing, w'.at \in Processing,
             w'.job = w.job, job'[w.job].state \notin Ended \cup {"none", "conflicted"},
             w'.at \in Adopting \cup {"prepare"} => job'[w.job].external = None,
             w'.at \in Merging => job'[w.job].merged = None,
             w'.at = "commit" => integ'.source = job'[w.job].source,
             w'.at \in Cleared => integ'.source = None,
             w'.at = "rename" => \A x \in user'[First(w'.left)] : x \in files'[w.job][First(w'.left)].before
      PROVE  Stands'
    <3>1. FifoHead' = w.job BY <2>StandsAtWork, <1>HeadStays, Zenon
    <3>2. w'.at \notin Indexing /\ w'.at # "cancelJob"
      BY <2>StandsAtWork, Zenon DEF Processing, Indexing
    <3> QED BY <2>StandsAtWork, <3>1, <3>2, Zenon DEF Stands
  <2>0. w.at \in Processing => /\ w.job \in Jobs
                               /\ job[w.job].state \notin Ended \cup {"none", "conflicted"}
                               /\ job[w.job] \in JobRows /\ job \in [Jobs -> JobRows]
    BY AtWork DEF TypeInv, JobsOK
  <2>1. CASE TakeHead
    <3>1. CASE Restful BY <3>1, <1>StandsRest
    <3>2. CASE TakesHead
      <4>1. job' = job /\ FifoHead' = FifoHead BY <2>1, Zenon DEF TakeHead, FifoHead, Live
      <4>2. w'.job = FifoHead /\ FifoHead \in Jobs /\ job[FifoHead].state # "conflicted"
        BY <3>2 DEF TakesHead, Live
      <4>3. JobKeeps(FifoHead) BY <4>2 DEF JobsKeep
      <4>4. w'.at = "prepare" => job[FifoHead].external = None
        BY <3>2, <4>3, Zenon DEF TakesHead, JobKeeps
      <4>5. w'.at = "merge" => job[FifoHead].merged = None
        BY <3>2 DEF TakesHead
      <4>6. w'.at \in {"advance", "prepare", "merge"} BY <3>2 DEF TakesHead
      <4> QED
        BY <4>1, <4>2, <4>4, <4>5, <4>6, Zenon DEF Stands, Processing, Adopting, Merging, Cleared,
           Writing, Indexing
    <3> QED BY <2>1, <3>1, <3>2, HeadGoes
  <2>2. ASSUME NEW s \in Processing \ (Adopting \cup Merging \cup {"prepare", "rename"}), Goes(s), job' = job,
               w.at \in Processing, s \in Cleared => integ'.source = None
        PROVE  Stands'
    <3>1. w'.at = s /\ w'.job = w.job BY <2>2 DEF Goes
    <3>2. /\ s \notin Adopting \cup {"prepare"} /\ s \notin Merging /\ s # "commit" /\ s # "rename"
      BY <2>2 DEF Merging
    <3> QED BY <2>0, <2>2, <3>1, <3>2, <2>StandsAtWork, Zenon
  <2>3. ASSUME NEW s \in Adopting, Goes(s), w.at \in Adopting \cup {"prepare"},
               job'[w.job].state \notin Ended \cup {"none", "conflicted"},
               job'[w.job].external = job[w.job].external
        PROVE  Stands'
    <3>1. w'.at = s /\ w'.job = w.job BY <2>3 DEF Goes
    <3>2. job[w.job].external = None BY <2>3, Zenon DEF Stands
    <3>3. s \in Processing /\ s \notin Merging /\ s # "commit" /\ s \notin Cleared /\ s # "rename" /\ w.at \in Processing
      BY <2>3 DEF Adopting, Processing, Merging, Cleared, Writing
    <3> QED BY <2>3, <3>1, <3>2, <3>3, <2>StandsAtWork, Zenon
  <2>4. CASE Prepare
    <3>1. w.at = "prepare" /\ job' = [job EXCEPT ![w.job].state = "preparing"]
      BY <2>4 DEF Prepare, At
    <3>2. job'[w.job].state = "preparing" /\ job'[w.job].external = job[w.job].external
      BY <2>0, <3>1 DEF JobRows, Processing
    <3>3. Goes("moveMain") BY <2>4, ProcessGoes
    <3> QED BY <2>3, <3>1, <3>2, <3>3 DEF Adopting, Ended
  <2>5. CASE MoveMain
    <3>1. w.at = "moveMain" BY <2>5 DEF MoveMain, At
    <3>2. Restful \/ (Goes("moveDelivered") /\ job' = job)
      <4>1. Throws => Restful BY Going DEF Throws
      <4>2. Goto("moveDelivered") => Goes("moveDelivered") BY Going DEF Steps, Processing
      <4> QED BY <2>5, <4>1, <4>2, ZenonT(30) DEF MoveMain
    <3> QED BY <2>0, <2>3, <3>1, <3>2, <1>StandsRest, ZenonT(30) DEF Adopting, Processing
  <2>6. CASE MoveDelivered
    <3>1. w.at = "moveDelivered" BY <2>6 DEF MoveDelivered, At
    <3>2. Restful \/ (Goes("saveExternal") /\ job' = job)
      <4>1. Throws => Restful BY Going DEF Throws
      <4>2. Goto("saveExternal") => Goes("saveExternal") BY Going DEF Steps, Processing
      <4> QED BY <2>6, <4>1, <4>2, ZenonT(30) DEF MoveDelivered
    <3> QED BY <2>0, <2>3, <3>1, <3>2, <1>StandsRest, Zenon DEF Adopting, Processing
  <2>7. CASE SaveExternal
    <3>1. w.at = "saveExternal" /\ job' = job BY <2>7 DEF SaveExternal, At
    <3>2. Goes("adoptExternal") BY <2>7, ProcessGoes
    <3> QED BY <2>0, <2>3, <3>1, <3>2, ZenonT(30) DEF Adopting, Processing
  <2>8. CASE AdoptExternal
    <3>1. w.at = "adoptExternal" BY <2>8 DEF AdoptExternal, At
    <3>2. Goes("merge") BY <2>8, ProcessGoes
    <3>3. job[w.job].merged = None BY <2>8, Adopts
    <3>4. job'[w.job].state = "merging" /\ job'[w.job].merged = job[w.job].merged
      BY <2>0, <2>8, <3>1 DEF AdoptExternal, JobRows, Processing
    <3>5. w'.at = "merge" /\ w'.job = w.job BY <3>2 DEF Goes
    <3>6. job'[w.job].state \notin Ended \cup {"none", "conflicted"} BY <3>4 DEF Ended
    <3>7. w.at \in Processing /\ w'.at \in Processing /\ w'.at \notin Adopting \cup {"prepare"} /\ w'.at # "commit"
          /\ w'.at \notin Cleared /\ w'.at # "rename"
      BY <3>1, <3>5 DEF Adopting, Processing, Cleared, Writing
    <3> QED BY <3>3, <3>4, <3>5, <3>6, <3>7, <2>StandsAtWork, Zenon
  <2>9. CASE Merge
    <3>1. w.at = "merge" /\ w.at \in Processing BY <2>9, Zenon DEF Merge, At, Processing
    <3>2. job[w.job].merged = None BY <3>1, Zenon DEF Stands, Merging
    <3>3. CASE Restful BY <3>3, <1>StandsRest
    <3>4. CASE Goes("advance")
      <4>1. w'.at = "advance" /\ w'.job = w.job BY <3>4 DEF Goes
      <4>2. job'[w.job].state \notin Ended \cup {"none", "conflicted"}
        <5>1. ASSUME NEW c \in Good, job' = [job EXCEPT ![w.job] = [job[w.job] EXCEPT !.state = "merging", !.merged = c]]
              PROVE  job'[w.job].state = "merging"
          BY <2>0, <3>1, <5>1 DEF JobRows
        <5>2. ASSUME Relabels(w.job, "recovering") PROVE job'[w.job].state = "recovering"
          BY <2>0, <3>1, <5>2 DEF Relabels, JobRows
        <5>3. job'[w.job].state \in {"merging", "recovering"} \/ job' = job
          BY <2>9, <5>1, <5>2, MergeWrites, Zenon
        <5> QED BY <2>0, <3>1, <5>3 DEF Ended
      <4>3. w'.at \in Processing /\ w'.at \notin Adopting \cup {"prepare"} /\ w'.at # "commit"
            /\ w'.at \notin Cleared /\ w'.at # "rename" /\ w'.at \notin Merging
        BY <4>1 DEF Adopting, Processing, Cleared, Writing, Merging
      <4> QED BY <3>1, <4>1, <4>2, <4>3, <2>StandsAtWork, ZenonT(30)
    <3>5. CASE Goes("commit")
      <4>1. w'.at = "commit" /\ w'.job = w.job BY <3>5 DEF Goes
      <4>2. ~Goto("advance") /\ ~Throws
        BY <4>1, GoesTo, Releases DEF Throws, TypeInv, Steps, Processing
      <4>3. job' = job /\ (integ'.source = job[w.job].source \/ (integ.source = job[w.job].source /\ integ' = integ))
        <5>1. CASE integ.source = None
          <6>1. job' = job /\ \E clash, tree : integ' = Begun(job[w.job].source, clash, tree)
            BY <2>9, <4>2, <5>1, Zenon DEF Merge, Begun
          <6> QED BY <6>1, BegunFields
        <5>2. CASE integ.source # None
          BY <2>9, <4>2, <5>2, Zenon DEF Merge
        <5> QED BY <5>1, <5>2, Zenon
      <4>4. w'.at \in Processing /\ w'.at \notin Adopting \cup {"prepare"}
            /\ w'.at \notin Cleared /\ w'.at # "rename"
        BY <4>1 DEF Adopting, Processing, Cleared, Writing
      <4> QED BY <2>0, <3>1, <3>2, <4>1, <4>3, <4>4, <2>StandsAtWork, Zenon
    <3> QED BY <2>9, <3>3, <3>4, <3>5, ProcessGoes
  <2>10. CASE CommitMerge
    <3>1. w.at = "commit" /\ w.at \in Processing BY <2>10 DEF CommitMerge, At, Processing
    <3>2. job[w.job].merged = None BY <3>1, Zenon DEF Stands, Merging
    <3>3. Restful \/ (Goes("merge") /\ job' = job)
      <4>1. Release => Restful BY Going
      <4>2. Goto("merge") => Goes("merge") BY Going DEF Steps, Processing
      <4> QED BY <2>10, <4>1, <4>2 DEF CommitMerge
    <3>4. ASSUME Goes("merge"), job' = job PROVE Stands'
      <4>1. w'.at = "merge" /\ w'.job = w.job BY <3>4 DEF Goes
      <4>2. w'.at \in Processing /\ w'.at \notin Adopting \cup {"prepare"}
            /\ w'.at \notin Cleared /\ w'.at # "rename" /\ w'.at # "commit"
        BY <4>1 DEF Adopting, Processing, Cleared, Writing
      <4> QED BY <2>0, <3>1, <3>2, <3>4, <4>1, <4>2, <2>StandsAtWork, Zenon
    <3> QED BY <3>3, <3>4, <1>StandsRest
  <2>11. CASE Advance
    <3>1. w.at = "advance" BY <2>11, ZenonT(30) DEF Advance, At
    <3>2. Restful \/ (Goes("reset") /\ job' = job)
      <4>1. Throws => Restful BY Going DEF Throws
      <4>2. Goto("reset") => Goes("reset") BY Going DEF Steps, Processing
      <4> QED BY <2>11, <4>1, <4>2, ZenonT(30) DEF Advance
    <3>3. "reset" \in Processing \ (Adopting \cup Merging \cup {"prepare", "rename"}) /\ "reset" \notin Cleared
          /\ w.at \in Processing
      BY <3>1 DEF Processing, Adopting, Merging, Cleared, Writing
    <3> QED BY <2>2, <3>2, <3>3, <1>StandsRest
  <2>12. CASE Reset
    <3>1. w.at = "reset" /\ job' = job /\ integ' = NoMerge BY <2>12 DEF Reset, At
    <3>2. Goes("manifest") BY <2>12, ProcessGoes
    <3>3. "manifest" \in Processing \ (Adopting \cup Merging \cup {"prepare", "rename"}) /\ w.at \in Processing
      BY <3>1 DEF Processing, Adopting, Merging
    <3> QED BY <2>2, <3>1, <3>2, <3>3, ZenonT(30) DEF NoMerge
  \* The steps of the writeback leave the integration worktree alone.
  <2>13. ASSUME w.at \in Cleared, integ' = integ, w'.job = w.job, w'.at \in Cleared,
                job'[w.job].state \notin Ended \cup {"none", "conflicted"},
                w'.at = "rename" => \A x \in user'[First(w'.left)] : x \in files'[w.job][First(w'.left)].before
         PROVE  Stands'
    <3>1. w.at \in Processing /\ w'.at \in Processing /\ w'.at \notin Adopting \cup {"prepare"}
          /\ w'.at \notin Merging /\ w'.at # "commit"
      BY <2>13, Zenon DEF Cleared, Writing, Processing, Adopting, Merging
    <3>2. integ.source = None BY <2>13, Zenon DEF Stands
    <3> QED BY <2>13, <3>1, <3>2, <2>StandsAtWork, Zenon
  <2>14. CASE StartWriting
    <3>1. w.at = "manifest" /\ integ' = integ /\ job' = [job EXCEPT ![w.job].state = "writing"]
      BY <2>14 DEF StartWriting, At
    <3>2. w'.at = "file" /\ w'.job = w.job BY <2>14, FileGoes, ZenonT(30) DEF Starts
    <3>3. job'[w.job].state = "writing" BY <2>0, <3>1 DEF JobRows, Processing
    <3>4. job'[w.job].state \notin Ended \cup {"none", "conflicted"} BY <3>3 DEF Ended
    <3> QED BY <2>13, <3>1, <3>2, <3>4 DEF Cleared, Writing
  <2>15. ASSUME NEW s \in Cleared \ {"rename"}, w.at \in Cleared, integ' = integ, job' = job,
                w'.at = s, w'.job = w.job
         PROVE  Stands'
    <3>1. w.at \in Processing BY <2>15 DEF Cleared, Writing, Processing
    <3> QED BY <2>0, <2>13, <2>15, <3>1, Zenon
  <2>16. \A p : WritebackConflict(p) => Restful BY Going DEF WritebackConflict
  <2>17. CASE ApplyFile
    <3>1. w.at = "file" /\ integ' = integ BY <2>17 DEF ApplyFile, At
    <3>2. \/ Restful
          \/ job' = job /\ Goto("recheck")
          \/ job' = job /\ w' = [w EXCEPT !.left = @ \ {First(w.left)}]
      BY <2>16, <2>17 DEF ApplyFile
    <3>3. ASSUME job' = job, Goto("recheck") PROVE Stands'
      <4>1. w'.at = "recheck" /\ w'.job = w.job BY <3>3, GoesTo, ZenonT(30) DEF TypeInv, Steps, Processing
      <4> QED BY <2>15, <3>1, <3>3, <4>1 DEF Cleared, Writing
    <3>4. ASSUME job' = job, w' = [w EXCEPT !.left = @ \ {First(w.left)}] PROVE Stands'
      <4>1. w'.at = "file" /\ w'.job = w.job BY <3>1, <3>4 DEF TypeInv, WorkOK
      <4> QED BY <2>15, <3>1, <3>4, <4>1 DEF Cleared, Writing
    <3> QED BY <3>2, <3>3, <3>4, <1>StandsRest
  <2>18. CASE Recheck
    <3>1. w.at = "recheck" /\ integ' = integ /\ user' = user BY <2>18, Zenon DEF Recheck, At
    <3>2. \/ Restful
          \/ job' = job /\ files' = files /\ Goto("rename") /\ user[First(w.left)] = files[w.job][First(w.left)].before
      BY <2>16, <2>18, Zenon DEF Recheck
    <3>3. ASSUME job' = job, files' = files, Goto("rename"), user[First(w.left)] = files[w.job][First(w.left)].before
          PROVE  Stands'
      <4>1. w'.at = "rename" /\ w'.job = w.job /\ w'.left = w.left
        BY <3>3, GoesTo, Zenon DEF TypeInv, Steps, Processing
      <4>2. job'[w.job].state \notin Ended \cup {"none", "conflicted"}
        BY <2>0, <3>1, <3>3, Zenon DEF Processing
      <4>3. w.at \in Cleared /\ w'.at \in Cleared BY <3>1, <4>1, Zenon DEF Cleared, Writing
      <4> QED BY <2>13, <3>1, <3>3, <4>1, <4>2, <4>3, Zenon
    <3> QED BY <3>2, <3>3, <1>StandsRest, Zenon
  <2>19. CASE Rename
    <3>1. w.at = "rename" /\ integ' = integ /\ job' = job BY <2>19, Zenon DEF Rename, At
    <3>2. w'.at = "observe" /\ w'.job = w.job BY <2>19, ProcessGoes, Zenon DEF Goes
    <3> QED BY <2>15, <3>1, <3>2 DEF Cleared, Writing
  <2>20. CASE Observe
    <3>1. w.at = "observe" /\ integ' = integ BY <2>20 DEF Observe, At
    <3>2. \/ Restful
          \/ job' = job /\ w' = [w EXCEPT !.at = "file", !.left = @ \ {First(w.left)}]
      BY <2>16, <2>20 DEF Observe
    <3>3. ASSUME job' = job, w' = [w EXCEPT !.at = "file", !.left = @ \ {First(w.left)}] PROVE Stands'
      <4>1. w'.at = "file" /\ w'.job = w.job BY <3>3 DEF TypeInv, WorkOK
      <4> QED BY <2>15, <3>1, <3>3, <4>1 DEF Cleared, Writing
    <3> QED BY <3>2, <3>3, <1>StandsRest
  <2>21. CASE Verify
    <3>1. w.at = "file" /\ integ' = integ BY <2>21, Zenon DEF Verify, At
    <3>2. Restful \/ (job' = job /\ Goto("deliver"))
      BY <2>16, <2>21, Zenon DEF Verify
    <3>3. ASSUME job' = job, Goto("deliver") PROVE Stands'
      <4>1. w'.at = "deliver" /\ w'.job = w.job
        BY <3>3, GoesTo, Zenon DEF TypeInv, Steps, Processing
      <4> QED BY <2>15, <3>1, <3>3, <4>1 DEF Cleared, Writing
    <3> QED BY <3>2, <3>3, <1>StandsRest
  <2>22. CASE Deliver
    <3>1. w.at = "deliver" /\ integ' = integ BY <2>22, ZenonT(30) DEF Deliver, At
    <3>2. Restful \/ (job' = job /\ Goto("saveDelivered"))
      <4>1. Throws => Restful BY Going DEF Throws
      <4> QED BY <2>22, <4>1 DEF Deliver
    <3>3. ASSUME job' = job, Goto("saveDelivered") PROVE Stands'
      <4>1. w'.at = "saveDelivered" /\ w'.job = w.job BY <3>3, GoesTo DEF TypeInv, Steps, Processing
      <4> QED BY <2>15, <3>1, <3>3, <4>1 DEF Cleared
    <3> QED BY <3>2, <3>3, <1>StandsRest
  <2>23. CASE SaveDelivered
    <3>1. w.at = "saveDelivered" /\ integ' = integ /\ job' = job BY <2>23 DEF SaveDelivered, At
    <3>2. w'.at = "finish" /\ w'.job = w.job BY <2>23, ProcessGoes, Zenon DEF Goes
    <3> QED BY <2>15, <3>1, <3>2 DEF Cleared
  <2>24. CASE FinishJob BY <2>24, ProcessGoes, <1>StandsRest
  <2> QED
    BY <1>ProcessStands, <2>1, <2>4, <2>5, <2>6, <2>7, <2>8, <2>9, <2>10, <2>11, <2>12, <2>14,
       <2>17, <2>18, <2>19, <2>20, Zenon,
            <2>21, <2>22, <2>23, <2>24 DEF Process
\* An operation that is taken up, or goes on.
<1>OpStands.
    ASSUME NEW op, TakesOp(op), job' = job
    PROVE  Stands'
  <2>1. CASE Takes("index", op) /\ op \in ops' /\ job[op.job].state = "conflicted"
    <3>1. w'.at = "index" /\ w'.op = op /\ w'.job = op.job BY <2>1 DEF Takes
    <3> QED
      BY <1>OpStands, <2>1, <3>1, Zenon DEF Stands, Processing, Adopting, Merging, Cleared,
         Writing
  <2>2. ASSUME NEW s \in {"reviseMain", "cancelMain", "importMain"}, Takes(s, op) PROVE Stands'
    <3>1. w'.at = s BY <2>2 DEF Takes
    <3> QED BY <2>2, <3>1, <1>StandsElsewhere DEF Processing, Indexing
  <2> QED BY <1>OpStands, <2>1, <2>2, Zenon DEF TakesOp
\* The steps of an operation keep what the positions rely on.
<1>OperateStands.
    ASSUME TypeInv, Stands, Next, Operate
    PROVE  Stands'
  <2>1. ASSUME NEW s \in (Revising \cup Cancelling \cup Importing) \ {"cancelJob"}, Goes(s) PROVE Stands'
    <3>1. w'.at = s BY <2>1 DEF Goes
    <3> QED
      BY <2>1, <3>1, <1>StandsElsewhere DEF Processing, Indexing, Revising, Cancelling, Importing
  <2>2. CASE StageIndex
    <3>1. w.at = "index" /\ job' = job /\ ops' = ops BY <2>2 DEF StageIndex, At
    <3>2. w.op \in ops /\ job[w.job].state = "conflicted" BY <3>1, Zenon DEF Stands, Indexing
    <3>3. w'.at = "staged" /\ w'.op = w.op /\ w'.job = w.job BY <2>2, OperateGoes, Zenon DEF Goes
    <3> QED BY <3>1, <3>2, <3>3, Zenon DEF Stands, Processing, Adopting, Merging, Cleared, Writing
  <2>3. CASE CancelMain
    <3>1. CASE FifoHead # w.job
      <4>1. Goto("cancelJob") /\ job' = job BY <2>3, <3>1, Zenon DEF CancelMain
      <4>2. w'.at = "cancelJob" /\ w'.job = w.job
        BY <4>1, GoesTo, Zenon DEF TypeInv, Steps, Cancelling
      <4>3. FifoHead' = FifoHead BY <4>1, ZenonT(30) DEF FifoHead, Live
      <4> QED
        BY <3>1, <4>2, <4>3, Zenon DEF Stands, Processing, Adopting, Merging, Cleared, Writing,
           Indexing
    <3>2. CASE FifoHead = w.job
      <4>1. Release \/ Goto("cancelDelivered") BY <2>3, <3>2, Zenon DEF CancelMain
      <4>2. Restful \/ Goes("cancelDelivered") BY <4>1, Going, ZenonT(30) DEF Steps, Cancelling
      <4> QED BY <2>1, <4>2, <1>StandsRest DEF Cancelling
    <3> QED BY <3>1, <3>2
  <2>4. CASE CancelRow
    <3>1. integ' = NoMerge BY <2>4 DEF CancelRow
    <3>2. w'.at = "cancelJob" BY <2>4, OperateGoes, Zenon DEF Goes
    <3> QED
      BY <3>1, <3>2, Zenon DEF Stands, Processing, Adopting, Merging, Cleared, Writing, Indexing,
         NoMerge
  <2>5. CASE FinishIndex \/ ReviseRow \/ FinishCancel \/ ImportRow \/ RecoverImport \/ Validate
    BY <2>5, OperateGoes, RecoverGoes, <1>StandsRest, ZenonT(30)
  <2>6. CASE ReviseMain \/ ReviseDelivered \/ ReviseJob \/ CancelDelivered \/ CancelJob \/ ImportMain \/ ImportDelivered
    <3>1. Restful \/ \E s \in (Revising \cup Cancelling \cup Importing) \ {"cancelJob"} : Goes(s)
      BY <2>6, OperateGoes DEF Revising, Cancelling, Importing
    <3> QED BY <2>1, <3>1, <1>StandsRest
  <2>7. CASE RecoverNext
    <3>1. job' = job BY <2>7, Zenon DEF RecoverNext
    <3> QED BY <2>7, <3>1, RecoverGoes, <1>OpStands, <1>StandsRest
  <2> QED BY <1>OperateStands, <2>2, <2>3, <2>4, <2>5, <2>6, <2>7, Zenon DEF Operate
\* A new job does not become the head while another is at work.
<1>EnqueueStands.
    ASSUME TypeInv, QueueKeeps, Stands, Next, NEW j \in Jobs, Enqueue(j)
    PROVE  Stands'
  <2>0. w' = w /\ integ' = integ /\ user' = user /\ files' = files /\ ops' = ops /\ raced' = raced /\ job[j].state = "none"
    BY <1>EnqueueStands, Zenon DEF Enqueue, notes
  <2>1. \A i \in Jobs : i # j => job'[i] = job[i]
    BY <1>EnqueueStands, Zenon DEF Enqueue, TypeInv, JobsOK
  <2>2. w.at \in Processing \cup {"cancelJob"} \cup Indexing => w.job \in Jobs /\ w.job # j
    <3>1. CASE w.at \in Processing BY <2>0, <3>1, AtWork, Zenon
    <3>2. CASE w.at \in Indexing \cup {"cancelJob"}
      <4>1. w.at \in Indexing \/ w.at \in Cancelling BY <3>2 DEF Cancelling
      <4>2. w.job = w.op.job BY <4>1, Zenon DEF TypeInv, Place
      <4>3. w.op.job \in Jobs /\ job[w.op.job].state # "none" BY <4>1, OpFields, Zenon DEF OpOK
      <4> QED BY <2>0, <4>2, <4>3, Zenon
    <3> QED BY <3>1, <3>2
  <2>3. ASSUME w.at \in Processing PROVE FifoHead' = w.job /\ job'[w.job] = job[w.job]
    <3>1. job'[w.job] = job[w.job] BY <2>1, <2>2, <2>3
    <3> QED BY <2>3, <3>1, <1>HeadStays, AtWork, Zenon
  <2>4. ASSUME w.at = "cancelJob", FifoHead # w.job PROVE FifoHead' # w.job
    <3>0. w.job \in Jobs /\ w.job # j BY <2>2, <2>4
    <3> SUFFICES ASSUME FifoHead' = w.job PROVE FALSE OBVIOUS
    <3>1. Live' \subseteq Jobs /\ Live \subseteq Jobs BY Zenon DEF Live
    <3>2. Live' # {} /\ First(Live') = w.job BY <3>0, MergeAssumption DEF FifoHead
    <3>3. w.job \in Live' /\ \A i \in Live' : w.job <= i BY <3>1, <3>2, FirstIs
    <3>4. w.job \in Live BY <2>1, <3>0, <3>3, Zenon DEF Live
    <3>5. FifoHead \in Live /\ FifoHead <= w.job
      <4>1. Live # {} /\ FifoHead = First(Live) BY <3>4 DEF FifoHead
      <4> QED BY <3>1, <3>4, <4>1, FirstIs, Zenon
    <3>6. FifoHead \in Live'
      <4>1. FifoHead \in Jobs /\ FifoHead # j BY <2>0, <3>5, ZenonT(30) DEF Live
      <4> QED BY <2>1, <3>5, <4>1, Zenon DEF Live
    <3>7. w.job <= FifoHead BY <3>3, <3>6
    <3>8. FifoHead \in Int /\ w.job \in Int BY <3>1, <3>3, <3>5, MergeAssumption, Zenon
    <3>9. FifoHead <= w.job /\ FifoHead # w.job BY <2>4, <3>5
    <3> HIDE DEF FifoHead
    <3> QED BY <3>7, <3>8, <3>9
  <2>5. w.at \in Indexing => job'[w.job] = job[w.job] BY <2>1, <2>2, Zenon
  <2>6. /\ w.at \in Adopting \cup {"prepare"} => w.at \in Processing
        /\ w.at \in Merging => w.at \in Processing
        /\ w.at = "commit" => w.at \in Processing
    BY DEF Adopting, Merging, Processing
  <2> QED BY <2>0, <2>3, <2>4, <2>5, <2>6, Zenon DEF Stands
\* A save by the user while the rename is due is one that raced with it.
<1>EditStands.
    ASSUME TypeInv, Stands, NEW p \in Paths, NEW e \in Edits, Edit(p, e)
    PROVE  Stands'
  <2>0. w' = w /\ integ' = integ /\ job' = job /\ files' = files /\ ops' = ops
    BY <1>EditStands, Zenon DEF Edit
  <2>1. FifoHead' = FifoHead BY <2>0, Zenon DEF FifoHead, Live
  <2>2. ASSUME w.at = "rename", NEW x \in user'[First(w.left)]
        PROVE  x \in files[w.job][First(w.left)].before \/ <<x, First(w.left)>> \in raced'
    <3>0. user' = [user EXCEPT ![p] = user[p] \cup {e}] /\ user \in [Paths -> SUBSET (Jobs \cup Edits)]
      BY <1>EditStands, Zenon DEF Edit, TypeInv, FolderOK, Trees
    <3>1. raced \subseteq raced' BY <1>EditStands, Zenon DEF Edit
    <3>2. CASE x \in user[First(w.left)] BY <2>2, <3>1, <3>2, Zenon DEF Stands
    <3>3. CASE x \notin user[First(w.left)]
      <4>1. p = First(w.left) /\ x = e BY <2>2, <3>0, <3>3
      <4> QED BY <1>EditStands, <2>2, <4>1, Zenon DEF Edit, At
    <3> QED BY <3>2, <3>3, Zenon
  <2> QED BY <2>0, <2>1, <2>2, Zenon DEF Stands
<1>1. CASE Process BY <1>1, <1>ProcessStands
<1>2. CASE Operate BY <1>2, <1>OperateStands
<1>3. CASE Drain \/ Fault \/ Crash \/ \E j \in Jobs : Retry(j)
  BY <1>3, RecoverGoes, <1>StandsRest, Zenon
<1>4. CASE ImportExternal
  <2>1. job' = job BY <1>4, Zenon DEF ImportExternal
  <2> QED BY <1>4, <2>1, UserGoes, <1>OpStands
<1>5. ASSUME NEW j \in Jobs, Enqueue(j) PROVE Stands' BY <1>5, <1>EnqueueStands
<1>6. ASSUME NEW p \in Paths, NEW e \in Edits, Edit(p, e) PROVE Stands' BY <1>6, <1>EditStands
<1>7. ASSUME NEW j \in Jobs, ResolveMerge(j) \/ ResolveWriteback(j) \/ ResolveAgain(j) \/ Cancel(j) PROVE Stands'
  <2>1. job' = job BY <1>7, Zenon DEF ResolveMerge, ResolveWriteback, ResolveAgain, Cancel
  <2> QED BY <1>7, <2>1, UserGoes, <1>OpStands
<1>8. ASSUME NEW j \in Jobs, AuditRefuses(j) PROVE Stands'
  <2>1. w' = w /\ w.at = "idle" BY <1>8 DEF AuditRefuses, At
  <2> QED BY <2>1, <1>StandsElsewhere DEF Processing, Indexing
<1> QED BY <1>1, <1>2, <1>3, <1>4, <1>5, <1>6, <1>7, <1>8 DEF Next, Decide

\* Only the rename of a writeback takes something out of a file, and only what its row
\* does not keep.
LEMMA FolderLoses ==
    ASSUME TypeInv, JobsKeep, Stands, Next, NEW p \in Paths, NEW x \in user[p]
    PROVE  x \in user'[p] \/ <<x, p>> \in Gone \/ <<x, p>> \in raced
<1>0. user \in [Paths -> SUBSET (Jobs \cup Edits)] BY Zenon DEF TypeInv, FolderOK, Trees
<1>1. CASE UNCHANGED user BY <1>1, Zenon
<1>2. CASE Rename
  <2> DEFINE q == First(w.left)
  <2>1. w.at = "rename" /\ user' = [user EXCEPT ![q] = files[w.job][q].after]
    BY <1>2, Zenon DEF Rename, At
  <2>2. w.job \in Jobs /\ q \in Paths /\ files[w.job][q] # None
    <3>1. w.at \in Writing \ {"file"} BY <2>1, ZenonT(30) DEF Writing
    <3> QED BY <3>1, RowOf, MergeAssumption, Zenon
  <2>3. JobKeeps(w.job) BY <2>2, Zenon DEF JobsKeep
  <2>4. \A y \in files[w.job][q].before : y \in files[w.job][q].after \/ <<y, q>> \in Gone
    BY <2>2, <2>3, Zenon DEF JobKeeps
  <2>5. \A y \in user[q] : y \in files[w.job][q].before \/ <<y, q>> \in raced
    BY <2>1, Zenon DEF Stands
  <2> HIDE DEF q
  <2> QED BY <1>0, <2>1, <2>2, <2>4, <2>5, Zenon
<1>3. ASSUME NEW q \in Paths, NEW e \in Edits, Edit(q, e) PROVE x \in user'[p]
  BY <1>0, <1>3, Zenon DEF Edit
<1> QED BY <1>1, <1>2, <1>3, UserMoves, ZenonT(30)

\* No step takes an edit of the user's out of the folder without its being given up.
LEMMA EditsStayStep ==
    ASSUME TypeInv, JobsKeep, Stands, EditsStay, Next
    PROVE  EditsStay'
<1> SUFFICES ASSUME NEW m \in made', m \notin raced' \cup waived' \cup swept'
             PROVE  m[1] \in user'[m[2]]
  BY Zenon DEF EditsStay, InFolder
<1>1. raced \subseteq raced' BY UserMoves, Zenon DEF Edit, Rename, notes
<1>2. m \notin raced /\ m \notin Gone BY <1>1, GoneGrows DEF Gone
<1>3. CASE m \in made
  <2>1. m[1] \in user[m[2]] BY <1>2, <1>3, Zenon DEF EditsStay, InFolder, Gone
  <2>2. m \in Marks BY <1>3, Zenon DEF TypeInv, FolderOK
  <2>3. m[2] \in Paths /\ m = <<m[1], m[2]>> BY <2>2 DEF Marks
  <2> QED BY <1>2, <2>1, <2>3, FolderLoses
<1>4. CASE m \notin made
  <2>1. \E p \in Paths, e \in Edits : Edit(p, e) /\ m = <<e, p>>
    BY <1>4, UserMoves, Zenon DEF Edit, Rename, notes
  <2>2. PICK p \in Paths, e \in Edits : Edit(p, e) /\ m = <<e, p>> BY <2>1
  <2> QED BY <2>2, Zenon DEF Edit, TypeInv, FolderOK, Trees
<1> QED BY <1>3, <1>4, Zenon

\* The invariant holds at the start,
LEMMA KeepInit == Init => KeepInv
<1> SUFFICES ASSUME Init PROVE KeepInv OBVIOUS
<1>1. \A j \in Jobs : /\ job[j].state = "none" /\ job[j].external = None /\ job[j].merged = None
                      /\ pin[j] = None /\ \A p \in Paths : files[j][p] = None
  BY Zenon DEF Init, NoJob, NoFiles
<1>2. integ.source = None /\ ops = {} /\ made = {} /\ w.at = "idle"
  BY Zenon DEF Init, NoMerge, NoWork
<1>3. QueueKeeps BY <1>1, Zenon DEF QueueKeeps
<1>4. JobsKeep BY <1>1, Zenon DEF JobsKeep, JobKeeps
<1>5. IntegKeeps /\ OpsKeep /\ EditsStay BY <1>2, Zenon DEF IntegKeeps, OpsKeep, EditsStay
<1>6. Stands BY <1>2, Zenon DEF Stands, Processing, Adopting, Merging, Cleared, Writing, Indexing
<1> QED BY <1>3, <1>4, <1>5, <1>6 DEF KeepInv

\* every step preserves it,
LEMMA KeepStep == TypeInv /\ KeepInv /\ Next => KeepInv'
<1> SUFFICES ASSUME TypeInv, KeepInv, Next PROVE KeepInv' OBVIOUS
<1>1. QueueKeeps /\ JobsKeep /\ IntegKeeps /\ OpsKeep /\ Stands /\ EditsStay BY DEF KeepInv
<1> QED
  BY <1>1, QueueStep, JobsKeepStep, IntegKeepsStep, OpsKeepStep, StandsStep, EditsStayStep
     DEF KeepInv

\* and so does a step that changes nothing.
LEMMA KeepStutter == KeepInv /\ UNCHANGED vars => KeepInv'
<1> SUFFICES ASSUME KeepInv, UNCHANGED vars PROVE KeepInv' OBVIOUS
<1>1. /\ user' = user /\ job' = job /\ pin' = pin /\ files' = files /\ integ' = integ
      /\ ops' = ops /\ w' = w /\ made' = made /\ raced' = raced /\ waived' = waived /\ swept' = swept
  BY Zenon DEF vars
<1>2. Live' = Live /\ FifoHead' = FifoHead /\ Gone' = Gone BY <1>1, Zenon DEF FifoHead, Live, Gone
<1>3. QueueKeeps' BY <1>1, Zenon DEF KeepInv, QueueKeeps
<1>4. JobsKeep' BY <1>1, <1>2, Zenon DEF KeepInv, JobsKeep, JobKeeps
<1>5. IntegKeeps' BY <1>1, <1>2, Zenon DEF KeepInv, IntegKeeps
<1>6. OpsKeep' BY <1>1, <1>2, Zenon DEF KeepInv, OpsKeep, OpKeeps
<1>7. Stands' BY <1>1, <1>2, Zenon DEF KeepInv, Stands
<1>8. EditsStay' BY <1>1, Zenon DEF KeepInv, EditsStay, InFolder
<1> QED BY <1>3, <1>4, <1>5, <1>6, <1>7, <1>8 DEF KeepInv

\* Along the whole way of an edit (capture, merge, conflict decision, merge commit,
\* manifest, writeback, revision) nothing of the user's is dropped that was not given up,
\* with any crashes, replays and failures in between.
THEOREM WorkIsKept == Spec => []KeepInv
<1>1. TypeInv /\ KeepInv /\ [Next]_vars => KeepInv' BY KeepStep, KeepStutter
<1> QED BY <1>1, KeepInit, TypeCorrect, PTL DEF Spec

\* An edit the user made stays in its file, unless the user's decision on a conflict gave
\* it up, a revision wrote over it in a file that was not written to the end, or it was
\* saved between the last check of the writeback and its rename.
THEOREM EditsStayHolds == Spec => []EditsStay
<1>1. KeepInv => EditsStay BY DEF KeepInv
<1> QED BY <1>1, WorkIsKept, PTL
=============================================================================
