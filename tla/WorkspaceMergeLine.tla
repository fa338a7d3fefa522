------------------------- MODULE WorkspaceMergeLine -------------------------
(***************************************************************************)
(* Proofs about WorkspaceMerge: one line of commits.  What is delivered is *)
(* never left behind: the commits of the job at the head of the queue      *)
(* descend from the delivered ref, the refs hold only sources whose jobs   *)
(* have a merge commit, and a revision, a cancellation or an import moves  *)
(* the refs along that line or back on it (LineInv).                       *)
(*                                                                         *)
(* The ancestry is followed by the sources in it (srcs).  Two refs and the *)
(* rows of the job and the operation are written one after the other, so   *)
(* WorkLine says where they stand at each step between.  A cancellation    *)
(* that is left unfinished, and found again once other jobs have been      *)
(* delivered, would take the refs back behind them; Settled, which the     *)
(* theorems assume, says that none is left when the lock is free.          *)
(***************************************************************************)
EXTENDS WorkspaceMergeProofs

-----------------------------------------------------------------------------
(* The inductive invariant. *)

\* The latest commit a job has put on top of what was delivered.
Top(j) ==
    IF job[j].merged # None THEN job[j].merged
    ELSE IF job[j].external # None THEN job[j].external ELSE intent[j].target
\* A job that is not over and has taken the user's edits, or is about to.
Taken(j) == j \in Live /\ (job[j].external # None \/ intent[j] # None)
\* A merge commit of a job: on top of its external commit, and the source is in it unless
\* there was nothing to merge.
Builds(j, c) ==
    /\ job[j].external.srcs \subseteq c.srcs /\ c.srcs \subseteq delivered.srcs \cup {j}
    /\ j \in c.srcs \/ c.tree = job[j].external.tree
\* The writeback of a job has rows.
Rows(j) == \E p \in Paths : files[j][p] # None

\* The sources in the commits of a job: at most those delivered and its own, and its own
\* only from its merge commit on.  A job that has taken the user's edits is the head of the
\* queue, and its latest commit descends from what is delivered.
JobLine(j) ==
    /\ job[j].state # "none" =>
          /\ job[j].source.srcs \subseteq delivered.srcs \cup {j}
          /\ j \in job[j].source.srcs \/ job[j].source.tree = job[j].base.tree
          /\ \A p \in Paths : job[j].source.tree[p] \ job[j].base.tree[p] \subseteq {j}
    /\ intent[j] # None =>
          /\ intent[j].before.srcs = intent[j].target.srcs
          /\ intent[j].target.srcs \subseteq delivered.srcs /\ j \notin intent[j].target.srcs
    /\ job[j].external # None =>
          job[j].external.srcs \subseteq delivered.srcs /\ j \notin job[j].external.srcs
    /\ job[j].merged # None => Builds(j, job[j].merged)
    /\ job[j].merged = None /\ pin[j] # None => Builds(j, pin[j])
    /\ Rows(j) \/ (job[j].state = "conflicted" /\ job[j].merged # None) => j \in job[j].merged.srcs
    /\ Taken(j) => j = FifoHead /\ delivered.srcs \subseteq Top(j).srcs
JobsLine == \A j \in Jobs : JobLine(j)
\* A job whose source is in its merge commit, which no later step takes away.
Placed(i) == job[i].merged # None /\ i \in job[i].merged.srcs
\* The refs hold placed sources only, main at most the head's beyond those delivered.
RefsLine ==
    /\ \A i \in delivered.srcs \cup main.srcs : Placed(i)
    /\ main.srcs \subseteq delivered.srcs \cup {FifoHead}
\* The commits of an operation row against those of its job and the delivered ref: an
\* import and a revision add no source, a cancellation goes back to what is delivered.
OpLine(o) ==
    /\ o.kind = "resolve_index" => o.job \in job[o.job].source.srcs
    /\ o.kind = "writeback_revision" =>
          /\ o.job \in o.target.srcs /\ o.before.srcs = o.target.srcs
          /\ job[o.job].merged.srcs = o.target.srcs /\ job[o.job].external.srcs = o.external.srcs
    /\ o.kind = "external" => o.before.srcs = o.target.srcs
    /\ o.kind = "merge_cancel" =>
          /\ delivered.srcs \subseteq o.target.srcs
          /\ \/ o.target.srcs \subseteq delivered.srcs
             \/ job[o.job].merged # None /\ o.target.srcs \subseteq job[o.job].merged.srcs
OpsLine == \A o \in ops : OpLine(o)
\* One cancellation at a time, and whoever holds the lock is at it.
Due(o) == w.at \in {"boot", "validate"} \/ o \in w.todo \/ (w.at \in Cancelling /\ w.op = o)
CancelLine ==
    /\ \A o \in ops : o.kind = "merge_cancel" => Due(o)
    /\ \A o, d \in ops : o.kind = "merge_cancel" /\ d.kind = "merge_cancel" => o = d
\* The merge in the integration worktree is of the head's source, and without that source
\* in its ancestry it is the external commit unchanged.
IntegLine ==
    /\ integ.source = None => integ.conflicts = {}
    /\ integ.source # None => FifoHead # None /\ integ.source = job[FifoHead].source
    /\ integ.source # None /\ FifoHead \notin integ.source.srcs /\ job[FifoHead].merged = None =>
          integ.conflicts = {} /\ integ.tree = job[FifoHead].external.tree
\* Where the refs are at the steps that move them one after the other.
WorkLine ==
    /\ w.at \in {"saveDelivered", "finish"} => job[w.job].merged.srcs \subseteq delivered.srcs
    /\ w.at = "reviseDelivered" => w.job \in main.srcs
    /\ w.at \in {"reviseJob", "reviseRow", "cancelDelivered", "cancelRow"} => w.job = FifoHead
    /\ w.at = "cancelDelivered" => main.srcs = w.op.target.srcs
    /\ w.at = "cancelRow" => main.srcs = delivered.srcs
    /\ w.at = "cancelJob" => FifoHead # w.job \/ main.srcs = delivered.srcs
    /\ w.at \in {"importMain", "importDelivered"} => delivered.srcs = w.op.before.srcs
LineInv == JobsLine /\ RefsLine /\ OpsLine /\ CancelLine /\ IntegLine /\ WorkLine

-----------------------------------------------------------------------------
(* What a step does to the worker, the commits of a job and the queue. *)

\* The positions of the writeback and of the operations that other positions lead to.
Reached == Writing \cup {"deliver", "saveDelivered", "finish", "reviseDelivered", "reviseJob", "reviseRow",
                         "cancelDelivered", "cancelRow", "cancelJob", "importMain", "importDelivered"}
Arrival ==
    /\ w'.at = "file" => StartWriting \/ ApplyFile \/ Observe
    /\ w'.at = "recheck" => ApplyFile
    /\ w'.at = "rename" => Recheck
    /\ w'.at = "observe" => Rename
    /\ w'.at = "deliver" => Verify
    /\ w'.at = "saveDelivered" => Deliver
    /\ w'.at = "finish" => SaveDelivered
    /\ w'.at = "reviseDelivered" => ReviseMain
    /\ w'.at = "reviseJob" => ReviseDelivered
    /\ w'.at = "reviseRow" => ReviseJob
    /\ w'.at = "cancelDelivered" => CancelMain
    /\ w'.at = "cancelRow" => CancelDelivered
    /\ w'.at = "cancelJob" => CancelMain \/ CancelRow
    /\ w'.at = "importMain" => ImportExternal
    /\ w'.at = "importDelivered" => ImportMain
    /\ w'.at \in Reached \ {"importMain"} => w'.job = w.job
    /\ w'.at \in Reached \ (Writing \cup {"importMain"}) => w'.op = w.op

\* Each of them has one step, or a few, that lead there.
LEMMA Arrives ==
    ASSUME TypeInv, Next, w' # w
    PROVE  Arrival
<1>0. Processing \cap Resting = {} /\ Reached \cap Resting = {}
  BY DEF Reached, Writing, Resting, Processing
<1>1. ASSUME w'.at \notin Reached PROVE Arrival
  BY <1>1 DEF Arrival, Reached, Writing
<1>2. ASSUME Restful PROVE Arrival BY <1>0, <1>1, <1>2 DEF Restful
<1>3. ASSUME NEW s, Goes(s) PROVE w'.at = s /\ w'.job = w.job /\ w'.op = w.op
  BY <1>3 DEF Goes
<1>4. ASSUME TakesHead \/ Prepare \/ MoveMain \/ MoveDelivered \/ SaveExternal \/ AdoptExternal \/ Merge
             \/ CommitMerge \/ Advance \/ Reset \/ FinishJob
      PROVE  Arrival
  <2>1. Restful \/ w'.at \in {"advance", "prepare", "merge", "moveMain", "moveDelivered", "saveExternal",
                              "adoptExternal", "commit", "reset", "manifest"}
    BY <1>3, <1>4, ProcessGoes, Zenon DEF TakesHead
  <2> QED BY <1>1, <1>2, <2>1 DEF Reached, Writing
<1>5. ASSUME StartWriting \/ ApplyFile \/ Observe PROVE Arrival
  <2>1. Restful \/ (w'.at = "file" /\ w'.job = w.job) \/ (w'.at = "recheck" /\ w'.job = w.job /\ ApplyFile)
    BY <1>3, <1>5, FileGoes, Zenon DEF Starts, Passes
  <2> QED BY <1>2, <1>5, <2>1 DEF Arrival, Writing, Reached
<1>6. ASSUME Recheck \/ Rename \/ Verify \/ Deliver \/ SaveDelivered PROVE Arrival
  <2>1. Restful \/ (w'.job = w.job /\ w'.op = w.op)
    BY <1>3, <1>6, ProcessGoes, Zenon
  <2>2. \/ Restful \/ (w'.at = "rename" /\ Recheck) \/ (w'.at = "observe" /\ Rename)
        \/ (w'.at = "deliver" /\ Verify) \/ (w'.at = "saveDelivered" /\ Deliver)
        \/ (w'.at = "finish" /\ SaveDelivered)
    BY <1>3, <1>6, ProcessGoes, Zenon
  <2> QED BY <1>2, <2>1, <2>2 DEF Arrival
<1>7. ASSUME Process PROVE Arrival
  BY <1>2, <1>4, <1>5, <1>6, <1>7, HeadGoes, Zenon DEF Process
<1>8. ASSUME StageIndex \/ FinishIndex \/ ReviseRow \/ CancelJob \/ FinishCancel \/ ImportDelivered
             \/ ImportRow \/ RecoverImport \/ Validate
      PROVE  Arrival
  <2>1. Restful \/ w'.at \in {"staged", "cancelled", "importRow"}
    BY <1>3, <1>8, OperateGoes, RecoverGoes, Zenon
  <2> QED BY <1>1, <1>2, <2>1 DEF Reached, Writing
<1>9. ASSUME ReviseMain \/ ReviseDelivered \/ ReviseJob \/ CancelMain \/ CancelDelivered \/ CancelRow
             \/ ImportMain
      PROVE  Arrival
  <2>1. Restful \/ (w'.job = w.job /\ w'.op = w.op)
    BY <1>3, <1>9, OperateGoes, Zenon
  <2>2. \/ Restful \/ (w'.at = "reviseDelivered" /\ ReviseMain) \/ (w'.at = "reviseJob" /\ ReviseDelivered)
        \/ (w'.at = "reviseRow" /\ ReviseJob)
        \/ (w'.at \in {"cancelDelivered", "cancelJob"} /\ CancelMain)
        \/ (w'.at = "cancelRow" /\ CancelDelivered) \/ (w'.at = "cancelJob" /\ CancelRow)
        \/ (w'.at = "importDelivered" /\ ImportMain)
    BY <1>3, <1>9, OperateGoes, Zenon
  <2> QED BY <1>2, <2>1, <2>2 DEF Arrival
<1>10. ASSUME NEW op, NEW s \in Steps, Begin(s, op) PROVE w'.at = s
  BY <1>10, Going, Zenon DEF Takes
<1>11. {"index", "reviseMain", "cancelMain", "importMain"} \subseteq Steps
  BY DEF Steps, Indexing, Revising, Cancelling, Importing
<1>12. ASSUME RecoverNext PROVE Arrival
  <2>1. Restful \/ w'.at \in {"index", "reviseMain", "cancelMain"}
    <3>1. CASE w.todo = {}
      <4>1. w.todo = {} /\ RecoverNext => Restful \/ \E op \in w.todo : TakesOp(op) BY RecoverGoes
      <4> QED BY <1>12, <3>1, <4>1
    <3>2. CASE w.todo # {}
      <4>1. \E op \in w.todo : EndOp(op) \/ Begin("index", op) \/ Begin("reviseMain", op) \/ Begin("cancelMain", op)
        BY <1>12, <3>2, Zenon DEF RecoverNext
      <4> QED BY <1>10, <1>11, <4>1, Going, Zenon
    <3> QED BY <3>1, <3>2
  <2> QED BY <1>1, <1>2, <2>1 DEF Reached, Writing
<1>13. ASSUME NEW j \in Jobs, Enqueue(j) \/ Decide(j) PROVE Arrival
  <2>1. CASE Enqueue(j) \/ AuditRefuses(j) BY <2>1, Zenon DEF Enqueue, AuditRefuses
  <2>2. CASE Retry(j) BY <1>2, <2>2, RecoverGoes, Zenon
  <2>3. CASE ResolveMerge(j) \/ ResolveWriteback(j) \/ ResolveAgain(j) \/ Cancel(j)
    <3>1. \E op : Begin("index", op) \/ Begin("reviseMain", op) \/ Begin("cancelMain", op)
      BY <2>3, Zenon DEF ResolveMerge, ResolveWriteback, ResolveAgain, Cancel
    <3>2. w'.at \in {"index", "reviseMain", "cancelMain"} BY <1>10, <1>11, <3>1, Zenon
    <3> QED BY <1>1, <3>2 DEF Reached, Writing
  <2> QED BY <1>13, <2>1, <2>2, <2>3, Zenon DEF Decide
<1>14. ASSUME Drain \/ Crash \/ Fault PROVE Arrival BY <1>2, <1>14, RecoverGoes, Zenon
<1>15. ASSUME ImportExternal PROVE Arrival
  <2>1. w'.at = "importMain" BY <1>10, <1>11, <1>15, Zenon DEF ImportExternal
  <2> QED BY <1>15, <2>1 DEF Arrival, Writing
<1>16. ASSUME NEW p \in Paths, NEW e \in Edits, Edit(p, e) PROVE Arrival BY <1>16, Zenon DEF Edit
<1> QED BY <1>7, <1>8, <1>9, <1>12, <1>13, <1>14, <1>15, <1>16, Zenon DEF Next, Operate

\* The commits of a job that has its merge commit: a revision replaces them, by commits of
\* the same jobs.
Revisits(i) ==
    /\ ReviseJob /\ i = w.job /\ w.op \in ops /\ w.op.kind = "writeback_revision" /\ w.op.job = i
    /\ job'[i].merged = w.op.target /\ job'[i].external = w.op.external
LEMMA MergedStays ==
    ASSUME TypeInv, KeepInv, OpsLine, Next, NEW i \in Jobs, job[i].merged # None
    PROVE  /\ \/ job'[i].merged = job[i].merged /\ job'[i].external = job[i].external
              \/ Revisits(i)
           /\ job'[i].merged # None /\ job'[i].merged.srcs = job[i].merged.srcs
           /\ job'[i].external.srcs = job[i].external.srcs
<1>0. Stands /\ JobsKeep /\ OpsKeep /\ JobStep(i) BY JobsMove DEF KeepInv
<1>1. job[i].external # None BY DEF TypeInv, JobsOK, JobOK
<1>2. CASE job'[i].merged = job[i].merged /\ job'[i].external = job[i].external BY <1>2
<1>3. CASE ~(job'[i].merged = job[i].merged /\ job'[i].external = job[i].external)
  <2>1. i = w.job /\ (Merge \/ AdoptExternal \/ ReviseJob) BY <1>0, <1>3, Zenon DEF JobStep
  <2>2. ReviseJob BY <1>0, <1>1, <2>1, Merges, Adopts, Zenon
  <2>3. job'[i].merged = w.op.target /\ job'[i].external = w.op.external
    BY <1>0, <1>3, <2>1, <2>2, Revises
  <2>4. w.op \in ops /\ w.op.kind = "writeback_revision" /\ w.op.job = i
    BY <2>1, <2>2, Zenon DEF ReviseJob, At, TypeInv, Place, Revising
  <2>5. w.op.target \in Good BY <2>2, ReviseWrites
  <2>6. w.op.target # None BY <2>5, GoodFields
  <2>7. OpLine(w.op) BY <2>4 DEF OpsLine
  <2> QED BY <2>1, <2>2, <2>3, <2>4, <2>6, <2>7 DEF Revisits, OpLine
<1> QED BY <1>2, <1>3

\* The intent and the pin of a job are written once.
LEMMA Pinned ==
    ASSUME TypeInv, KeepInv, Next, NEW j \in Jobs
    PROVE  /\ intent'[j] # intent[j] =>
                /\ Prepare /\ j = w.job /\ intent[j] = None /\ job[j].external = None
                /\ intent'[j] = [before |-> delivered, target |-> Capture(delivered, j)]
           /\ pin'[j] # pin[j] /\ job'[j].merged = None =>
                /\ CommitMerge /\ j = w.job /\ w.at = "commit" /\ job'[j].external = job[j].external
                /\ pin'[j] = Commit(integ.tree, {job[j].external, job[j].source}, j)
<1>0. Stands BY DEF KeepInv
<1>1. ASSUME intent'[j] # intent[j]
      PROVE  /\ Prepare /\ j = w.job /\ intent[j] = None /\ job[j].external = None
             /\ intent'[j] = [before |-> delivered, target |-> Capture(delivered, j)]
  <2>1. Prepare BY <1>1, PinMoves, Zenon DEF Merge, CommitMerge
  <2>2. w.job \in Jobs /\ intent \in [Jobs -> {None} \cup IntentRows] /\ job[w.job].external = None
    BY <1>0, <2>1 DEF Prepare, At, TypeInv, Place, Processing, JobsOK, Stands
  <2>3. /\ intent[w.job] = None
        /\ intent' = [intent EXCEPT ![w.job] = [before |-> delivered, target |-> Capture(delivered, w.job)]]
    BY <1>1, <2>1, Zenon DEF Prepare
  <2>4. j = w.job BY <1>1, <2>2, <2>3
  <2> QED BY <2>1, <2>2, <2>3, <2>4
<1>2. ASSUME pin'[j] # pin[j], job'[j].merged = None
      PROVE  /\ CommitMerge /\ j = w.job /\ w.at = "commit" /\ job'[j].external = job[j].external
             /\ pin'[j] = Commit(integ.tree, {job[j].external, job[j].source}, j)
  <2>0. pin \in [Jobs -> Maybe] /\ job \in [Jobs -> JobRows] BY DEF TypeInv, JobsOK
  <2>1. Merge \/ CommitMerge BY <1>2, PinMoves, Zenon DEF Prepare
  <2>2. ~Merge
    <3> SUFFICES ASSUME Merge PROVE FALSE OBVIOUS
    <3>1. /\ job' = [job EXCEPT ![w.job].state = "merging", ![w.job].merged = job[w.job].external]
          /\ pin' = [pin EXCEPT ![w.job] = job[w.job].external]
      BY <1>2, Zenon DEF Merge
    <3>2. j = w.job BY <1>2, <2>0, <3>1
    <3>3. job[w.job].external # None BY Zenon DEF Merge, At, TypeInv, Place, Merging
    <3>4. job'[j].merged = job[j].external BY <2>0, <3>1, <3>2 DEF JobRows
    <3> QED BY <1>2, <3>2, <3>3, <3>4
  <2>3. /\ pin' = [pin EXCEPT ![w.job] = Commit(integ.tree, {job[w.job].external, job[w.job].source}, w.job)]
        /\ job' = job /\ w.at = "commit"
    BY <1>2, <2>1, <2>2, Zenon DEF CommitMerge, At
  <2>4. j = w.job BY <1>2, <2>0, <2>3
  <2>5. pin'[j] = Commit(integ.tree, {job[j].external, job[j].source}, j) BY <2>0, <2>3, <2>4
  <2> QED BY <2>1, <2>2, <2>3, <2>4, <2>5
<1> QED BY <1>1, <1>2

\* The queue: a job comes in when it is queued and goes when it is over.
LEMMA LiveMoves ==
    ASSUME TypeInv, KeepInv, WorkLine, Next, NEW i \in Jobs
    PROVE  /\ i \in Live' /\ i \notin Live => Enqueue(i) /\ job[i].state = "none" /\ job'[i].state = "queued"
           /\ i \in Live /\ i \notin Live' => i = w.job /\ (FinishJob \/ CancelJob)
<1>0. Stands /\ JobStep(i) BY JobsMove DEF KeepInv
<1>1. ASSUME i \in Live', i \notin Live
      PROVE  Enqueue(i) /\ job[i].state = "none" /\ job'[i].state = "queued"
  <2>1. job[i].state \notin Ended
    <3> SUFFICES ASSUME job[i].state \in Ended PROVE FALSE OBVIOUS
    <3>1. i = w.job /\ w.at = "reviseJob" BY <1>0, <1>1, OverStays DEF Live
    <3>2. i = FifoHead BY <3>1 DEF WorkLine
    <3>3. FifoHead # None BY <3>2, MergeAssumption
    <3> QED BY <1>1, <3>2, <3>3, HeadIsLive
  <2>2. job[i].state = "none" /\ job'[i] # job[i] BY <1>1, <2>1 DEF Live
  <2> QED BY <1>0, <2>2 DEF JobStep
<1>2. ASSUME i \in Live, i \notin Live' PROVE i = w.job /\ (FinishJob \/ CancelJob)
  <2>1. job[i].state \notin Ended \cup {"none"} BY <1>2 DEF Live
  <2>2. job'[i].state \in Ended BY <1>0, <1>2, <2>1 DEF Live, JobStep
  <2>3. FinishJob \/ CancelJob BY <1>0, <2>1, <2>2 DEF JobStep
  <2>4. ~Enqueue(i) BY <2>1 DEF Enqueue
  <2> QED BY <1>0, <2>1, <2>2, <2>3, <2>4 DEF JobStep
<1> QED BY <1>1, <1>2

\* The head of the queue stays until it is over.
LEMMA HeadMoves ==
    ASSUME TypeInv, KeepInv, WorkLine, Next
    PROVE  /\ FifoHead \in Live' => FifoHead' = FifoHead
           /\ FifoHead # None /\ FifoHead \notin Live' => FifoHead = w.job /\ (FinishJob \/ CancelJob)
<1>1. ASSUME FifoHead \in Live' PROVE FifoHead' = FifoHead
  <2>1. FifoHead \in Jobs /\ Live' \in SUBSET Jobs BY <1>1 DEF Live
  <2>2. FifoHead \in Live /\ \A j \in Live : FifoHead <= j
    BY <2>1, HeadIsLive, MergeAssumption, Zenon
  <2>3. ASSUME NEW i \in Live' PROVE FifoHead <= i
    <3>1. i \in Jobs BY <2>1
    <3>2. CASE i \in Live BY <2>2, <3>2
    <3>3. CASE i \notin Live
      <4>1. job[i].state = "none" BY <3>1, <3>3, LiveMoves
      <4>2. ~(i < FifoHead) BY <2>1, <2>2, <3>1, <4>1 DEF KeepInv, QueueKeeps, Live
      <4>3. i \in Int /\ FifoHead \in Int BY <2>1, <3>1, MergeAssumption, Zenon
      <4> QED BY <4>2, <4>3
    <3> QED BY <3>2, <3>3
  <2>4. Live' # {} /\ First(Live') = FifoHead
    <3> DEFINE L == Live'
               h == FifoHead
    <3>1. L \in SUBSET Jobs /\ h \in L /\ \A i \in L : h <= i BY <1>1, <2>1, <2>3
    <3> HIDE DEF L, h
    <3>2. L # {} /\ First(L) = h BY <3>1, HeadOf
    <3> QED BY <3>2 DEF L, h
  <2> QED BY <2>4 DEF FifoHead
<1>2. ASSUME FifoHead # None, FifoHead \notin Live'
      PROVE  FifoHead = w.job /\ (FinishJob \/ CancelJob)
  <2>1. FifoHead \in Live BY <1>2, HeadIsLive
  <2> QED BY <1>2, <2>1, LiveMoves DEF Live
<1> QED BY <1>1, <1>2

\* The delivered ref never loses a job: it takes in the job that is delivered or cancelled.
LEMMA DeliveredSteps ==
    ASSUME TypeInv, KeepInv, LineInv, Next
    PROVE  /\ delivered.srcs \subseteq delivered'.srcs
           /\ \/ delivered'.srcs = delivered.srcs
              \/ /\ Deliver /\ w.at = "deliver" /\ w.job \in Jobs /\ w.job = FifoHead
                 /\ job[w.job].merged # None /\ delivered' = job[w.job].merged
              \/ /\ CancelDelivered /\ w.at = "cancelDelivered" /\ w.job = FifoHead /\ w.job = w.op.job
                 /\ w.op \in ops /\ w.op.kind = "merge_cancel" /\ delivered' = w.op.target
<1>0. Stands /\ JobsLine /\ OpsLine /\ WorkLine BY DEF KeepInv, LineInv
<1>1. CASE UNCHANGED delivered BY <1>1
<1>2. CASE MoveDelivered
  <2>1. w.job \in Jobs /\ intent[w.job] # None
    BY <1>2, Zenon DEF MoveDelivered, At, TypeInv, Place, Processing, Adopting
  <2>2. intent[w.job].before.srcs = intent[w.job].target.srcs
    BY <1>0, <2>1, Zenon DEF JobsLine, JobLine
  <2>3. \/ delivered' = delivered
        \/ delivered \in {intent[w.job].before, intent[w.job].target} /\ delivered' = intent[w.job].target
    BY <1>2, Zenon DEF MoveDelivered
  <2> QED BY <2>2, <2>3
<1>3. CASE Deliver
  <2>1. w.at \in Processing /\ w.at = "deliver" BY <1>3 DEF Deliver, At, Processing
  <2>2. w.job \in Jobs /\ w.job \in Live /\ w.job = FifoHead BY <1>0, <2>1, AtWork DEF Stands
  <2>3. job[w.job].merged # None /\ job[w.job].external # None
    BY <2>1, <2>2, Zenon DEF TypeInv, Place, Merged, JobsOK, JobOK
  <2>4. Taken(w.job) /\ Top(w.job) = job[w.job].merged BY <2>2, <2>3 DEF Taken, Top
  <2>5. delivered.srcs \subseteq job[w.job].merged.srcs BY <1>0, <2>2, <2>4 DEF JobsLine, JobLine
  <2>6. delivered' = delivered \/ delivered' = job[w.job].merged BY <1>3, Zenon DEF Deliver
  <2> QED BY <1>3, <2>1, <2>2, <2>3, <2>5, <2>6
<1>4. CASE ReviseDelivered
  <2>1. w.op \in ops /\ w.op.kind = "writeback_revision" /\ w.job = w.op.job
    BY <1>4, Zenon DEF ReviseDelivered, At, TypeInv, Place, Revising
  <2>2. job[w.job].external.srcs = w.op.external.srcs BY <1>0, <2>1, Zenon DEF OpsLine, OpLine
  <2>3. \/ delivered' = delivered
        \/ delivered \in {job[w.job].external, w.op.external} /\ delivered' = w.op.external
    BY <1>4, Zenon DEF ReviseDelivered
  <2> QED BY <2>2, <2>3
<1>5. CASE CancelDelivered
  <2>1. w.op \in ops /\ w.op.kind = "merge_cancel" /\ w.job = w.op.job /\ w.at = "cancelDelivered"
    BY <1>5, Zenon DEF CancelDelivered, At, TypeInv, Place, Cancelling
  <2>2. delivered.srcs \subseteq w.op.target.srcs BY <1>0, <2>1 DEF OpsLine, OpLine
  <2>3. delivered' = w.op.target /\ w.job = FifoHead
    BY <1>0, <1>5, <2>1, Zenon DEF CancelDelivered, WorkLine
  <2> QED BY <1>5, <2>1, <2>2, <2>3
<1>6. CASE ImportDelivered
  <2>1. w.op \in ops /\ w.op.kind = "external" /\ delivered.srcs = w.op.before.srcs
    BY <1>0, <1>6, Zenon DEF ImportDelivered, At, TypeInv, Place, Importing, WorkLine
  <2>2. w.op.before.srcs = w.op.target.srcs BY <1>0, <2>1, Zenon DEF OpsLine, OpLine
  <2> QED BY <1>6, <2>1, <2>2 DEF ImportDelivered
<1>7. CASE RecoverImport
  <2>1. \/ delivered' = delivered
        \/ \E op \in ops : /\ op.kind = "external" /\ delivered' = op.target
                           /\ delivered \in {op.before, op.target}
    BY <1>7, Zenon DEF RecoverImport, refs
  <2>2. \A op \in ops : op.kind = "external" => op.before.srcs = op.target.srcs
    BY <1>0 DEF OpsLine, OpLine
  <2> QED BY <2>1, <2>2
<1> QED BY <1>1, <1>2, <1>3, <1>4, <1>5, <1>6, <1>7, DeliveredMoves, Zenon

\* main takes in the head of the queue.
LEMMA MainSteps ==
    ASSUME TypeInv, KeepInv, LineInv, Next
    PROVE  \/ main'.srcs = main.srcs
           \/ /\ w.at = "advance" /\ w.job \in Jobs /\ w.job = FifoHead
              /\ job[w.job].merged # None /\ main' = job[w.job].merged
           \/ /\ CancelMain /\ w.job = FifoHead /\ w.job = w.op.job
              /\ w.op \in ops /\ w.op.kind = "merge_cancel" /\ main' = w.op.target
<1>0. Stands /\ JobsLine /\ OpsLine /\ WorkLine BY DEF KeepInv, LineInv
<1>1. CASE UNCHANGED main BY <1>1, Zenon
<1>2. CASE MoveMain
  <2>1. w.job \in Jobs /\ intent[w.job] # None
    BY <1>2, Zenon DEF MoveMain, At, TypeInv, Place, Processing, Adopting
  <2>2. intent[w.job].before.srcs = intent[w.job].target.srcs
    BY <1>0, <2>1, Zenon DEF JobsLine, JobLine
  <2>3. \/ main' = main
        \/ main \in {intent[w.job].before, intent[w.job].target} /\ main' = intent[w.job].target
    BY <1>2, Zenon DEF MoveMain
  <2> QED BY <2>2, <2>3
<1>3. CASE Advance
  <2>1. w.at \in Processing /\ w.at = "advance" BY <1>3 DEF Advance, At, Processing
  <2>2. w.job \in Jobs /\ w.job = FifoHead /\ job[w.job].merged # None
    BY <1>0, <2>1, Zenon DEF Stands, TypeInv, Place, Merged
  <2>3. main' = main \/ main' = job[w.job].merged BY <1>3, Zenon DEF Advance
  <2> QED BY <2>1, <2>2, <2>3
<1>4. CASE ReviseMain
  <2>1. w.op \in ops /\ w.op.kind = "writeback_revision"
    BY <1>4, Zenon DEF ReviseMain, At, TypeInv, Place, Revising
  <2>2. w.op.before.srcs = w.op.target.srcs BY <1>0, <2>1, Zenon DEF OpsLine, OpLine
  <2>3. main' = main \/ (main \in {w.op.before, w.op.target} /\ main' = w.op.target)
    BY <1>4, Zenon DEF ReviseMain
  <2> QED BY <2>2, <2>3
<1>5. CASE CancelMain
  <2>1. w.op \in ops /\ w.op.kind = "merge_cancel" /\ w.job = w.op.job
    BY <1>5, Zenon DEF CancelMain, At, TypeInv, Place, Cancelling
  <2>2. main' = main \/ (main' = w.op.target /\ w.job = FifoHead) BY <1>5, Zenon DEF CancelMain
  <2> QED BY <1>5, <2>1, <2>2, Zenon
<1>6. CASE ImportMain
  <2>1. w.op \in ops /\ w.op.kind = "external"
    BY <1>6, Zenon DEF ImportMain, At, TypeInv, Place, Importing
  <2>2. w.op.before.srcs = w.op.target.srcs BY <1>0, <2>1, Zenon DEF OpsLine, OpLine
  <2>3. main' = main \/ (main = w.op.before /\ main' = w.op.target) BY <1>6, Zenon DEF ImportMain
  <2> QED BY <2>2, <2>3
<1>7. CASE RecoverImport
  <2>1. \/ main' = main
        \/ \E op \in ops : op.kind = "external" /\ main' = op.target /\ main \in {op.before, op.target}
    BY <1>7, Zenon DEF RecoverImport, refs
  <2>2. \A op \in ops : op.kind = "external" => op.before.srcs = op.target.srcs
    BY <1>0 DEF OpsLine, OpLine
  <2> QED BY <2>1, <2>2
<1> QED BY <1>1, <1>2, <1>3, <1>4, <1>5, <1>6, <1>7, MainMoves, Zenon

\* The refs hold jobs with a merge commit; what main has and the delivered ref has not is
\* the head of the queue.
LEMMA RefsLineStep ==
    ASSUME TypeInv, KeepInv, LineInv, Next
    PROVE  RefsLine'
\* A merge commit holds its own job and jobs that were delivered.
<1>MergedIn.
    ASSUME JobsLine, RefsLine, NEW j \in Jobs, job[j].merged # None, NEW i \in job[j].merged.srcs
    PROVE  Placed(i) /\ (i \in delivered.srcs \/ i = j)
  <2>1. i \in delivered.srcs \/ i = j BY <1>MergedIn, ZenonT(30) DEF JobsLine, JobLine, Builds
  <2> QED BY <1>MergedIn, <2>1, Zenon DEF RefsLine, Placed
\* So does the commit of a cancellation.
<1>CancelIn.
    ASSUME TypeInv, JobsLine, RefsLine, OpsLine, NEW o \in ops, o.kind = "merge_cancel", NEW i \in o.target.srcs
    PROVE  Placed(i) /\ (i \in delivered.srcs \/ i = o.job)
  <2>1. \/ o.target.srcs \subseteq delivered.srcs
        \/ job[o.job].merged # None /\ o.target.srcs \subseteq job[o.job].merged.srcs
    BY <1>CancelIn, Zenon DEF OpsLine, OpLine
  <2>2. o.job \in Jobs BY <1>CancelIn, Zenon DEF TypeInv, OpsOK, OpOK
  <2>3. CASE i \in delivered.srcs BY <1>CancelIn, <2>3, Zenon DEF RefsLine
  <2>4. CASE i \notin delivered.srcs BY <1>CancelIn, <2>1, <2>2, <2>4, <1>MergedIn, Zenon
  <2> QED BY <2>3, <2>4
\* A job that is in a merge commit stays so.
<1>PlacedStays.
    ASSUME TypeInv, KeepInv, OpsLine, Next, NEW i \in Jobs, Placed(i)
    PROVE  Placed(i)'
    BY <1>PlacedStays, MergedStays, Zenon DEF Placed
<1>0. JobsLine /\ RefsLine /\ OpsLine /\ WorkLine BY DEF LineInv
<1>1. delivered'.srcs \subseteq Jobs /\ main'.srcs \subseteq Jobs BY RefsTyped, GoodFields
<1>2. ASSUME NEW i \in delivered'.srcs PROVE Placed(i)
  <2>1. CASE delivered'.srcs = delivered.srcs BY <1>0, <1>2, <2>1 DEF RefsLine
  <2>2. CASE delivered'.srcs # delivered.srcs
    BY <1>0, <1>2, <2>2, DeliveredSteps, <1>MergedIn, <1>CancelIn, Zenon
  <2> QED BY <2>1, <2>2, Zenon
<1>3. ASSUME NEW i \in main'.srcs PROVE Placed(i) /\ (i \in delivered.srcs \/ i = FifoHead)
  <2>1. CASE main'.srcs = main.srcs BY <1>0, <1>3, <2>1 DEF RefsLine
  <2>2. CASE main'.srcs # main.srcs BY <1>0, <1>3, <2>2, MainSteps, <1>MergedIn, <1>CancelIn, Zenon
  <2> QED BY <2>1, <2>2
<1>4. ASSUME NEW i \in main'.srcs PROVE i \in delivered'.srcs \/ i = FifoHead'
  <2>1. CASE i \in delivered.srcs BY <2>1, DeliveredSteps
  <2>2. CASE i = FifoHead /\ i \in Live' BY <1>0, <2>2, HeadMoves
  <2>3. CASE i = FifoHead /\ i \notin Live' /\ i \notin delivered.srcs
    <3>1. i # None BY <1>1, <1>4, MergeAssumption
    <3>2. i = w.job /\ (FinishJob \/ CancelJob) BY <1>0, <2>3, <3>1, HeadMoves
    <3>3. ~FinishJob BY <1>0, <1>3, <1>4, <2>3, <3>2, Zenon DEF FinishJob, At, WorkLine, Placed
    <3>4. main' = main /\ w.at = "cancelJob" BY <3>2, <3>3, Zenon DEF CancelJob, At, refs
    <3>5. main.srcs = delivered.srcs BY <1>0, <2>3, <3>2, <3>4 DEF WorkLine
    <3> QED BY <1>4, <2>3, <3>4, <3>5
  <2> QED BY <1>3, <1>4, <2>1, <2>2, <2>3
<1>5. \A i \in delivered'.srcs \cup main'.srcs : Placed(i)'
  BY <1>0, <1>1, <1>2, <1>3, <1>PlacedStays
<1> QED BY <1>4, <1>5 DEF RefsLine

\* The external commit of a job without a merge commit stays too.
LEMMA ExternalStays ==
    ASSUME TypeInv, KeepInv, Next, NEW j \in Jobs, job[j].merged = None
    PROVE  /\ job[j].external # None => job'[j].external = job[j].external
           /\ job[j].external = None /\ job'[j].external # None =>
                /\ AdoptExternal /\ j = w.job /\ intent[j] # None /\ job'[j].merged = None
                /\ job'[j].external = intent[j].target /\ job'[j].state = "merging"
           /\ job'[j].merged # None =>
                /\ Merge /\ j = w.job /\ job[j].external # None /\ job'[j].state = "merging"
                /\ job'[j].merged = IF pin[j] # None THEN pin[j] ELSE job[j].external
                /\ pin[j] = None => IsAncestor(job[j].source, job[j].external)
<1>0. Stands /\ JobsKeep /\ JobStep(j) /\ job \in [Jobs -> JobRows]
  BY JobsMove, Zenon DEF KeepInv, TypeInv, JobsOK
<1>1. ~(j = w.job /\ ReviseJob) BY ReviseKnown DEF ReviseJob, At, Revising
<1>2. ASSUME job[j].external # None PROVE job'[j].external = job[j].external
  BY <1>0, <1>1, <1>2, Adopts, Zenon DEF JobStep
<1>3. ASSUME job[j].external = None, job'[j].external # None
      PROVE  /\ AdoptExternal /\ j = w.job /\ intent[j] # None /\ job'[j].merged = None
             /\ job'[j].external = intent[j].target /\ job'[j].state = "merging"
  <2>1. AdoptExternal /\ j = w.job /\ job'[j].state = "merging"
    BY <1>0, <1>1, <1>3, Zenon DEF JobStep
  <2>2. intent[j] # None BY <2>1, Zenon DEF AdoptExternal, At, TypeInv, Place, Adopting
  <2>3. job'[j] = [job[j] EXCEPT !.state = "merging", !.external = intent[j].target]
    BY <1>0, <2>1, AdoptWrites DEF Writes
  <2>4. job[j] \in JobRows BY <1>0
  <2>5. job'[j].external = intent[j].target /\ job'[j].merged = job[j].merged
    BY <2>3, <2>4 DEF JobRows
  <2> QED BY <2>1, <2>2, <2>5
<1>4. ASSUME job'[j].merged # None
      PROVE  /\ Merge /\ j = w.job /\ job[j].external # None /\ job'[j].state = "merging"
             /\ job'[j].merged = IF pin[j] # None THEN pin[j] ELSE job[j].external
             /\ pin[j] = None => IsAncestor(job[j].source, job[j].external)
  <2>1. Merge /\ j = w.job /\ job'[j].state = "merging" BY <1>0, <1>1, <1>4, Zenon DEF JobStep
  <2>2. job[j].external # None BY <2>1, Zenon DEF Merge, At, TypeInv, Place, Merging
  <2>3. CASE job' = [job EXCEPT ![j].state = "recovering"]
    BY <1>0, <1>4, <2>3 DEF JobRows
  <2>4. CASE \E c \in Good : /\ job' = [job EXCEPT ![j] = [job[j] EXCEPT !.state = "merging", !.merged = c]]
                             /\ c = IF pin[j] # None THEN pin[j] ELSE job[j].external
    <3>1. job'[j].merged = IF pin[j] # None THEN pin[j] ELSE job[j].external
      BY <1>0, <2>4 DEF JobRows
    <3>2. ASSUME pin[j] = None, ~IsAncestor(job[j].source, job[j].external) PROVE FALSE
      <4>1. job' = job \/ job' = [job EXCEPT ![j].state = "recovering"]
        BY <2>1, <3>2, Zenon DEF Merge, Throws
      <4> QED BY <1>0, <1>4, <4>1 DEF JobRows
    <3> QED BY <2>1, <2>2, <3>1, <3>2
  <2> QED BY <1>4, <2>1, <2>3, <2>4, MergeWrites, Zenon DEF Relabels
<1> QED BY <1>2, <1>3, <1>4, Zenon

\* What a job has put on top of what was delivered: the folder as it is, its merge, a
\* revision of it.
LEMMA TopMoves ==
    ASSUME TypeInv, KeepInv, LineInv, Next, NEW j \in Jobs, Taken(j)'
    PROVE  /\ j \in Live /\ j = FifoHead /\ j = FifoHead'
           /\ \/ Taken(j) /\ Top(j)' = Top(j)
              \/ Prepare /\ j = w.job /\ Top(j)' = Capture(delivered, j)
              \/ /\ Taken(j) /\ Merge /\ j = w.job /\ Top(j) = job[j].external
                 /\ job[j].merged = None /\ job'[j].merged # None /\ Top(j)' = job'[j].merged
              \/ Taken(j) /\ Revisits(j) /\ Top(j) = job[j].merged /\ Top(j)' = w.op.target
<1> DEFINE Moved ==
              \/ Taken(j) /\ Top(j)' = Top(j)
              \/ Prepare /\ j = w.job /\ Top(j)' = Capture(delivered, j)
              \/ /\ Taken(j) /\ Merge /\ j = w.job /\ Top(j) = job[j].external
                 /\ job[j].merged = None /\ job'[j].merged # None /\ Top(j)' = job'[j].merged
              \/ Taken(j) /\ Revisits(j) /\ Top(j) = job[j].merged /\ Top(j)' = w.op.target
<1>0. Stands /\ JobsLine /\ OpsLine /\ WorkLine BY DEF KeepInv, LineInv
<1>1. j \in Live' /\ (job'[j].external # None \/ intent'[j] # None) BY DEF Taken
<1>2. j \in Live
  <2> SUFFICES ASSUME j \notin Live PROVE FALSE OBVIOUS
  <2>1. job[j].state = "none" /\ job'[j].state = "queued" BY <1>0, <1>1, LiveMoves, Zenon
  <2>2. job[j].external = None /\ job[j].merged = None /\ intent[j] = None
    BY <2>1 DEF TypeInv, JobsOK, JobOK, NoJob
  <2>3. job'[j].external = None BY <2>1, <2>2, ExternalStays, Zenon
  <2>4. Prepare /\ j = w.job BY <1>1, <2>2, <2>3, Pinned, Zenon
  <2> QED BY <2>1, <2>4, Zenon DEF Prepare, At, TypeInv, Place, Processing
<1>3. ASSUME job[j].merged # None PROVE Moved
  <2>1. job[j].external # None BY <1>3, Zenon DEF TypeInv, JobsOK, JobOK
  <2>2. Taken(j) /\ Top(j) = job[j].merged BY <1>2, <1>3, <2>1 DEF Taken, Top
  <2>3. job'[j].merged # None /\ (job'[j].merged = job[j].merged \/ Revisits(j))
    BY <1>0, <1>3, MergedStays
  <2>4. Top(j)' = job'[j].merged BY <2>3 DEF Top
  <2> QED BY <2>2, <2>3, <2>4, Zenon DEF Revisits
<1>4. ASSUME job[j].merged = None, job'[j].merged # None PROVE Moved
  <2>1. Merge /\ j = w.job /\ job[j].external # None BY <1>4, ExternalStays, Zenon
  <2> QED BY <1>2, <1>4, <2>1, Zenon DEF Taken, Top
<1>5. ASSUME job[j].merged = None, job'[j].merged = None, job[j].external # None PROVE Moved
  BY <1>2, <1>5, ExternalStays, Zenon DEF Taken, Top
<1>6. ASSUME job[j].merged = None, job'[j].merged = None, job[j].external = None PROVE Moved
  <2>1. CASE job'[j].external # None
    <3>1. intent[j] # None /\ job'[j].external = intent[j].target
      BY <1>6, <2>1, ExternalStays, Zenon
    <3> QED BY <1>2, <1>6, <2>1, <3>1, Zenon DEF Taken, Top
  <2>2. CASE job'[j].external = None /\ intent'[j] = intent[j]
    BY <1>1, <1>2, <1>6, <2>2, Zenon DEF Taken, Top
  <2>3. CASE job'[j].external = None /\ intent'[j] # intent[j]
    <3> DEFINE c == Capture(delivered, j)
    <3>1. Prepare /\ j = w.job /\ intent'[j] = [before |-> delivered, target |-> c]
      BY <2>3, Pinned, Zenon
    <3> HIDE DEF c
    <3>2. Top(j)' = c BY <1>6, <2>3, <3>1 DEF Top
    <3> QED BY <3>1, <3>2, Zenon DEF c
  <2> QED BY <2>1, <2>2, <2>3, Zenon
<1>7. j = FifoHead
  <2>1. CASE Taken(j) BY <1>0, <2>1, Zenon DEF JobsLine, JobLine
  <2>2. CASE Prepare /\ j = w.job BY <1>0, <2>2 DEF Prepare, At, Stands, Processing
  <2> QED BY <1>3, <1>4, <1>5, <1>6, <2>1, <2>2, Zenon
<1>8. j = FifoHead' BY <1>0, <1>1, <1>7, HeadMoves
<1> QED BY <1>2, <1>3, <1>4, <1>5, <1>6, <1>7, <1>8, Zenon

\* A job becomes conflicted by its merge, or by a file of its manifest.
LEMMA Conflicts ==
    ASSUME TypeInv, KeepInv, Next, NEW j \in Jobs,
           job'[j].state = "conflicted", job[j].state # "conflicted"
    PROVE  /\ j = w.job /\ job'[j].merged = job[j].merged
           /\ job[j].merged = None \/ (w.at \in Writing /\ Rows(j))
<1>0. Stands /\ JobStep(j) /\ job \in [Jobs -> JobRows]
  BY JobsMove, Zenon DEF KeepInv, TypeInv, JobsOK
<1>1. j = w.job /\ w.at \in Processing
  <2>1. ~Enqueue(j) BY <1>0, Zenon DEF Enqueue, JobStep
  <2>2. ~(j = w.job /\ w.at = "staged") BY <1>0, Zenon DEF Stands, Indexing
  <2> QED BY <1>0, <2>1, <2>2, Zenon DEF JobStep
<1>2. job'[j].merged = job[j].merged
  BY <1>0, <1>1, Zenon DEF JobStep, Processing, ReviseJob, At
<1>3. ~(Prepare \/ MoveMain \/ MoveDelivered \/ AdoptExternal \/ Merge \/ Advance \/ StartWriting \/ Deliver
        \/ FinishJob \/ Fault)
  <2> SUFFICES ASSUME Prepare \/ MoveMain \/ MoveDelivered \/ AdoptExternal \/ Merge \/ Advance
                        \/ StartWriting \/ Deliver \/ FinishJob \/ Fault
               PROVE  FALSE
    OBVIOUS
  <2> DEFINE S == {"preparing", "recovering", "merging", "writing", "delivered"}
  <2>1. \/ UNCHANGED job
        \/ \E s \in S : job' = [job EXCEPT ![w.job].state = s]
        \/ \E s \in S : \E c : job' = [job EXCEPT ![w.job].state = s, ![w.job].external = c]
        \/ \E s \in S : \E c : job' = [job EXCEPT ![w.job].state = s, ![w.job].merged = c]
    BY Zenon DEF Prepare, MoveMain, MoveDelivered, AdoptExternal, Merge, Advance, StartWriting,
       Deliver,
       FinishJob, Fault, Throws
  <2>2. "conflicted" \notin S OBVIOUS
  <2> HIDE DEF S
  <2>3. ASSUME NEW s \in S, job' = [job EXCEPT ![w.job].state = s] PROVE job'[j].state = s
    BY <1>0, <1>1, <2>3 DEF JobRows
  <2>4. ASSUME NEW s \in S, NEW c, job' = [job EXCEPT ![w.job].state = s, ![w.job].external = c]
        PROVE  job'[j].state = s
    BY <1>0, <1>1, <2>4 DEF JobRows
  <2>5. ASSUME NEW s \in S, NEW c, job' = [job EXCEPT ![w.job].state = s, ![w.job].merged = c]
        PROVE  job'[j].state = s
    BY <1>0, <1>1, <2>5 DEF JobRows
  <2> QED BY <2>1, <2>2, <2>3, <2>4, <2>5, Zenon
<1>4. w.at \notin {"staged", "reviseJob", "cancelJob"} BY <1>1 DEF Processing
<1>5. CommitMerge \/ ApplyFile \/ Recheck \/ Observe \/ Verify
  <2>1. ~(FinishIndex \/ ReviseJob \/ CancelJob) BY <1>4 DEF FinishIndex, ReviseJob, CancelJob, At
  <2>2. ~(\E i \in Jobs : Enqueue(i))
    <3> SUFFICES ASSUME NEW i \in Jobs, Enqueue(i) PROVE FALSE OBVIOUS
    <3>1. w' = w /\ (i = j \/ job'[j] = job[j]) BY <1>0 DEF Enqueue
    <3>2. i = j BY <3>1
    <3> QED BY <1>0, <3>2, Zenon DEF JobStep, Enqueue
  <2> QED BY <1>3, <2>1, <2>2, JobMoves
<1>6. CASE CommitMerge BY <1>0, <1>1, <1>2, <1>6 DEF CommitMerge, At, Stands, Merging
<1>7. CASE ApplyFile \/ Recheck \/ Observe
  <2>1. w.at \in Writing /\ w.left # {} /\ w.left \subseteq Paths /\ \A p \in w.left : files[w.job][p] # None
    BY <1>7, Zenon DEF ApplyFile, Recheck, Observe, At, TypeInv, WorkOK, Place, Writing
  <2> QED BY <1>1, <1>2, <2>1, Zenon DEF Rows
<1>8. CASE Verify
  <2>1. w.at \in Writing BY <1>8 DEF Verify, At, Writing
  <2>2. \/ UNCHANGED job
        \/ {p \in Paths : files[w.job][p] # None /\ user[p] # files[w.job][p].after} # {}
    BY <1>8, Zenon DEF Verify
  <2> QED BY <1>1, <1>2, <2>1, <2>2 DEF Rows
<1> QED BY <1>5, <1>6, <1>7, <1>8, Zenon

\* The steps that build a commit of a job.
LEMMA BuildsStep ==
    ASSUME TypeInv, KeepInv, LineInv, Next, NEW j \in Jobs
    PROVE  /\ job'[j].merged # None => Builds(j, job[j].merged)'
           /\ job'[j].merged = None /\ pin'[j] # None => Builds(j, pin[j])'
<1>0. JobLine(j) /\ OpsLine /\ IntegLine /\ Stands BY DEF LineInv, JobsLine, KeepInv
<1>1. delivered.srcs \subseteq delivered'.srcs BY DeliveredSteps
<1>2. ASSUME job'[j].merged # None PROVE Builds(j, job[j].merged)'
  <2>1. CASE job[j].merged # None /\ ~Revisits(j)
    <3>1. job'[j].merged = job[j].merged /\ job'[j].external = job[j].external
      BY <1>0, <2>1, MergedStays
    <3> QED BY <1>0, <1>1, <2>1, <3>1, Zenon DEF JobLine, Builds
  <2>2. CASE job[j].merged # None /\ Revisits(j)
    <3>1. OpLine(w.op) /\ job'[j].merged = w.op.target /\ w.op.kind = "writeback_revision" /\ w.op.job = j
      BY <1>0, <2>2 DEF Revisits, OpsLine
    <3>2. job'[j].external.srcs = job[j].external.srcs /\ job'[j].merged.srcs = job[j].merged.srcs
      BY <1>0, <2>2, MergedStays, Zenon
    <3>3. j \in job'[j].merged.srcs BY <3>1 DEF OpLine
    <3> QED BY <1>0, <1>1, <2>2, <3>2, <3>3, Zenon DEF JobLine, Builds
  <2>3. CASE job[j].merged = None
    <3>1. /\ job[j].external # None /\ job'[j].external = job[j].external
          /\ job'[j].merged = IF pin[j] # None THEN pin[j] ELSE job[j].external
      BY <1>2, <2>3, ExternalStays
    <3>2. CASE pin[j] # None BY <1>0, <1>1, <2>3, <3>1, <3>2, Zenon DEF JobLine, Builds
    <3>3. CASE pin[j] = None BY <1>0, <1>1, <3>1, <3>3, Zenon DEF JobLine, Builds
    <3> QED BY <3>2, <3>3
  <2> QED BY <2>1, <2>2, <2>3
<1>3. ASSUME job'[j].merged = None, pin'[j] # None PROVE Builds(j, pin[j])'
  <2>1. job[j].merged = None BY <1>0, <1>3, MergedStays, Zenon
  <2>2. CASE pin'[j] = pin[j]
    <3>1. job'[j].external = job[j].external
      BY <1>3, <2>1, <2>2, ExternalStays, Zenon DEF TypeInv, JobsOK, JobOK
    <3> QED BY <1>0, <1>1, <1>3, <2>1, <2>2, <3>1, Zenon DEF JobLine, Builds
  <2>3. CASE pin'[j] # pin[j]
    <3>1. /\ j = w.job /\ w.at = "commit" /\ job'[j].external = job[j].external
          /\ pin'[j] = Commit(integ.tree, {job[j].external, job[j].source}, j)
      BY <1>3, <2>3, Pinned, Zenon
    <3>2. /\ j = FifoHead /\ integ.source = job[j].source /\ integ.source # None
          /\ job[j].state # "none" /\ job[j].external # None
      BY <1>0, <3>1, Zenon DEF Stands, Processing, TypeInv, Place, Merging
    <3> DEFINE t == integ.tree
               e == job[j].external
               s == job[j].source
    <3>3. pin'[j] = Commit(t, {e, s}, j) BY <3>1
    <3> HIDE DEF t, e, s
    <3>4. pin'[j].tree = t /\ pin'[j].srcs = e.srcs \cup s.srcs
      <4>1. UNION {c.srcs : c \in {e, s}} = e.srcs \cup s.srcs OBVIOUS
      <4> QED BY <3>3, <4>1 DEF Commit
    <3> USE DEF t, e, s
    <3>5. j \in job[j].source.srcs \/ integ.tree = job[j].external.tree
      BY <1>0, <2>1, <3>2, Zenon DEF IntegLine
    <3> QED BY <1>0, <1>1, <3>1, <3>2, <3>4, <3>5, Zenon DEF JobLine, Builds
  <2> QED BY <2>2, <2>3
<1> QED BY <1>2, <1>3

\* What a job has taken in is delivered before it, or its own.
LEMMA JobLineStep ==
    ASSUME TypeInv, KeepInv, LineInv, Next, NEW j \in Jobs
    PROVE  JobLine(j)'
<1>0. /\ JobLine(j) /\ RefsLine /\ OpsLine /\ Stands /\ JobStep(j)
      /\ delivered.srcs \subseteq delivered'.srcs
  BY JobsMove, DeliveredSteps, Zenon DEF LineInv, JobsLine, KeepInv
<1>1. ASSUME job'[j].state # "none"
      PROVE  /\ job'[j].source.srcs \subseteq delivered'.srcs \cup {j}
             /\ j \in job'[j].source.srcs \/ job'[j].source.tree = job'[j].base.tree
             /\ \A p \in Paths : job'[j].source.tree[p] \ job'[j].base.tree[p] \subseteq {j}
  <2>1. CASE job[j].state # "none"
    <3>1. job'[j].source = job[j].source /\ job'[j].base = job[j].base
      BY <1>0, <2>1, Zenon DEF JobStep
    <3> QED BY <1>0, <2>1, <3>1, Zenon DEF JobLine
  <2>2. CASE job[j].state = "none"
    <3>1. Enqueue(j) BY <1>0, <1>1, <2>2, Zenon DEF JobStep
    <3>2. PICK source \in Good :
              /\ job' = [job EXCEPT ![j] = [job[j] EXCEPT !.state = "queued", !.base = delivered,
                                                          !.source = source]]
              /\ \/ source = delivered
                 \/ /\ \A p \in Paths : source.tree[p] = IF p \in Changes[j] THEN delivered.tree[p] \cup {j}
                                                         ELSE delivered.tree[p]
                    /\ source.srcs = delivered.srcs \cup {j}
      BY <3>1, EnqueueWrites, Zenon
    <3>3. job'[j].source = source /\ job'[j].base = delivered BY <3>2 DEF TypeInv, JobsOK, JobRows
    <3>4. CASE source = delivered BY <1>0, <3>3, <3>4, Zenon
    <3>5. CASE source # delivered BY <1>0, <3>2, <3>3, <3>5, Zenon
    <3> QED BY <3>4, <3>5, Zenon
  <2> QED BY <2>1, <2>2, Zenon
<1>2. ASSUME intent'[j] # None
      PROVE  /\ intent'[j].before.srcs = intent'[j].target.srcs
             /\ intent'[j].target.srcs \subseteq delivered'.srcs /\ j \notin intent'[j].target.srcs
  <2>1. CASE intent'[j] = intent[j] BY <1>0, <1>2, <2>1, Zenon DEF JobLine
  <2>2. CASE intent'[j] # intent[j]
    <3> DEFINE c == Capture(delivered, j)
    <3>1. intent'[j] = [before |-> delivered, target |-> c] /\ job[j].external = None
      BY <2>2, Pinned, Zenon
    <3>2. c.srcs = delivered.srcs BY CaptureIs DEF TypeInv, RefsOK
    <3> HIDE DEF c
    <3>3. job[j].merged = None BY <3>1, Zenon DEF TypeInv, JobsOK, JobOK
    <3>4. j \notin delivered.srcs BY <1>0, <3>3 DEF RefsLine, Placed
    <3> QED BY <1>0, <3>1, <3>2, <3>4
  <2> QED BY <2>1, <2>2, Zenon
<1>3. ASSUME job'[j].external # None
      PROVE  job'[j].external.srcs \subseteq delivered'.srcs /\ j \notin job'[j].external.srcs
  <2>1. CASE job[j].merged # None
    <3>1. job[j].external # None BY <2>1, Zenon DEF TypeInv, JobsOK, JobOK
    <3> QED BY <1>0, <2>1, <3>1, MergedStays, Zenon DEF JobLine
  <2>2. CASE job[j].merged = None /\ job[j].external # None
    BY <1>0, <2>2, ExternalStays, Zenon DEF JobLine
  <2>3. CASE job[j].merged = None /\ job[j].external = None
    <3>1. intent[j] # None /\ job'[j].external = intent[j].target
      BY <1>3, <2>3, ExternalStays, Zenon
    <3> QED BY <1>0, <3>1, Zenon DEF JobLine
  <2> QED BY <2>1, <2>2, <2>3, Zenon
<1>4. ASSUME Rows(j)' \/ (job'[j].state = "conflicted" /\ job'[j].merged # None)
      PROVE  j \in job'[j].merged.srcs
  <2>1. ASSUME job[j].merged # None, j \in job[j].merged.srcs PROVE j \in job'[j].merged.srcs
    BY <1>0, <2>1, MergedStays, Zenon
  <2>2. ASSUME Rows(j) PROVE j \in job'[j].merged.srcs
    <3>1. job[j].merged # None BY <2>2, Zenon DEF Rows, TypeInv, JobsOK, JobOK
    <3> QED BY <1>0, <2>1, <2>2, <3>1, Zenon DEF JobLine
  <2>3. ASSUME NEW p \in Paths, files'[j][p] # None PROVE j \in job'[j].merged.srcs
    <3>1. CASE files[j][p] # None BY <2>2, <3>1, Zenon DEF Rows
    <3>2. CASE files[j][p] = None /\ StartWriting /\ j = w.job
      <4>1. job[j].merged # None /\ job[j].external # None
        BY <3>2, Zenon DEF StartWriting, At, TypeInv, Place, Merged, JobsOK, JobOK
      <4>3. files'[j][p] = Manifest(files[j], job[j].external, job[j].merged)[p]
        BY <3>2 DEF StartWriting, TypeInv, JobsOK
      <4>4. job[j].external.tree[p] # job[j].merged.tree[p]
        BY <2>3, <3>2, <4>3, Zenon DEF Manifest
      <4>5. j \in job[j].merged.srcs BY <1>0, <4>1, <4>4, Zenon DEF JobLine, Builds
      <4> QED BY <2>1, <4>1, <4>5
    <3>3. CASE files[j][p] = None /\ ReviseRow /\ j = w.job
      <4>1. w.at \in Revising BY <3>3 DEF ReviseRow, At, Revising
      <4>2. w.op \in ops /\ w.op.kind = "writeback_revision" /\ w.op.job = j /\ job[j].merged # None
        BY <3>3, <4>1, ReviseKnown, Zenon DEF TypeInv, Place
      <4>3. j \in job[j].merged.srcs BY <1>0, <4>2, Zenon DEF OpsLine, OpLine
      <4> QED BY <2>1, <4>2, <4>3
    <3>4. RowStep(j, p) BY <2>3, RowsMove
    <3> QED BY <3>1, <3>2, <3>3, <3>4, Zenon DEF RowStep
  <2>4. ASSUME job'[j].state = "conflicted", job'[j].merged # None PROVE j \in job'[j].merged.srcs
    <3>1. CASE job[j].state = "conflicted"
      <4>1. job[j].merged # None BY <2>4, ExternalStays, Zenon
      <4> QED BY <1>0, <2>1, <3>1, <4>1, Zenon DEF JobLine
    <3>2. CASE job[j].state # "conflicted" BY <2>2, <2>4, <3>2, Conflicts, Zenon
    <3> QED BY <3>1, <3>2
  <2> QED BY <1>4, <2>3, <2>4 DEF Rows
<1>5. ASSUME Taken(j)' PROVE j = FifoHead' /\ delivered'.srcs \subseteq Top(j)'.srcs
  <2>1. j = FifoHead /\ j = FifoHead' BY <1>5, TopMoves, Zenon
  <2>2. ASSUME Taken(j) PROVE delivered.srcs \subseteq Top(j).srcs BY <1>0, <2>2, Zenon DEF JobLine
  <2>3. CASE Taken(j) /\ Top(j)' = Top(j)
    <3>1. CASE delivered'.srcs = delivered.srcs BY <2>1, <2>2, <2>3, <3>1
    <3>2. CASE j = w.job /\ job[j].merged # None /\ delivered' = job[j].merged
      BY <2>1, <2>3, <3>2, Zenon DEF Top
    <3>3. CASE w.op \in ops /\ w.op.kind = "merge_cancel" /\ w.op.job = j /\ delivered' = w.op.target
      <4>1. w.op.target.srcs \subseteq delivered.srcs
              \/ (job[j].merged # None /\ w.op.target.srcs \subseteq job[j].merged.srcs)
        BY <1>0, <3>3, Zenon DEF OpsLine, OpLine
      <4> QED BY <2>1, <2>2, <2>3, <3>3, <4>1, Zenon DEF Top
    <3> QED BY <2>1, <3>1, <3>2, <3>3, DeliveredSteps, Zenon
  <2>4. CASE ~(Taken(j) /\ Top(j)' = Top(j))
    <3>1. delivered'.srcs = delivered.srcs
      BY <1>5, <2>4, TopMoves, DeliveredSteps, Zenon DEF Prepare, Merge, Revisits, ReviseJob, At
    <3>2. CASE Top(j)' = Capture(delivered, j)
      <4> DEFINE c == Capture(delivered, j)
      <4>1. c.srcs = delivered.srcs BY CaptureIs DEF TypeInv, RefsOK
      <4> HIDE DEF c
      <4>2. Top(j)' = c BY <3>2 DEF c
      <4> QED BY <2>1, <3>1, <4>1, <4>2
    <3>3. CASE /\ Taken(j) /\ Top(j) = job[j].external
               /\ job[j].merged = None /\ job'[j].merged # None /\ Top(j)' = job'[j].merged
      <4>1. job'[j].external = job[j].external BY <3>3, ExternalStays, Zenon
      <4>2. job[j].external.srcs \subseteq job'[j].merged.srcs
        BY <3>3, <4>1, BuildsStep, Zenon DEF Builds
      <4> QED BY <2>1, <2>2, <3>1, <3>3, <4>2, Zenon
    <3>4. CASE Taken(j) /\ Revisits(j) /\ Top(j) = job[j].merged /\ Top(j)' = w.op.target
      <4>1. w.op.target.srcs = job[j].merged.srcs BY <1>0, <3>4, Zenon DEF OpsLine, OpLine, Revisits
      <4> QED BY <2>1, <2>2, <3>1, <3>4, <4>1, Zenon
    <3> QED BY <1>5, <2>4, <3>2, <3>3, <3>4, TopMoves, Zenon
  <2> QED BY <2>3, <2>4, Zenon
<1> QED BY <1>1, <1>2, <1>3, <1>4, <1>5, BuildsStep, Zenon DEF JobLine

\* The operations that are recorded with the refs as they are: an import, a cancellation.
LEMMA NewCancels ==
    ASSUME TypeInv, Next, NEW o \in ops', o \notin ops
    PROVE  /\ o.kind = "external" => o.before.srcs = delivered.srcs /\ o.target.srcs = delivered.srcs
           /\ o.kind = "merge_cancel" =>
                /\ o.job \in Live /\ At("idle") /\ Begin("cancelMain", o) /\ \A d \in ops' : d \in ops \/ d = o
                /\ \/ o.target.srcs = delivered.srcs
                   \/ job[o.job].merged # None /\ o.target.srcs = job[o.job].merged.srcs
<1>1. ASSUME NEW j \in Jobs, Cancel(j)
      PROVE  /\ o.kind = "merge_cancel" /\ o.job = j /\ j \in Live /\ At("idle") /\ Begin("cancelMain", o)
             /\ \A d \in ops' : d \in ops \/ d = o
             /\ \/ o.target.srcs = delivered.srcs
                \/ job[j].merged # None /\ o.target.srcs = job[j].merged.srcs
  <2> DEFINE parent == IF job[j].merged # None THEN job[j].merged ELSE delivered
             preserved == IF Partial(j) THEN Capture(parent, j) ELSE delivered
  <2>1. PICK op : /\ ops' = ops \cup {op} /\ Begin("cancelMain", op)
                  /\ \/ op = [no |-> NextNo, kind |-> "merge_cancel", job |-> j, target |-> preserved]
                     \/ op \in ops
    BY <1>1, Zenon DEF Cancel
  <2>2. At("idle") /\ j \in Live BY <1>1, Zenon DEF Cancel
  <2>3. parent \in Good BY Zenon DEF TypeInv, RefsOK, JobsOK, JobRows, Maybe
  <2>4. parent.srcs = delivered.srcs \/ (job[j].merged # None /\ parent.srcs = job[j].merged.srcs) OBVIOUS
  <2> HIDE DEF parent
  <2>5. Capture(parent, j).srcs = parent.srcs BY <2>3, CaptureIs DEF TypeInv
  <2>6. preserved.srcs \in {delivered.srcs, parent.srcs} BY <2>5
  <2> HIDE DEF preserved
  <2>7. o = op /\ o = [no |-> NextNo, kind |-> "merge_cancel", job |-> j, target |-> preserved]
    BY <2>1
  <2>8. o.kind = "merge_cancel" /\ o.job = j /\ o.target = preserved BY <2>7
  <2>9. \A d \in ops' : d \in ops \/ d = o BY <2>1, <2>7
  <2>10. Begin("cancelMain", o) BY <2>1, <2>7
  <2> QED BY <2>2, <2>4, <2>6, <2>8, <2>9, <2>10, Zenon
<1>2. ASSUME ImportExternal
      PROVE  o.kind = "external" /\ o.before.srcs = delivered.srcs /\ o.target.srcs = delivered.srcs
  <2> DEFINE c == Capture(delivered, 0)
  <2>1. ops' = ops \cup {[no |-> NextNo, kind |-> "external", job |-> None, before |-> delivered, target |-> c]}
    BY <1>2 DEF ImportExternal
  <2>2. c.srcs = delivered.srcs BY CaptureIs DEF TypeInv, RefsOK
  <2> HIDE DEF c
  <2>3. o = [no |-> NextNo, kind |-> "external", job |-> None, before |-> delivered, target |-> c]
    BY <2>1
  <2> QED BY <2>2, <2>3
<1>3. ASSUME o.kind \in {"external", "merge_cancel"} PROVE ImportExternal \/ \E j \in Jobs : Cancel(j)
  <2>1. ~(FinishIndex \/ ReviseRow \/ FinishCancel \/ ImportRow \/ RecoverImport \/ RecoverNext)
    BY Zenon DEF FinishIndex, ReviseRow, FinishCancel, ImportRow, RecoverImport, RecoverNext
  <2>2. ASSUME NEW j \in Jobs, ResolveMerge(j) PROVE FALSE
    <3>1. PICK choice, op :
             /\ op \in IF {q \in ops : q.kind = "resolve_index" /\ q.job = j /\ q.choice = choice} = {}
                       THEN {[no |-> NextNo, kind |-> "resolve_index", job |-> j, choice |-> choice]}
                       ELSE {q \in ops : q.kind = "resolve_index" /\ q.job = j /\ q.choice = choice}
             /\ ops' = ops \cup {op}
      BY <2>2, Zenon DEF ResolveMerge
    <3>2. op.kind = "resolve_index" /\ o = op BY <3>1
    <3> QED BY <1>3, <3>2
  <2>3. ASSUME NEW j \in Jobs, ResolveWriteback(j) PROVE FALSE
    <3>1. PICK c, e : ops' = ops \cup {[no |-> NextNo, kind |-> "writeback_revision", job |-> j,
                                        before |-> job[j].merged, target |-> c, external |-> e]}
      BY <2>3, Zenon DEF ResolveWriteback
    <3>2. o = [no |-> NextNo, kind |-> "writeback_revision", job |-> j, before |-> job[j].merged,
               target |-> c, external |-> e]
      BY <3>1
    <3> QED BY <1>3, <3>2
  <2> QED BY <2>1, <2>2, <2>3, OpsMove, Zenon
<1> QED BY <1>1, <1>2, <1>3, Zenon

\* The commits of an operation, and the jobs they hold.
LEMMA OpsLineStep ==
    ASSUME TypeInv, KeepInv, LineInv, Settled, Next
    PROVE  OpsLine'
<1> SUFFICES ASSUME NEW o \in ops' PROVE OpLine(o)'
  BY DEF OpsLine
<1>0. JobsLine /\ RefsLine /\ OpsLine /\ CancelLine /\ IntegLine /\ Stands BY DEF LineInv, KeepInv
<1>1. delivered.srcs \subseteq delivered'.srcs BY DeliveredSteps
<1>2. CASE o \in ops
  <2>0. OpOK(o) /\ OpLine(o) BY <1>0, <1>2 DEF TypeInv, OpsOK, OpsLine
  <2>1. ASSUME o.kind = "resolve_index" PROVE o.job \in job'[o.job].source.srcs
    <3>1. o.job \in Jobs /\ job[o.job].state # "none" BY <2>0, <2>1 DEF OpOK
    <3>2. job'[o.job].source = job[o.job].source BY <3>1, JobsMove, Zenon DEF JobStep
    <3> QED BY <2>0, <2>1, <3>2, Zenon DEF OpLine
  <2>2. ASSUME o.kind = "writeback_revision"
        PROVE  job'[o.job].merged.srcs = o.target.srcs /\ job'[o.job].external.srcs = o.external.srcs
    <3>1. o.job \in Jobs /\ job[o.job].merged # None BY <2>0, <2>2, Zenon DEF OpOK
    <3> QED BY <1>0, <2>0, <2>2, <3>1, MergedStays, Zenon DEF OpLine
  <2>3. ASSUME o.kind = "merge_cancel"
        PROVE  /\ delivered'.srcs \subseteq o.target.srcs
               /\ \/ o.target.srcs \subseteq delivered'.srcs
                  \/ job'[o.job].merged # None /\ o.target.srcs \subseteq job'[o.job].merged.srcs
    <3>1. o.job \in Jobs BY <2>0, <2>3, Zenon DEF OpOK
    <3>2. w.at # "deliver"
      BY <1>0, <1>2, <2>3, Zenon DEF CancelLine, Due, TypeInv, Place, Processing, Cancelling
    <3>3. \A d \in ops : d.kind = "merge_cancel" => d = o BY <1>0, <1>2, <2>3 DEF CancelLine
    <3>4. delivered'.srcs \subseteq o.target.srcs
      BY <2>0, <2>3, <3>2, <3>3, DeliveredSteps, Zenon DEF OpLine
    <3>5. job[o.job].merged # None => job'[o.job].merged # None /\ job'[o.job].merged.srcs = job[o.job].merged.srcs
      BY <1>0, <3>1, MergedStays, Zenon
    <3> QED BY <1>1, <2>0, <2>3, <3>4, <3>5, Zenon DEF OpLine
  <2> QED BY <2>0, <2>1, <2>2, <2>3, Zenon DEF OpLine
<1>3. CASE o \notin ops /\ o.kind = "external"
  BY <1>3, NewCancels, Zenon DEF OpLine
<1>4. CASE o \notin ops /\ o.kind = "merge_cancel"
  <2>1. /\ o.job \in Live /\ At("idle")
        /\ \/ o.target.srcs = delivered.srcs
           \/ job[o.job].merged # None /\ o.target.srcs = job[o.job].merged.srcs
    BY <1>4, NewCancels, Zenon
  <2>2. o.job \in Jobs BY <2>1, Zenon DEF Live
  <2>3. delivered'.srcs = delivered.srcs BY <2>1, DeliveredSteps, Zenon DEF At
  <2>4. ASSUME job[o.job].merged # None, o.target.srcs = job[o.job].merged.srcs
        PROVE  delivered.srcs \subseteq o.target.srcs
    <3>1. job[o.job].external # None BY <2>2, <2>4, Zenon DEF TypeInv, JobsOK, JobOK
    <3>2. Taken(o.job) /\ Top(o.job) = job[o.job].merged BY <2>1, <2>4, <3>1, Zenon DEF Taken, Top
    <3> QED BY <1>0, <2>2, <2>4, <3>2, Zenon DEF JobsLine, JobLine
  <2>5. job[o.job].merged # None => job'[o.job].merged # None /\ job'[o.job].merged.srcs = job[o.job].merged.srcs
    BY <1>0, <2>2, MergedStays, Zenon
  <2> QED BY <1>4, <2>1, <2>3, <2>4, <2>5, Zenon DEF OpLine
<1>5. ASSUME NEW j \in Jobs, Indexes(j, o) PROVE OpLine(o)'
  <2>1. /\ job[j].state = "conflicted" /\ job[j].merged = None /\ integ.conflicts # {} /\ job' = job
        /\ o.kind = "resolve_index" /\ o.job = j
    <3>1. \E decided \in SUBSET Undecided(j) : decided # {} BY <1>5, Zenon DEF Indexes, ResolveMerge
    <3>2. Undecided(j) # {} BY <3>1
    <3>3. /\ job[j].state = "conflicted" /\ job[j].merged = None /\ job' = job
          /\ o.kind = "resolve_index" /\ o.job = j
      BY <1>5, Zenon DEF Indexes, ResolveMerge
    <3> QED BY <3>2, <3>3, Zenon DEF Undecided
  <2>2. Taken(j) BY <2>1, Zenon DEF TypeInv, JobsOK, JobOK, Taken, Live, Ended
  <2>3. j = FifoHead BY <1>0, <2>2, Zenon DEF JobsLine, JobLine
  <2>4. j \in job[j].source.srcs BY <1>0, <2>1, <2>3, Zenon DEF IntegLine
  <2> QED BY <2>1, <2>4, Zenon DEF OpLine
<1>6. ASSUME NEW j \in Jobs, NEW choice \in [Undecided(j) -> Actions], Rewrites(j, o, choice) PROVE OpLine(o)'
  <2>1. /\ job[j].state = "conflicted" /\ job[j].merged # None /\ job' = job
        /\ o.external.srcs = job[j].external.srcs
        /\ o.target.srcs = job[j].external.srcs \cup job[j].merged.srcs
    BY <1>6, RevisionIs, Zenon
  <2>2. o.kind = "writeback_revision" /\ o.job = j /\ o.before = job[j].merged
    BY <1>6, Zenon DEF Rewrites
  <2>3. j \in job[j].merged.srcs /\ job[j].external.srcs \subseteq job[j].merged.srcs
    BY <1>0, <2>1, Zenon DEF JobsLine, JobLine, Builds
  <2> QED BY <2>1, <2>2, <2>3, Zenon DEF OpLine
<1> QED BY <1>2, <1>3, <1>4, <1>5, <1>6, NewOps, Zenon

\* A cancellation that is not finished stays with the worker; the lock is never free then.
LEMMA CancelLineStep ==
    ASSUME TypeInv, LineInv, Settled, Settled', Next
    PROVE  CancelLine'
\* The worker processes a job at the positions of Processing.
<1>WorksAt. Process => w.at \in Processing \cup {"head"}
  <2>1. Process => w.at \in {"head", "prepare", "moveMain", "moveDelivered", "saveExternal", "adoptExternal",
                             "merge", "commit", "advance", "reset", "manifest", "file", "recheck", "rename",
                             "observe", "deliver", "saveDelivered", "finish"}
    BY Zenon DEF Process, TakeHead, Prepare, MoveMain, MoveDelivered, SaveExternal, AdoptExternal,
       Merge,
       CommitMerge, Advance, Reset, StartWriting, ApplyFile, Recheck, Rename, Observe, Verify, Deliver,
       SaveDelivered, FinishJob, At
  <2> QED BY <2>1 DEF Processing
<1>0. CancelLine /\ WorkOK /\ Place /\ OpsOK BY DEF LineInv, TypeInv
<1>1. ASSUME NEW o \in ops', o.kind = "merge_cancel", o \notin ops
      PROVE  Due(o)' /\ \A d \in ops' : d.kind = "merge_cancel" => d = o
  <2>1. At("idle") /\ Begin("cancelMain", o) /\ \A d \in ops' : d \in ops \/ d = o
    BY <1>1, NewCancels, Zenon
  <2>2. "cancelMain" \in Steps /\ "cancelMain" \in Cancelling BY DEF Steps, Cancelling
  <2>3. Due(o)' BY <1>0, <2>1, <2>2, Begins DEF Due
  <2>4. \A d \in ops : d.kind # "merge_cancel" BY <2>1 DEF Settled, At
  <2> QED BY <2>1, <2>3, <2>4
<1>2. ASSUME NEW o \in ops, o \in ops', o.kind = "merge_cancel" PROVE Due(o)'
  <2>0. w'.at # "idle" BY <1>2 DEF Settled, At
  <2>1. Due(o) BY <1>0, <1>2 DEF CancelLine
  <2>2. w.at \notin Processing \cup {"idle", "head"}
    BY <1>0, <2>1, Zenon DEF Due, Place, Processing, Cancelling
  <2>3. ASSUME Release PROVE Due(o)' BY <2>0, <2>3, Releases DEF Due
  <2>4. ASSUME w.at \notin {"boot", "validate"} PROVE o \in w.todo \/ (w.at \in Cancelling /\ w.op = o)
    BY <2>1, <2>4 DEF Due
  <2>5. ASSUME NEW s \in Steps, Goto(s), w.at \notin {"boot", "validate"},
               w.at \in Cancelling => s \in Cancelling
        PROVE  Due(o)'
    BY <1>0, <2>4, <2>5, GoesTo, Zenon DEF Due
  <2>6. ASSUME NEW op, EndOp(op), op # o, o \in w.todo PROVE Due(o)'
    BY <1>0, <2>0, <2>6, EndsOp, Zenon DEF Due
  <2>7. CASE StageIndex \/ ReviseMain \/ ReviseDelivered \/ ReviseJob \/ ImportMain \/ ImportDelivered
    <3>1. /\ w.at \in {"index", "reviseMain", "reviseDelivered", "reviseJob", "importMain", "importDelivered"}
          /\ \/ Release \/ Goto("staged") \/ Goto("reviseDelivered") \/ Goto("reviseJob") \/ Goto("reviseRow")
             \/ Goto("importDelivered") \/ Goto("importRow")
      BY <2>7, Zenon DEF StageIndex, ReviseMain, ReviseDelivered, ReviseJob, ImportMain,
         ImportDelivered, At
    <3>2. {"staged", "reviseDelivered", "reviseJob", "reviseRow", "importDelivered", "importRow"} \subseteq Steps
      BY DEF Steps, Indexing, Revising, Importing
    <3>3. w.at \notin Cancelling /\ w.at \notin {"boot", "validate"} BY <3>1 DEF Cancelling
    <3> QED BY <2>3, <2>5, <3>1, <3>2, <3>3
  <2>8. CASE CancelMain \/ CancelDelivered \/ CancelRow \/ CancelJob
    <3>1. /\ w.at \in {"cancelMain", "cancelDelivered", "cancelRow", "cancelJob"}
          /\ \/ Release \/ Goto("cancelDelivered") \/ Goto("cancelRow") \/ Goto("cancelJob") \/ Goto("cancelled")
      BY <2>8, Zenon DEF CancelMain, CancelDelivered, CancelRow, CancelJob, At
    <3>2. {"cancelDelivered", "cancelRow", "cancelJob", "cancelled"} \subseteq Steps \cap Cancelling
      BY DEF Steps, Cancelling
    <3> QED BY <2>3, <2>5, <3>1, <3>2
  <2>9. CASE FinishIndex \/ ReviseRow \/ ImportRow
    <3>1. EndOp(w.op) /\ w.at \in {"staged", "reviseRow", "importRow"}
      BY <2>9, Zenon DEF FinishIndex, ReviseRow, ImportRow, At
    <3>2. w.at \in Indexing \cup Revising \cup Importing /\ w.at \notin Cancelling
      BY <3>1 DEF Indexing, Revising, Importing, Cancelling
    <3>3. w.op.kind # "merge_cancel" BY <1>0, <3>2, Zenon DEF Place
    <3>4. o \in w.todo BY <2>4, <3>1, <3>2
    <3> QED BY <1>2, <2>6, <3>1, <3>3, <3>4
  <2>10. CASE FinishCancel
    <3>1. EndOp(w.op) /\ ops' = ops \ {w.op} /\ w.at = "cancelled" BY <2>10 DEF FinishCancel, At
    <3>2. o # w.op /\ o \in w.todo BY <1>2, <2>4, <3>1
    <3> QED BY <2>6, <3>1, <3>2
  <2>11. CASE RecoverImport
    <3>1. w' = [w EXCEPT !.at = "recover", !.todo = ops] \/ w' = w \/ w' = NoWork
      BY <2>11, Zenon DEF RecoverImport
    <3>2. w' # NoWork BY <2>0, Rests, Zenon
    <3>3. w' = [w EXCEPT !.at = "recover", !.todo = ops] => w'.todo = ops BY <1>0 DEF WorkOK
    <3> QED BY <1>2, <2>1, <3>1, <3>2, <3>3 DEF Due
  <2>12. CASE RecoverNext
    <3>1. w.at = "recover" /\ w.at \notin Cancelling BY <2>12, Zenon DEF RecoverNext, At, Cancelling
    <3>2. o \in w.todo BY <2>4, <3>1
    <3>3. \E op \in w.todo : \/ EndOp(op) /\ op.kind # "merge_cancel"
                             \/ Begin("index", op) \/ Begin("reviseMain", op) \/ Begin("cancelMain", op)
      <4>1. w.todo # {} BY <3>2
      <4> QED BY <2>12, <4>1, Zenon DEF RecoverNext
    <3>4. {"index", "reviseMain", "cancelMain"} \subseteq Steps
      BY DEF Steps, Indexing, Revising, Cancelling
    <3>5. ASSUME NEW op, NEW s \in Steps, Begin(s, op) PROVE Due(o)'
      BY <1>0, <3>2, <3>5, Begins DEF Due
    <3> QED BY <1>2, <2>6, <3>2, <3>3, <3>4, <3>5, Zenon
  <2>13. CASE Validate
    <3>1. w' = NoWork BY <2>13 DEF Validate
    <3> QED BY <2>0, <3>1, Rests
  <2>14. CASE Crash
    <3>1. w' = [NoWork EXCEPT !.at = "boot", !.boot = TRUE] BY <2>14 DEF Crash
    <3> QED BY <3>1 DEF Due, NoWork
  <2>15. CASE Fault
    <3>1. Release BY <2>2, <2>15, Zenon DEF Fault
    <3> QED BY <2>3, <3>1
  <2>16. ASSUME NEW j \in Jobs, Enqueue(j) PROVE Due(o)' BY <2>1, <2>16, Zenon DEF Enqueue, Due
  <2>17. ASSUME NEW p \in Paths, NEW e \in Edits, Edit(p, e) PROVE Due(o)'
    BY <2>1, <2>17, Zenon DEF Edit, Due
  <2>18. ~Process /\ ~Drain /\ ~ImportExternal /\ \A j \in Jobs : ~Decide(j)
    <3>1. Process => w.at \in Processing \cup {"head"} BY <1>WorksAt
    <3> QED
      BY <2>2, <3>1, Zenon DEF Drain, ImportExternal, Decide, ResolveMerge, AuditRefuses,
         ResolveWriteback,
            ResolveAgain, Cancel, Retry, At
  <2> QED BY <2>7, <2>8, <2>9, <2>10, <2>11, <2>12, <2>13, <2>14, <2>15, <2>16, <2>17, <2>18, Zenon
          DEF Next, Operate
<1>3. ASSUME NEW o \in ops', NEW d \in ops', o.kind = "merge_cancel", d.kind = "merge_cancel" PROVE o = d
  BY <1>0, <1>1, <1>3 DEF CancelLine
<1> QED BY <1>1, <1>2, <1>3 DEF CancelLine

\* While a merge is in progress the head of the queue stays.
LEMMA HeadOfMerge ==
    ASSUME TypeInv, KeepInv, LineInv, Next, integ.source # None
    PROVE  /\ FifoHead \in Live /\ FifoHead \in Jobs /\ job[FifoHead].state # "none"
           /\ FifoHead' = FifoHead
<1>0. IntegLine /\ Stands /\ WorkLine BY DEF LineInv, KeepInv
<1>1. FifoHead # None BY <1>0 DEF IntegLine
<1>2. FifoHead \in Live /\ FifoHead \in Jobs /\ job[FifoHead].state # "none"
  BY <1>1, HeadIsLive DEF Live
<1>3. ~FinishJob
  <2>1. FinishJob => w.at = "finish" BY DEF FinishJob, At
  <2> QED BY <1>0, <2>1, Zenon DEF Stands, Cleared
<1>4. CancelJob => FifoHead # w.job
  <2>1. CancelJob => w.at = "cancelJob" BY DEF CancelJob, At
  <2> QED BY <1>0, <2>1, Zenon DEF Stands
<1>5. FifoHead \in Live' BY <1>0, <1>2, <1>3, <1>4, LiveMoves, Zenon
<1> QED BY <1>0, <1>2, <1>5, HeadMoves

\* The merge in progress is that of the head of the queue; with nothing to merge it is the
\* external commit itself.
LEMMA IntegLineStep ==
    ASSUME TypeInv, KeepInv, LineInv, Next
    PROVE  IntegLine'
<1>0. JobsLine /\ OpsLine /\ IntegLine /\ Stands /\ WorkLine /\ QueueKeeps /\ IntegKeeps
  BY DEF LineInv, KeepInv
<1>1. CASE integ' = NoMerge BY <1>1, Zenon DEF IntegLine, NoMerge
<1>2. CASE UNCHANGED integ
  <2>1. CASE integ.source = None BY <1>0, <1>2, <2>1, Zenon DEF IntegLine
  <2>2. CASE integ.source # None
    <3>1. FifoHead # None /\ integ.source = job[FifoHead].source BY <1>0, <2>2 DEF IntegLine
    <3>2. FifoHead \in Jobs /\ job[FifoHead].state # "none" /\ FifoHead' = FifoHead
      BY <2>2, HeadOfMerge, Zenon
    <3>5. job'[FifoHead].source = job[FifoHead].source BY <3>2, JobsMove, Zenon DEF JobStep
    <3>6. ASSUME job'[FifoHead].merged = None
          PROVE  job[FifoHead].merged = None /\ job'[FifoHead].external = job[FifoHead].external
      <4>1. job[FifoHead].merged = None BY <1>0, <3>2, <3>6, MergedStays, Zenon
      <4>2. CASE job[FifoHead].external # None BY <3>2, <4>1, <4>2, ExternalStays, Zenon
      <4>3. CASE job[FifoHead].external = None
        <5>1. ~AdoptExternal BY <1>0, <2>2, AdoptsAlone
        <5> QED BY <3>2, <4>1, <4>3, <5>1, ExternalStays, Zenon
      <4> QED BY <4>2, <4>3, Zenon
    <3> QED BY <1>0, <1>2, <2>2, <3>1, <3>2, <3>5, <3>6, Zenon DEF IntegLine
  <2> QED BY <2>1, <2>2
<1>3. ASSUME Merge, job' = job, w.at = "merge", NEW clash \in SUBSET Clashing(job[w.job].base.tree,
                                                job[w.job].external.tree, job[w.job].source.tree),
             integ' = [source |-> job[w.job].source, conflicts |-> clash,
                       tree |-> [p \in Paths |-> Clean(job[w.job].base.tree[p], job[w.job].external.tree[p],
                                                       job[w.job].source.tree[p])]]
      PROVE  IntegLine'
  <2>1. w.job = FifoHead /\ w.job \in Jobs /\ job[w.job].external # None
    BY <1>0, <1>3, Zenon DEF Stands, Processing, Merging, TypeInv, Place
  <2>2. FifoHead' = FifoHead BY <1>3, Zenon DEF FifoHead, Live
  <2>3. integ'.source = job[w.job].source /\ integ'.conflicts = clash /\ job[w.job].source # None
        /\ FifoHead # None
    <3>1. job[w.job].state # "none" BY <1>3, Zenon DEF TypeInv, Place, Processing
    <3>2. job[w.job].source # None BY <2>1, <3>1, Zenon DEF TypeInv, JobsOK, JobOK
    <3> QED BY <1>3, <2>1, <3>2, MergeAssumption, Zenon
  <2>4. ASSUME w.job \notin job[w.job].source.srcs
        PROVE  clash = {} /\ integ'.tree = job[w.job].external.tree
    <3>1. job[w.job].source.tree = job[w.job].base.tree
      BY <1>0, <1>3, <2>1, <2>4, Zenon DEF JobsLine, JobLine, TypeInv, Place, Processing
    <3>2. clash = {} BY <1>3, <3>1, Zenon DEF Clashing
    <3>3. job[w.job].external \in Good BY <2>1, Zenon DEF TypeInv, JobsOK, JobRows, Maybe
    <3>4. job[w.job].external.tree = [p \in Paths |-> job[w.job].external.tree[p]]
      BY <3>3, GoodFields, Zenon DEF Trees
    <3>5. \A p \in Paths : Clean(job[w.job].base.tree[p], job[w.job].external.tree[p], job[w.job].base.tree[p])
                           = job[w.job].external.tree[p]
      BY Zenon DEF Clean
    <3>6. integ'.tree = [p \in Paths |-> job[w.job].external.tree[p]] BY <1>3, <3>1, <3>5, Zenon
    <3> QED BY <3>2, <3>4, <3>6, Zenon
  <2> QED BY <1>3, <2>1, <2>2, <2>3, <2>4, Zenon DEF IntegLine
<1>4. CASE Merge
  <2>1. w.at = "merge" BY <1>4, Zenon DEF Merge, At
  <2>2. \/ UNCHANGED integ
        \/ /\ job' = job
           /\ \E clash \in SUBSET Clashing(job[w.job].base.tree, job[w.job].external.tree, job[w.job].source.tree) :
                integ' = [source |-> job[w.job].source, conflicts |-> clash,
                          tree |-> [p \in Paths |-> Clean(job[w.job].base.tree[p], job[w.job].external.tree[p],
                                                          job[w.job].source.tree[p])]]
    BY <1>4, Zenon DEF Merge
  <2> QED BY <1>2, <1>3, <1>4, <2>1, <2>2, Zenon
<1>5. CASE StageIndex
  <2>1. w.at = "index" /\ w.at \in Indexing /\ job' = job /\ (integ.source = None => integ' = integ)
    BY <1>5 DEF StageIndex, At, Indexing
  <2>2. CASE integ.source = None BY <1>2, <2>1, <2>2
  <2>3. CASE integ.source # None
    <3>1. integ'.source = integ.source
      BY <1>5, <2>3 DEF StageIndex, TypeInv, IntegOK
    <3>2. w.op \in ops /\ job[w.job].state = "conflicted" /\ w.op.kind = "resolve_index" /\ w.job = w.op.job
      BY <1>0, <2>1, Zenon DEF Stands, TypeInv, Place
    <3>3. w.job \in Jobs BY <3>2, OpFields, Zenon DEF TypeInv, OpsOK, OpOK
    <3>4. w.job \in job[w.job].source.srcs BY <1>0, <3>2, Zenon DEF OpsLine, OpLine
    <3>5. Taken(w.job) BY <3>2, <3>3, Zenon DEF TypeInv, JobsOK, JobOK, Taken, Live, Ended
    <3>6. w.job = FifoHead BY <1>0, <3>3, <3>5, Zenon DEF JobsLine, JobLine
    <3>7. FifoHead' = FifoHead BY <2>1, Zenon DEF FifoHead, Live
    <3>8. integ.source = job[FifoHead].source /\ FifoHead # None BY <1>0, <2>3, Zenon DEF IntegLine
    <3> QED BY <2>1, <2>3, <3>1, <3>4, <3>6, <3>7, <3>8, Zenon DEF IntegLine
  <2> QED BY <2>2, <2>3
<1>6. CASE Reset \/ CancelRow \/ ImportRow \/ RecoverImport
  <2>1. integ' = NoMerge \/ UNCHANGED integ
    BY <1>6, Zenon DEF Reset, CancelRow, ImportRow, RecoverImport
  <2> QED BY <1>1, <1>2, <2>1
<1> QED BY <1>2, <1>4, <1>5, <1>6, IntegMoves

\* Where the worker is in the middle of a delivery, a revision, a cancellation or an import.
LEMMA WorkLineStep ==
    ASSUME TypeInv, KeepInv, LineInv, Next
    PROVE  WorkLine'
<1>0. JobsLine /\ RefsLine /\ OpsLine /\ Stands /\ WorkLine /\ WorkOK /\ Place
  BY DEF LineInv, KeepInv, TypeInv
<1>1. ASSUME w.at \notin {"finish", "cancelJob"}, FifoHead # None PROVE FifoHead' = FifoHead
  <2>1. ~FinishJob /\ ~CancelJob BY <1>1 DEF FinishJob, CancelJob, At
  <2> QED BY <1>0, <1>1, <2>1, HeadMoves
<1>2. ASSUME job' = job PROVE FifoHead' = FifoHead BY <1>2, Zenon DEF FifoHead, Live
<1>3. ASSUME w.at # "deliver", w.at # "cancelDelivered" PROVE delivered'.srcs = delivered.srcs
  BY <1>3, DeliveredSteps, Zenon
<1>4. ASSUME w.at # "advance", w.at # "cancelMain" PROVE main'.srcs = main.srcs
  <2>1. ~CancelMain BY <1>4, Zenon DEF CancelMain, At
  <2> QED BY <1>4, <2>1, MainSteps, Zenon
<1>5. ASSUME w.at \in Revising \cup Cancelling
      PROVE  /\ w.job \in Jobs /\ w.job = w.op.job /\ w.op \in ops /\ job[w.job].state # "none"
             /\ w.at \in Revising => w.op.kind = "writeback_revision"
             /\ w.at \in Cancelling => w.op.kind = "merge_cancel"
  BY <1>0, <1>5, Zenon DEF Place, TypeInv, OpsOK, OpOK
<1>6. ASSUME w.at \in {"saveDelivered", "finish"} PROVE w.job \in Jobs /\ job[w.job].merged # None
  BY <1>0, <1>6, Zenon DEF Place, Processing, Merged
<1>7. CASE w' = w
  <2>1. w.at \in {"saveDelivered", "finish"} => job'[w.job].merged.srcs \subseteq delivered'.srcs
    BY <1>0, <1>3, <1>6, MergedStays, Zenon DEF WorkLine
  <2>2. w.at = "reviseDelivered" => w.job \in main'.srcs BY <1>0, <1>4, Zenon DEF WorkLine
  <2>3. w.at \in {"reviseJob", "reviseRow", "cancelDelivered", "cancelRow"} => w.job = FifoHead'
    <3>1. ASSUME w.at \in {"reviseJob", "reviseRow", "cancelDelivered", "cancelRow"} PROVE w.job = FifoHead'
      <4>1. w.job = FifoHead /\ w.job \in Jobs
        BY <1>0, <1>5, <3>1, Zenon DEF WorkLine, Revising, Cancelling
      <4> QED BY <1>1, <3>1, <4>1, MergeAssumption, Zenon
    <3> QED BY <3>1
  <2>4. w.at = "cancelDelivered" => main'.srcs = w.op.target.srcs BY <1>0, <1>4, Zenon DEF WorkLine
  <2>5. w.at = "cancelRow" => main'.srcs = delivered'.srcs BY <1>0, <1>3, <1>4, Zenon DEF WorkLine
  <2>6. ASSUME w.at = "cancelJob" PROVE FifoHead' # w.job \/ main'.srcs = delivered'.srcs
    <3>1. CASE main.srcs = delivered.srcs BY <1>3, <1>4, <2>6, <3>1, Zenon
    <3>2. ASSUME FifoHead # w.job, FifoHead' = w.job PROVE FALSE
      <4>1. w.job \in Jobs /\ job[w.job].state # "none" BY <1>5, <2>6, Zenon DEF Cancelling
      <4>2. w.job # None BY <4>1, MergeAssumption, Zenon
      <4>3. w.job \in Live'
        <5> DEFINE L == Live'
        <5>1. L # {} /\ w.job = First(L) BY <3>2, <4>2, Zenon DEF FifoHead
        <5>2. L \subseteq Jobs BY DEF Live
        <5> HIDE DEF L
        <5>3. w.job \in L BY <5>1, <5>2, FirstIs
        <5> QED BY <5>3 DEF L
      <4>4. w.job \in Live BY <1>0, <4>1, <4>3, LiveMoves, Zenon
      <4>5. FifoHead # None
        <5>1. Live # {} /\ Live \subseteq Jobs BY <4>4, Zenon DEF Live
        <5>2. FifoHead \in Live BY <5>1, FirstIs DEF FifoHead
        <5> QED BY <5>1, <5>2, MergeAssumption
      <4>6. FifoHead \in Live BY <4>5, HeadIsLive
      <4>7. FifoHead \in Live' BY <1>0, <3>2, <4>5, HeadMoves
      <4> QED BY <1>0, <3>2, <4>7, HeadMoves
    <3> QED BY <1>0, <2>6, <3>1, <3>2, Zenon DEF WorkLine
  <2>7. w.at \in {"importMain", "importDelivered"} => delivered'.srcs = w.op.before.srcs
    BY <1>0, <1>3, Zenon DEF WorkLine
  <2> QED BY <1>7, <2>1, <2>2, <2>3, <2>4, <2>5, <2>6, <2>7, Zenon DEF WorkLine
<1>8. CASE w' # w
  <2>0. Arrival BY <1>8, Arrives
  <2>1. ASSUME w'.at = "saveDelivered" PROVE job'[w'.job].merged.srcs \subseteq delivered'.srcs
    <3>1. Deliver /\ w'.job = w.job BY <2>0, <2>1, Zenon DEF Arrival, Reached
    <3>2. (delivered' = job[w.job].merged /\ job' = job) \/ Release
      BY <3>1, Zenon DEF Deliver, Throws
    <3> QED BY <2>1, <3>1, <3>2, Releases, Zenon
  <2>2. ASSUME w'.at = "finish" PROVE job'[w'.job].merged.srcs \subseteq delivered'.srcs
    <3>1. SaveDelivered /\ w'.job = w.job BY <2>0, <2>2 DEF Arrival, Reached
    <3>2. w.at = "saveDelivered" /\ job' = job /\ delivered' = delivered
      BY <3>1 DEF SaveDelivered, At, refs
    <3> QED BY <1>0, <3>1, <3>2, Zenon DEF WorkLine
  <2>3. ASSUME w'.at = "reviseDelivered" PROVE w'.job \in main'.srcs
    <3>1. ReviseMain /\ w'.job = w.job BY <2>0, <2>3 DEF Arrival, Reached
    <3>2. w.at = "reviseMain" /\ (main' = w.op.target \/ Release) BY <3>1 DEF ReviseMain, At
    <3>3. w.op \in ops /\ w.op.kind = "writeback_revision" /\ w.job = w.op.job
      BY <1>5, <3>2 DEF Revising
    <3>4. w.job \in w.op.target.srcs BY <1>0, <3>3, Zenon DEF OpsLine, OpLine
    <3> QED BY <2>3, <3>1, <3>2, <3>4, Releases
  <2>4. ASSUME w'.at = "reviseJob" PROVE w'.job = FifoHead'
    <3>1. ReviseDelivered /\ w'.job = w.job BY <2>0, <2>4, Zenon DEF Arrival, Reached
    <3>2. w.at = "reviseDelivered" /\ job' = job /\ (delivered \in {job[w.job].external, w.op.external} \/ Release)
      BY <3>1, Zenon DEF ReviseDelivered, At
    <3>3. w.op \in ops /\ w.op.kind = "writeback_revision" /\ w.job = w.op.job /\ w.job \in Jobs
      BY <1>5, <3>2, Zenon DEF Revising
    <3>4. job[w.job].external.srcs = w.op.external.srcs BY <1>0, <3>3, Zenon DEF OpsLine, OpLine
    <3>5. job[w.job].external # None BY <3>3, Zenon DEF TypeInv, OpsOK, OpOK, JobsOK, JobOK
    <3>6. w.job \notin job[w.job].external.srcs BY <1>0, <3>3, <3>5, Zenon DEF JobsLine, JobLine
    <3>7. w.job \notin delivered.srcs BY <2>4, <3>2, <3>4, <3>6, Releases, Zenon
    <3>8. w.job = FifoHead BY <1>0, <3>2, <3>7, Zenon DEF WorkLine, RefsLine
    <3> QED BY <1>2, <3>1, <3>2, <3>8
  <2>5. ASSUME w'.at = "reviseRow" PROVE w'.job = FifoHead'
    <3>1. ReviseJob /\ w'.job = w.job BY <2>0, <2>5, Zenon DEF Arrival, Reached
    <3>2. w.at = "reviseJob" BY <3>1 DEF ReviseJob, At
    <3>3. w.job = FifoHead /\ w.job \in Jobs BY <1>0, <1>5, <3>2, Zenon DEF WorkLine, Revising
    <3> QED BY <1>1, <3>1, <3>2, <3>3, MergeAssumption, Zenon
  <2>6. ASSUME w'.at = "cancelDelivered" PROVE w'.job = FifoHead' /\ main'.srcs = w'.op.target.srcs
    <3>1. CancelMain /\ w'.job = w.job /\ w'.op = w.op
      BY <2>0, <2>6, Zenon DEF Arrival, Reached, Writing
    <3>2. /\ job' = job
          /\ Goto("cancelJob") \/ Release \/ (FifoHead = w.job /\ main' = w.op.target)
      BY <3>1, Zenon DEF CancelMain
    <3>3. "cancelJob" \in Steps BY DEF Steps, Cancelling
    <3>4. FifoHead = w.job /\ main' = w.op.target BY <1>0, <2>6, <3>2, <3>3, GoesTo, Releases, Zenon
    <3> QED BY <1>2, <3>1, <3>2, <3>4
  <2>7. ASSUME w'.at = "cancelRow" PROVE w'.job = FifoHead' /\ main'.srcs = delivered'.srcs
    <3>1. CancelDelivered /\ w'.job = w.job BY <2>0, <2>7, Zenon DEF Arrival, Reached
    <3>2. w.at = "cancelDelivered" /\ job' = job /\ main' = main /\ delivered' = w.op.target
      BY <3>1, Zenon DEF CancelDelivered, At
    <3> QED BY <1>0, <1>2, <3>1, <3>2, Zenon DEF WorkLine
  <2>8. ASSUME w'.at = "cancelJob" PROVE FifoHead' # w'.job \/ main'.srcs = delivered'.srcs
    <3>1. (CancelMain \/ CancelRow) /\ w'.job = w.job BY <2>0, <2>8, Zenon DEF Arrival, Reached
    <3>2. CASE CancelMain
      <4>1. job' = job /\ (FifoHead # w.job \/ Release \/ Goto("cancelDelivered"))
        BY <3>2, Zenon DEF CancelMain
      <4>2. "cancelDelivered" \in Steps BY DEF Steps, Cancelling
      <4> QED BY <1>0, <1>2, <2>8, <3>1, <4>1, <4>2, GoesTo, Releases, Zenon
    <3>3. CASE CancelRow
      <4>1. w.at = "cancelRow" /\ main' = main /\ delivered' = delivered
        BY <3>3 DEF CancelRow, At, refs
      <4> QED BY <1>0, <4>1, Zenon DEF WorkLine
    <3> QED BY <3>1, <3>2, <3>3
  <2>9. ASSUME w'.at = "importMain" PROVE delivered'.srcs = w'.op.before.srcs
    <3>1. ImportExternal BY <2>0, <2>9, Zenon DEF Arrival
    <3>2. "importMain" \in Steps BY DEF Steps, Importing
    <3>3. delivered' = delivered BY <3>1, Zenon DEF ImportExternal, refs
    <3>4. \E op : op.before = delivered /\ Begin("importMain", op)
      <4> DEFINE op == [no |-> NextNo, kind |-> "external", job |-> None, before |-> delivered,
                        target |-> Capture(delivered, 0)]
      <4>1. Begin("importMain", op) BY <3>1, Zenon DEF ImportExternal
      <4>2. op.before = delivered BY Zenon
      <4> HIDE DEF op
      <4> QED BY <4>1, <4>2
    <3> QED BY <1>0, <3>2, <3>3, <3>4, Begins, Zenon
  <2>10. ASSUME w'.at = "importDelivered" PROVE delivered'.srcs = w'.op.before.srcs
    <3>1. ImportMain /\ w'.op = w.op BY <2>0, <2>10, Zenon DEF Arrival, Reached, Writing
    <3>2. w.at = "importMain" /\ delivered' = delivered BY <3>1, Zenon DEF ImportMain, At
    <3> QED BY <1>0, <3>1, <3>2, Zenon DEF WorkLine
  <2> QED BY <2>1, <2>2, <2>3, <2>4, <2>5, <2>6, <2>7, <2>8, <2>9, <2>10, Zenon DEF WorkLine
<1> QED BY <1>7, <1>8

\* Before the first job there is one commit.
LEMMA LineInit == Init => LineInv
<1> SUFFICES ASSUME Init PROVE LineInv OBVIOUS
<1>1. /\ main = Root /\ delivered = Root /\ job = [j \in Jobs |-> NoJob]
      /\ intent = [j \in Jobs |-> None] /\ pin = [j \in Jobs |-> None] /\ files = [j \in Jobs |-> NoFiles]
      /\ integ = NoMerge /\ ops = {} /\ w = NoWork
  BY Zenon DEF Init
<1>2. Live = {} BY <1>1, Zenon DEF Live, NoJob, Ended
<1>3. \A j \in Jobs : JobLine(j)
  BY <1>1, <1>2, Zenon DEF JobLine, Rows, Taken, NoJob, NoFiles
<1>4. RefsLine
  <2>1. Root.srcs = {} BY Zenon DEF Root, Commit
  <2> QED BY <1>1, <2>1, Zenon DEF RefsLine
<1>5. OpsLine /\ CancelLine BY <1>1, Zenon DEF OpsLine, CancelLine
<1>6. IntegLine BY <1>1, Zenon DEF IntegLine, NoMerge
<1>7. WorkLine BY <1>1, Zenon DEF WorkLine, NoWork
<1> QED BY <1>3, <1>4, <1>5, <1>6, <1>7 DEF LineInv, JobsLine

\* Every step keeps the line, while no cancellation is left unfinished.
LEMMA LineStep == TypeInv /\ KeepInv /\ LineInv /\ Settled /\ Settled' /\ Next => LineInv'
<1> SUFFICES ASSUME TypeInv, KeepInv, LineInv, Settled, Settled', Next PROVE LineInv' OBVIOUS
<1>1. JobsLine' BY JobLineStep DEF JobsLine
<1>2. RefsLine' BY RefsLineStep
<1>3. OpsLine' BY OpsLineStep
<1>4. CancelLine' BY CancelLineStep
<1>5. IntegLine' BY IntegLineStep
<1>6. WorkLine' BY WorkLineStep
<1> QED BY <1>1, <1>2, <1>3, <1>4, <1>5, <1>6 DEF LineInv

\* A step that changes nothing keeps it.
LEMMA LineStutter == LineInv /\ UNCHANGED vars => LineInv'
<1> SUFFICES ASSUME LineInv, UNCHANGED vars PROVE LineInv' OBVIOUS
<1>1. UNCHANGED <<main, delivered, job, intent, pin, files, integ, ops, w>> BY Zenon DEF vars, refs
<1>2. FifoHead' = FifoHead /\ Live' = Live BY <1>1, Zenon DEF FifoHead, Live
<1>3. JobsLine'
  <2>1. ASSUME NEW j \in Jobs PROVE JobLine(j)'
    <3>1. JobLine(j) BY DEF LineInv, JobsLine
    <3> QED BY <1>1, <1>2, <3>1, Zenon DEF JobLine, Builds, Rows, Taken, Top
  <2> QED BY <2>1 DEF JobsLine
<1>4. RefsLine' BY <1>1, <1>2, Zenon DEF LineInv, RefsLine, Placed
<1>5. OpsLine' /\ CancelLine' BY <1>1, Zenon DEF LineInv, OpsLine, OpLine, CancelLine, Due
<1>6. IntegLine' /\ WorkLine' BY <1>1, <1>2, Zenon DEF LineInv, IntegLine, WorkLine
<1> QED BY <1>3, <1>4, <1>5, <1>6, Zenon DEF LineInv
=============================================================================
