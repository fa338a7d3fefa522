--------------------------- MODULE WorkspaceMerge ---------------------------
(***************************************************************************)
(* The delivery of finished work to the user's folder: the merge queue of  *)
(* one Workspace (workspace-merge-worker.ts), the file by file writeback   *)
(* (workspace-writeback-service.ts), the import of the user's own edits    *)
(* (conversation-worktree-service.ts) and the startup recovery of the      *)
(* Workspace (workspace-git-recovery.ts).                                  *)
(*                                                                         *)
(* Three stores take part and no transaction spans them: Git refs, rows of *)
(* the database and the user's files.  Whoever moves refs or files holds   *)
(* the integration lock, so there is one worker, `w`; the user edits files *)
(* at any time, a Git or file operation may fail, the Server may die       *)
(* between any two writes.                                                 *)
(*                                                                         *)
(* The content of a file is the set of edits it has taken in: job j adds   *)
(* the edit j to the files it changes, the user adds fresh edits.  A       *)
(* commit is its tree, the edits of its whole ancestry (past), the source  *)
(* commits among its ancestors (srcs) and who made it (by).                *)
(***************************************************************************)
EXTENDS Integers

CONSTANTS
    Jobs,         \* merge jobs, numbered in the order they are queued
    Paths,        \* the files of the Workspace, in manifest order
    Edits,        \* the user's edits, numbered in the order they are made
    Changes,      \* Changes[j]: the files the session of job j changed
    None,
    MaxCrashes,   \* bound: deaths of the Server
    MaxFaults     \* bound: Git or file operations that fail

Marks == (Jobs \cup Edits) \X Paths
Trees == [Paths -> SUBSET (Jobs \cup Edits)]
Commits == [tree : Trees, by : Jobs \cup {0, None}, past : SUBSET Marks,
            srcs : SUBSET Jobs]
Intents == [before : Commits, target : Commits]
FileRows == [before : SUBSET (Jobs \cup Edits), after : SUBSET (Jobs \cup Edits),
             state : {"pending", "prepared", "applied", "conflicted"}]

\* The queue, the manifest and the operations are read in order (ORDER BY).
IsFirst(x, S) == \A y \in S : x <= y
First(S) == CHOOSE x \in S : IsFirst(x, S)
Last(S) == CHOOSE x \in S : \A y \in S : y <= x

ASSUME MergeAssumption ==
    /\ Jobs \subseteq Int \ {0} /\ Paths \subseteq Int
    /\ Edits \subseteq Nat /\ Edits \cap Jobs = {}
    /\ Changes \in [Jobs -> SUBSET Paths]
    /\ None \notin Jobs \cup Paths \cup Edits \cup Commits \cup Intents \cup FileRows
    /\ MaxCrashes \in Nat /\ MaxFaults \in Nat
\* Jobs and files are numbered so that each set of them has a first.
ASSUME OrderAssumption ==
    \A S \in (SUBSET Jobs) \cup (SUBSET Paths) : S # {} => \E x \in S : IsFirst(x, S)

VARIABLES
    main,         \* refs/heads/main
    delivered,    \* refs/metawork/delivered
    row,          \* workspace_git_roots: mainCommit, deliveredCommit, state
    user,         \* the user's files
    job,          \* workspace_merge_jobs
    intent,       \* the operation row of kind merge of a job
    pin,          \* refs/metawork/operations/<operation of the job>
    files,        \* workspace_merge_files
    integ,        \* the integration worktree: MERGE_HEAD and its index
    ops,          \* unfinished operation rows of the other kinds, numbered by age
    w,            \* the holder of the integration lock and its progress
    crashes, faults,
    made,         \* history: the edits the user made
    raced,        \* history: edits made between the last comparison and the rename
    waived,       \* history: edits a decision of the user gave up
    swept         \* history: edits of files that were not written to the end, replaced
                  \* by a decision about another file

vars == <<main, delivered, row, user, job, intent, pin, files, integ, ops, w,
          crashes, faults, made, raced, waived, swept>>

MarksOf(tree) == {m \in Marks : m[1] \in tree[m[2]]}

\* git commit-tree: the same tree committed by another operation is another commit.
Commit(tree, parents, by) ==
    [tree |-> tree, by |-> by,
     past |-> MarksOf(tree) \cup UNION {c.past : c \in parents},
     srcs |-> UNION {c.srcs : c \in parents}]

\* captureUserRoot: the parent itself when the user's files are its tree.
Capture(parent, by) ==
    IF user = parent.tree THEN parent ELSE Commit(user, {parent}, by)

IsAncestor(source, c) == source.srcs \subseteq c.srcs /\ source.past \subseteq c.past

\* Git's three-way merge of one file: one side unchanged, both alike, or changes that
\* Git can combine or not.
Clean(base, ours, theirs) ==
    (ours \cup theirs) \ ((base \ ours) \cup (base \ theirs))
Clashing(base, ours, theirs) ==
    {p \in Paths : ours[p] # base[p] /\ theirs[p] # base[p] /\ ours[p] # theirs[p]}

NoMerge == [source |-> None, tree |-> None, conflicts |-> {}]
NoFiles == [p \in Paths |-> None]
NoJob == [state |-> "none", source |-> None, base |-> None, external |-> None, merged |-> None]
NoWork == [at |-> "idle", job |-> None, left |-> {}, op |-> None, todo |-> {}, boot |-> FALSE]
Root == Commit([p \in Paths |-> {}], {}, None)

Ended == {"delivered", "cancelled"}
Live == {j \in Jobs : job[j].state \notin Ended \cup {"none"}}
\* head: the oldest job that is not over.
FifoHead == IF Live = {} THEN None ELSE First(Live)

-----------------------------------------------------------------------------
(* The worker's moves. *)

At(step) == w.at = step
Goto(step) == w' = [w EXCEPT !.at = step]
\* The lock is released; during startup the recovery goes on to validateRoot.
Release == w' = IF w.boot THEN [NoWork EXCEPT !.at = "validate", !.boot = TRUE] ELSE NoWork

\* The catch branch of drain.
Throws ==
    /\ job' = [job EXCEPT ![w.job].state = "recovering"]
    /\ Release

\* The row of the file, then that of the job: a replay between the two finds the same
\* conflict again.
WritebackConflict(p) ==
    /\ files' = [files EXCEPT ![w.job][p].state = "conflicted"]
    /\ job' = [job EXCEPT ![w.job].state = "conflicted"]
    /\ Release

refs == <<main, delivered>>
notes == <<crashes, faults, made, raced, waived, swept>>

\* Mutant: a drain takes up new jobs only.
DrainQueuedOnly ==
    /\ At("idle") /\ row.state = "ready"
    /\ FifoHead # None /\ job[FifoHead].state = "queued"
    /\ Goto("head")
    /\ UNCHANGED <<refs, row, user, job, intent, pin, files, integ, ops, notes>>

Drain ==
    /\ At("idle") /\ row.state = "ready"
    /\ FifoHead # None /\ job[FifoHead].state # "conflicted"
    /\ Goto("head")
    /\ UNCHANGED <<refs, row, user, job, intent, pin, files, integ, ops, notes>>

\* Mutant: a job that was being written is taken for written.
TakeHeadDelivers ==
    /\ At("head")
    /\ IF FifoHead = None \/ job[FifoHead].state = "conflicted" THEN Release
       ELSE LET j == job[FifoHead] IN
            w' = [w EXCEPT !.job = FifoHead,
                           !.at = IF j.state = "writing" THEN "deliver"
                                  ELSE IF j.merged # None THEN "advance"
                                  ELSE IF j.state = "queued" \/ j.external = None THEN "prepare"
                                  ELSE "merge"]
    /\ UNCHANGED <<refs, row, user, job, intent, pin, files, integ, ops, notes>>

\* The loop of drain and where process takes up the job: from its durable fields.
TakeHead ==
    /\ At("head")
    /\ IF FifoHead = None \/ job[FifoHead].state = "conflicted" THEN Release
       ELSE LET j == job[FifoHead] IN
            w' = [w EXCEPT !.job = FifoHead,
                           !.at = IF j.merged # None THEN "advance"
                                  ELSE IF j.state = "queued" \/ j.external = None THEN "prepare"
                                  ELSE "merge"]
    /\ UNCHANGED <<refs, row, user, job, intent, pin, files, integ, ops, notes>>

\* The user's edits become the external commit, recorded before any ref moves; a
\* replay takes the recorded one.
Prepare ==
    /\ At("prepare")
    /\ job' = [job EXCEPT ![w.job].state = "preparing"]
    /\ intent' = IF intent[w.job] # None THEN intent
                 ELSE [intent EXCEPT ![w.job] = [before |-> delivered,
                                                 target |-> Capture(delivered, w.job)]]
    /\ Goto("moveMain")
    /\ UNCHANGED <<refs, row, user, pin, files, integ, ops, notes>>

MoveMain ==
    /\ At("moveMain")
    /\ LET i == intent[w.job] IN
       IF main \in {i.before, i.target}
       THEN main' = i.target /\ Goto("moveDelivered") /\ UNCHANGED job
       ELSE Throws /\ UNCHANGED main
    /\ UNCHANGED <<delivered, row, user, intent, pin, files, integ, ops, notes>>

MoveDelivered ==
    /\ At("moveDelivered")
    /\ LET i == intent[w.job] IN
       IF delivered \in {i.before, i.target}
       THEN delivered' = i.target /\ Goto("saveExternal") /\ UNCHANGED job
       ELSE Throws /\ UNCHANGED delivered
    /\ UNCHANGED <<main, row, user, intent, pin, files, integ, ops, notes>>

SaveExternal ==
    /\ At("saveExternal")
    /\ row' = [row EXCEPT !.main = intent[w.job].target, !.delivered = intent[w.job].target]
    /\ Goto("adoptExternal")
    /\ UNCHANGED <<refs, user, job, intent, pin, files, integ, ops, notes>>

AdoptExternal ==
    /\ At("adoptExternal")
    /\ job' = [job EXCEPT ![w.job].state = "merging", ![w.job].external = intent[w.job].target]
    /\ Goto("merge")
    /\ UNCHANGED <<refs, row, user, intent, pin, files, integ, ops, notes>>

\* A pinned merge commit is taken as it is; a source that is already in costs
\* nothing; a merge left in the integration worktree is continued; otherwise Git
\* merges the source into the external commit.
Merge ==
    /\ At("merge")
    /\ LET j == job[w.job] IN
       \/ /\ pin[w.job] # None
          /\ job' = [job EXCEPT ![w.job].state = "merging", ![w.job].merged = pin[w.job]]
          /\ Goto("advance") /\ UNCHANGED <<pin, integ>>
       \/ /\ pin[w.job] = None /\ IsAncestor(j.source, j.external)
          /\ job' = [job EXCEPT ![w.job].state = "merging", ![w.job].merged = j.external]
          /\ pin' = [pin EXCEPT ![w.job] = j.external]
          /\ Goto("advance") /\ UNCHANGED integ
       \/ /\ pin[w.job] = None /\ ~IsAncestor(j.source, j.external)
          /\ integ.source = None
          /\ \E clash \in SUBSET Clashing(j.base.tree, j.external.tree, j.source.tree) :
                integ' = [source |-> j.source, conflicts |-> clash,
                          tree |-> [p \in Paths |-> Clean(j.base.tree[p], j.external.tree[p],
                                                          j.source.tree[p])]]
          /\ Goto("commit") /\ UNCHANGED <<job, pin>>
       \/ /\ pin[w.job] = None /\ ~IsAncestor(j.source, j.external)
          /\ integ.source # None
          /\ IF integ.source = j.source THEN Goto("commit") /\ UNCHANGED job ELSE Throws
          /\ UNCHANGED <<pin, integ>>
    /\ UNCHANGED <<refs, row, user, intent, files, ops, notes>>

\* Unmerged paths make the job conflicted; else the merge commit is made and pinned.
CommitMerge ==
    /\ At("commit")
    /\ IF integ.conflicts # {}
       THEN /\ job' = [job EXCEPT ![w.job].state = "conflicted"]
            /\ Release /\ UNCHANGED pin
       ELSE /\ pin' = [pin EXCEPT ![w.job] =
                          Commit(integ.tree, {job[w.job].external, job[w.job].source}, w.job)]
            /\ Goto("merge") /\ UNCHANGED job
    /\ UNCHANGED <<refs, row, user, intent, files, integ, ops, notes>>

\* Mutant: main must still be where the merge began.
AdvanceOnce ==
    /\ At("advance")
    /\ LET j == job[w.job] IN
       IF main = j.external
       THEN main' = j.merged /\ Goto("reset") /\ UNCHANGED job
       ELSE Throws /\ UNCHANGED main
    /\ UNCHANGED <<delivered, row, user, intent, pin, files, integ, ops, notes>>

Advance ==
    /\ At("advance")
    /\ LET j == job[w.job] IN
       IF main \in {j.external, j.merged}
       THEN main' = j.merged /\ Goto("reset") /\ UNCHANGED job
       ELSE Throws /\ UNCHANGED main
    /\ UNCHANGED <<delivered, row, user, intent, pin, files, integ, ops, notes>>

Reset ==
    /\ At("reset")
    /\ integ' = NoMerge
    /\ row' = [row EXCEPT !.main = job[w.job].merged]
    /\ Goto("manifest")
    /\ UNCHANGED <<refs, user, job, intent, pin, files, ops, notes>>

\* manifest and saveFiles: a file that already has a row keeps it.
Manifest(rows, external, merged) ==
    [p \in Paths |->
        IF rows[p] # None \/ external.tree[p] = merged.tree[p] THEN rows[p]
        ELSE [before |-> external.tree[p], after |-> merged.tree[p], state |-> "pending"]]

StartWriting ==
    /\ At("manifest")
    /\ LET j == job[w.job]
           rows == Manifest(files[w.job], j.external, j.merged) IN
       /\ files' = [files EXCEPT ![w.job] = rows]
       /\ job' = [job EXCEPT ![w.job].state = "writing"]
       /\ w' = [w EXCEPT !.at = "file", !.left = {p \in Paths : rows[p] # None}]
    /\ UNCHANGED <<refs, row, user, intent, pin, integ, ops, notes>>

SetFile(p, state) == files' = [files EXCEPT ![w.job][p].state = state]

\* The first look at a file: written by an earlier pass, changed by the user, or to
\* be written.
ApplyFile ==
    /\ At("file") /\ w.left # {}
    /\ LET p == First(w.left)
           f == files[w.job][p] IN
       IF user[p] = f.after /\ f.state # "pending"
       THEN SetFile(p, "applied") /\ w' = [w EXCEPT !.left = @ \ {p}] /\ UNCHANGED job
       ELSE IF user[p] # f.before THEN WritebackConflict(p)
       ELSE SetFile(p, "prepared") /\ Goto("recheck") /\ UNCHANGED job
    /\ UNCHANGED <<refs, row, user, intent, pin, integ, ops, notes>>

\* Mutant: the first look at the file is trusted.
RecheckTrusts ==
    /\ At("recheck") /\ Goto("rename")
    /\ UNCHANGED <<refs, row, user, job, intent, pin, files, integ, ops, notes>>

\* The temporary file is on disk; the last comparison before the rename.
Recheck ==
    /\ At("recheck")
    /\ LET p == First(w.left) IN
       IF user[p] # files[w.job][p].before THEN WritebackConflict(p)
       ELSE Goto("rename") /\ UNCHANGED <<files, job>>
    /\ UNCHANGED <<refs, row, user, intent, pin, integ, ops, notes>>

Rename ==
    /\ At("rename")
    /\ user' = [user EXCEPT ![First(w.left)] = files[w.job][First(w.left)].after]
    /\ Goto("observe")
    /\ UNCHANGED <<refs, row, job, intent, pin, files, integ, ops, notes>>

Observe ==
    /\ At("observe")
    /\ LET p == First(w.left) IN
       IF user[p] # files[w.job][p].after THEN WritebackConflict(p)
       ELSE SetFile(p, "applied") /\ UNCHANGED job
            /\ w' = [w EXCEPT !.at = "file", !.left = @ \ {p}]
    /\ UNCHANGED <<refs, row, user, intent, pin, integ, ops, notes>>

\* verify: every file of the manifest once more.
Verify ==
    /\ At("file") /\ w.left = {}
    /\ LET changed == {p \in Paths : files[w.job][p] # None /\ user[p] # files[w.job][p].after} IN
       IF changed # {} THEN WritebackConflict(First(changed))
       ELSE Goto("deliver") /\ UNCHANGED <<files, job>>
    /\ UNCHANGED <<refs, row, user, intent, pin, integ, ops, notes>>

Deliver ==
    /\ At("deliver")
    /\ LET j == job[w.job] IN
       IF delivered \in {j.external, j.merged}
       THEN delivered' = j.merged /\ Goto("saveDelivered") /\ UNCHANGED job
       ELSE Throws /\ UNCHANGED delivered
    /\ UNCHANGED <<main, row, user, intent, pin, files, integ, ops, notes>>

SaveDelivered ==
    /\ At("saveDelivered")
    /\ row' = [row EXCEPT !.main = job[w.job].merged, !.delivered = job[w.job].merged]
    /\ Goto("finish")
    /\ UNCHANGED <<refs, user, job, intent, pin, files, integ, ops, notes>>

FinishJob ==
    /\ At("finish")
    /\ job' = [job EXCEPT ![w.job].state = "delivered"]
    /\ Goto("head")
    /\ UNCHANGED <<refs, row, user, intent, pin, files, integ, ops, notes>>

Processing == {"prepare", "moveMain", "moveDelivered", "saveExternal", "adoptExternal", "merge",
               "commit", "advance", "reset", "manifest", "file", "recheck", "rename", "observe",
               "deliver", "saveDelivered", "finish"}

Process ==
    \/ TakeHead \/ Prepare \/ MoveMain \/ MoveDelivered \/ SaveExternal \/ AdoptExternal
    \/ Merge \/ CommitMerge \/ Advance \/ Reset \/ StartWriting \/ ApplyFile \/ Recheck
    \/ Rename \/ Observe \/ Verify \/ Deliver \/ SaveDelivered \/ FinishJob

-----------------------------------------------------------------------------
(* Decisions of the user on a conflicted job. *)

\* The end of an operation other than a drain: inside the recovery loop the next
\* one follows, otherwise the lock is released.
Begin(step, op) == w' = [w EXCEPT !.at = step, !.op = op, !.job = op.job]
EndOp(op) ==
    w' = IF w.todo = {} THEN NoWork ELSE [w EXCEPT !.at = "recover", !.todo = @ \ {op}]
NextNo == 1 + Last({0} \cup {o.no : o \in ops})
Oldest(op, open) == \A o \in open : op.no <= o.no

Actions == {"keep_main", "take_session", "resolved_file"}
Chosen(action, ours, theirs) ==
    CASE action = "keep_main" -> ours
      [] action = "take_session" -> theirs
      [] action = "resolved_file" -> ours \cup theirs
\* The edits a decision gives up: those of the side that was not taken.
GivenUp(choice, ours, theirs) ==
    {m \in Marks : m[2] \in DOMAIN choice
        /\ m[1] \in (ours[m[2]] \cup theirs[m[2]])
                        \ Chosen(choice[m[2]], ours[m[2]], theirs[m[2]])}

Undecided(j) ==
    IF job[j].merged = None THEN integ.conflicts
    ELSE {p \in Paths : files[j][p] # None /\ files[j][p].state = "conflicted"}

\* resolve, Git found the conflict: the chosen versions are recorded, then staged.
ResolveMerge(j) ==
    /\ At("idle") /\ job[j].state = "conflicted" /\ job[j].merged = None
    /\ \E decided \in (SUBSET Undecided(j)) \ {{}} : \E choice \in [decided -> Actions] :
          LET same == {o \in ops : o.kind = "resolve_index" /\ o.job = j /\ o.choice = choice}
              new == [no |-> NextNo, kind |-> "resolve_index", job |-> j, choice |-> choice] IN
          \E op \in IF same = {} THEN {new} ELSE same :
             /\ ops' = ops \cup {op}
             /\ waived' = waived \cup GivenUp(choice, job[j].external.tree, job[j].source.tree)
             /\ Begin("index", op)
    /\ UNCHANGED <<refs, row, user, job, intent, pin, files, integ, crashes, faults, made, raced,
                   swept>>

\* Mutant: the two sides of the merge are exchanged.
StageIndexSwapped ==
    /\ At("index")
    /\ integ' = IF integ.source = None THEN integ ELSE [integ EXCEPT
          !.tree = [p \in Paths |->
                       IF p \notin DOMAIN w.op.choice THEN integ.tree[p]
                       ELSE Chosen(w.op.choice[p], job[w.job].source.tree[p],
                                   job[w.job].external.tree[p])],
          !.conflicts = @ \ DOMAIN w.op.choice]
    /\ Goto("staged")
    /\ UNCHANGED <<refs, row, user, job, intent, pin, files, ops, notes>>

\* Without a merge in progress (cancelled and not yet recorded so) the next reset
\* drops what is staged.
StageIndex ==
    /\ At("index")
    /\ integ' = IF integ.source = None THEN integ ELSE [integ EXCEPT
          !.tree = [p \in Paths |->
                       IF p \notin DOMAIN w.op.choice THEN integ.tree[p]
                       ELSE Chosen(w.op.choice[p], job[w.job].external.tree[p],
                                   job[w.job].source.tree[p])],
          !.conflicts = @ \ DOMAIN w.op.choice]
    /\ Goto("staged")
    /\ UNCHANGED <<refs, row, user, job, intent, pin, files, ops, notes>>

\* The conflict version moves on, which makes every older index decision stale.
FinishIndex ==
    /\ At("staged")
    /\ job' = [job EXCEPT ![w.job].state = IF integ.conflicts = {} THEN "merging" ELSE "conflicted"]
    /\ ops' = {o \in ops : ~(o.kind = "resolve_index" /\ o.job = w.job)}
    /\ EndOp(w.op)
    /\ UNCHANGED <<refs, row, user, intent, pin, files, integ, notes>>

\* auditApplied: written files the user changed since are conflicts of their own.
Reedited(j) ==
    {p \in Paths : /\ files[j][p] # None /\ files[j][p].state = "applied"
                   /\ user[p] # files[j][p].after}
AuditRefuses(j) ==
    /\ At("idle") /\ job[j].state = "conflicted" /\ job[j].merged # None
    /\ Reedited(j) # {}
    /\ files' = [files EXCEPT ![j] = [p \in Paths |->
                    IF p \in Reedited(j) THEN [@[p] EXCEPT !.state = "conflicted"] ELSE @[p]]]
    /\ UNCHANGED <<refs, row, user, job, intent, pin, integ, ops, w, notes>>

\* reviseWriteback: a new external commit from the files as they are, and on top of it
\* what is still to be written.  Only conflicted files have a decision; a recorded
\* revision of the same merge commit is replayed instead (ResolveAgain).
Revised(j, external, choice) ==
    [p \in Paths |->
        IF files[j][p] = None THEN external.tree[p]
        ELSE IF files[j][p].state = "applied" THEN external.tree[p]
        ELSE IF p \in DOMAIN choice
             THEN Chosen(choice[p], external.tree[p], files[j][p].after)
             ELSE files[j][p].after]

ResolveWriteback(j) ==
    /\ At("idle") /\ job[j].state = "conflicted" /\ job[j].merged # None
    /\ \A o \in ops :
          ~(o.kind = "writeback_revision" /\ o.job = j /\ o.before = job[j].merged)
    /\ Reedited(j) = {}
    /\ \E choice \in [Undecided(j) -> Actions] :
          LET external == Capture(job[j].external, j)
              merged == Commit(Revised(j, external, choice), {external, job[j].merged}, j)
              op == [no |-> NextNo, kind |-> "writeback_revision", job |-> j,
                     before |-> job[j].merged, target |-> merged, external |-> external]
              after == [p \in Paths |-> IF files[j][p] = None THEN {} ELSE files[j][p].after] IN
          /\ ops' = ops \cup {op}
          /\ waived' = waived \cup GivenUp(choice, external.tree, after)
          /\ swept' = swept \cup {m \in MarksOf(external.tree) \ MarksOf(merged.tree) :
                                     m[2] \notin DOMAIN choice}
          /\ Begin("reviseMain", op)
    /\ UNCHANGED <<refs, row, user, job, intent, pin, files, integ, crashes, faults, made, raced>>

\* resolve again after a failure: the recorded decision is finished.
ResolveAgain(j) ==
    /\ At("idle")
    /\ \E o \in ops :
          /\ o.job = j
          /\ \/ o.kind = "resolve_index" /\ job[j].state = "conflicted" /\ Begin("index", o)
             \/ o.kind = "writeback_revision" /\ Begin("reviseMain", o)
    /\ UNCHANGED <<refs, row, user, job, intent, pin, files, integ, ops, notes>>

\* finishRevision, ref by ref; a ref that is neither old nor new makes it throw.
ReviseMain ==
    /\ At("reviseMain")
    /\ IF main \in {w.op.before, w.op.target}
       THEN main' = w.op.target /\ Goto("reviseDelivered")
       ELSE Release /\ UNCHANGED main
    /\ UNCHANGED <<delivered, row, user, job, intent, pin, files, integ, ops, notes>>

ReviseDelivered ==
    /\ At("reviseDelivered")
    /\ IF delivered \in {job[w.job].external, w.op.external}
       THEN delivered' = w.op.external /\ Goto("reviseJob")
       ELSE Release /\ UNCHANGED delivered
    /\ UNCHANGED <<main, row, user, job, intent, pin, files, integ, ops, notes>>

\* reviseManifest: the old manifest goes and the job takes the new commits, at once.
ReviseJob ==
    /\ At("reviseJob")
    /\ IF job[w.job].merged = w.op.target THEN UNCHANGED <<job, files>>
       ELSE /\ files' = [files EXCEPT ![w.job] = NoFiles]
            /\ job' = [job EXCEPT ![w.job].state = "writing", ![w.job].external = w.op.external,
                                  ![w.job].merged = w.op.target]
    /\ Goto("reviseRow")
    /\ UNCHANGED <<refs, row, user, intent, pin, integ, ops, notes>>

ReviseRow ==
    /\ At("reviseRow")
    /\ row' = [row EXCEPT !.main = w.op.target, !.delivered = w.op.external]
    /\ files' = [files EXCEPT ![w.job] = Manifest(@, w.op.external, w.op.target)]
    /\ ops' = ops \ {w.op}
    /\ EndOp(w.op)
    /\ UNCHANGED <<refs, user, job, intent, pin, integ, notes>>

-----------------------------------------------------------------------------
(* Cancellation, at any time before the end of the job. *)

Partial(j) == \E p \in Paths : files[j][p] # None /\ files[j][p].state # "pending"

\* A job nothing was written for goes back to what is delivered; else the user keeps
\* the files as they are.  A second request must preserve the same commit.
Cancel(j) ==
    /\ At("idle") /\ j \in Live
    /\ LET parent == IF job[j].merged # None THEN job[j].merged ELSE delivered
           preserved == IF Partial(j) THEN Capture(parent, j) ELSE delivered
           old == {o \in ops : o.kind = "merge_cancel" /\ o.job = j}
           new == [no |-> NextNo, kind |-> "merge_cancel", job |-> j, target |-> preserved] IN
       \E op \in IF old = {} THEN {new} ELSE {o \in old : o.target = preserved} :
          ops' = ops \cup {op} /\ Begin("cancelMain", op)
    /\ UNCHANGED <<refs, row, user, job, intent, pin, files, integ, notes>>

\* finishCancellation: only the head of the queue has moved refs.
CancelMain ==
    /\ At("cancelMain")
    /\ LET j == job[w.job] IN
       IF FifoHead # w.job THEN Goto("cancelJob") /\ UNCHANGED main
       ELSE IF main \in {row.main, j.merged, j.external, w.op.target}
       THEN main' = w.op.target /\ Goto("cancelDelivered")
       ELSE Release /\ UNCHANGED main
    /\ UNCHANGED <<delivered, row, user, job, intent, pin, files, integ, ops, notes>>

CancelDelivered ==
    /\ At("cancelDelivered")
    /\ delivered' = w.op.target
    /\ Goto("cancelRow")
    /\ UNCHANGED <<main, row, user, job, intent, pin, files, integ, ops, notes>>

CancelRow ==
    /\ At("cancelRow")
    /\ integ' = NoMerge
    /\ row' = [row EXCEPT !.main = w.op.target, !.delivered = w.op.target]
    /\ Goto("cancelJob")
    /\ UNCHANGED <<refs, user, job, intent, pin, files, ops, notes>>

\* Mutant: the merge commit is forgotten, its manifest is not.
CancelJobForgets ==
    /\ At("cancelJob")
    /\ job' = [job EXCEPT ![w.job].state = "cancelled", ![w.job].merged = None]
    /\ Goto("cancelled")
    /\ UNCHANGED <<refs, row, user, intent, pin, files, integ, ops, notes>>

CancelJob ==
    /\ At("cancelJob")
    /\ job' = [job EXCEPT ![w.job].state = "cancelled"]
    /\ Goto("cancelled")
    /\ UNCHANGED <<refs, row, user, intent, pin, files, integ, ops, notes>>

FinishCancel ==
    /\ At("cancelled")
    /\ ops' = ops \ {w.op}
    /\ EndOp(w.op)
    /\ UNCHANGED <<refs, row, user, job, intent, pin, files, integ, notes>>

-----------------------------------------------------------------------------
(* Import of the user's edits while the queue is empty. *)

Valid == main = row.main /\ delivered = row.delivered

ImportExternal ==
    /\ At("idle") /\ row.state = "ready" /\ FifoHead = None /\ Valid
    /\ user # delivered.tree
    /\ LET op == [no |-> NextNo, kind |-> "external", job |-> None, before |-> delivered,
                  target |-> Capture(delivered, 0)] IN
       ops' = ops \cup {op} /\ Begin("importMain", op)
    /\ UNCHANGED <<refs, row, user, job, intent, pin, files, integ, notes>>

ImportMain ==
    /\ At("importMain")
    /\ IF main = w.op.before THEN main' = w.op.target /\ Goto("importDelivered")
       ELSE Release /\ UNCHANGED main
    /\ UNCHANGED <<delivered, row, user, job, intent, pin, files, integ, ops, notes>>

ImportDelivered ==
    /\ At("importDelivered")
    /\ delivered' = w.op.target
    /\ Goto("importRow")
    /\ UNCHANGED <<main, row, user, job, intent, pin, files, integ, ops, notes>>

ImportRow ==
    /\ At("importRow")
    /\ integ' = NoMerge
    /\ row' = [row EXCEPT !.main = w.op.target, !.delivered = w.op.target]
    /\ ops' = ops \ {w.op}
    /\ EndOp(w.op)
    /\ UNCHANGED <<refs, user, job, intent, pin, files, notes>>

-----------------------------------------------------------------------------
(* Recovery: at startup, and by the user's retry. *)

\* WorkspaceGitRecovery first finishes interrupted imports, one after the other.
RecoverImport ==
    /\ At("boot")
    /\ LET open == {o \in ops : o.kind = "external"} IN
       IF open = {}
       THEN /\ row' = [row EXCEPT !.state = "recovering"]
            /\ w' = [w EXCEPT !.at = "recover", !.todo = ops]
            /\ UNCHANGED <<refs, integ, ops>>
       ELSE \E op \in open :
            /\ Oldest(op, open)
            /\ IF {main, delivered} \subseteq {op.before, op.target}
               THEN /\ main' = op.target /\ delivered' = op.target
                    /\ integ' = NoMerge
                    /\ row' = [row EXCEPT !.main = op.target, !.delivered = op.target]
                    /\ ops' = ops \ {op}
                    /\ UNCHANGED w
               ELSE /\ row' = [row EXCEPT !.state = "failed"]
                    /\ w' = NoWork
                    /\ UNCHANGED <<refs, integ, ops>>
    /\ UNCHANGED <<user, job, intent, pin, files, notes>>

\* The loop of recover over the unfinished operations.
RecoverNext ==
    /\ At("recover")
    /\ IF w.todo = {} THEN Goto("head") /\ UNCHANGED ops
       ELSE \E op \in w.todo :
            /\ Oldest(op, w.todo)
            /\ \/ /\ op.kind = "resolve_index" /\ op \in ops /\ job[op.job].state = "conflicted"
                  /\ Begin("index", op) /\ UNCHANGED ops
               \/ /\ op.kind = "resolve_index"
                  /\ op \notin ops \/ job[op.job].state # "conflicted"
                  /\ ops' = ops \ {op} /\ EndOp(op)
               \/ /\ op.kind = "writeback_revision"
                  /\ Begin("reviseMain", op) /\ UNCHANGED ops
               \/ /\ op.kind = "merge_cancel"
                  /\ Begin("cancelMain", op) /\ UNCHANGED ops
               \/ /\ op.kind = "external" /\ EndOp(op) /\ UNCHANGED ops
    /\ UNCHANGED <<refs, row, user, job, intent, pin, files, integ, notes>>

Retry(j) ==
    /\ At("idle") /\ row.state = "ready"
    /\ job[j].state \notin {"none", "conflicted"}
    /\ w' = [w EXCEPT !.at = "recover", !.todo = ops]
    /\ UNCHANGED <<refs, row, user, job, intent, pin, files, integ, ops, notes>>

\* validateRoot, the end of the startup of the Workspace.
Validate ==
    /\ At("validate")
    /\ row' = [row EXCEPT !.state = IF Valid THEN "ready" ELSE "failed"]
    /\ w' = NoWork
    /\ UNCHANGED <<refs, user, job, intent, pin, files, integ, ops, notes>>

Operate ==
    \/ StageIndex \/ FinishIndex \/ ReviseMain \/ ReviseDelivered \/ ReviseJob \/ ReviseRow
    \/ CancelMain \/ CancelDelivered \/ CancelRow \/ CancelJob \/ FinishCancel
    \/ ImportMain \/ ImportDelivered \/ ImportRow
    \/ RecoverImport \/ RecoverNext \/ Validate

-----------------------------------------------------------------------------
(* The environment. *)

\* A Task is sealed and queued: new work on top of what was delivered when its session
\* started, or the session as it was synchronised, for a new generation of a Task that
\* has nothing new.
Enqueue(j) ==
    /\ ~w.boot
    /\ job[j].state = "none" /\ \A i \in Jobs : i < j => job[i].state # "none"
    /\ LET work == Commit([p \in Paths |-> IF p \in Changes[j] THEN delivered.tree[p] \cup {j}
                                           ELSE delivered.tree[p]], {delivered}, j) IN
       \E source \in {[work EXCEPT !.srcs = @ \cup {j}], delivered} :
          job' = [job EXCEPT ![j].state = "queued", ![j].base = delivered, ![j].source = source]
    /\ UNCHANGED <<refs, row, user, intent, pin, files, integ, ops, w, notes>>

\* The user saves a file, also while the worker is about to replace it.
Edit(p, e) ==
    /\ {m[1] : m \in made} = {d \in Edits : d < e}
    /\ user' = [user EXCEPT ![p] = @ \cup {e}]
    /\ made' = made \cup {<<e, p>>}
    /\ raced' = IF At("rename") /\ First(w.left) = p THEN raced \cup {<<e, p>>} ELSE raced
    /\ UNCHANGED <<refs, row, job, intent, pin, files, integ, ops, w, crashes, faults, waived,
                   swept>>

\* A Git command or a file operation fails.
Fault ==
    /\ faults < MaxFaults
    /\ faults' = faults + 1
    /\ \/ w.at \in Processing /\ Throws
       \/ /\ w.at \notin Processing \cup {"idle", "head", "boot", "recover", "validate"}
          /\ Release /\ UNCHANGED job
    /\ UNCHANGED <<refs, row, user, intent, pin, files, integ, ops, crashes, made, raced, waived,
                   swept>>

\* The Server dies and starts again; the lock of a dead process is taken over.
Crash ==
    /\ crashes < MaxCrashes
    /\ crashes' = crashes + 1
    /\ w' = [NoWork EXCEPT !.at = "boot", !.boot = TRUE]
    /\ UNCHANGED <<refs, row, user, job, intent, pin, files, integ, ops, faults, made, raced, waived,
                   swept>>

Init ==
    /\ main = Root /\ delivered = Root
    /\ row = [main |-> Root, delivered |-> Root, state |-> "ready"]
    /\ user = Root.tree
    /\ job = [j \in Jobs |-> NoJob]
    /\ intent = [j \in Jobs |-> None] /\ pin = [j \in Jobs |-> None]
    /\ files = [j \in Jobs |-> NoFiles]
    /\ integ = NoMerge /\ ops = {} /\ w = NoWork
    /\ crashes = 0 /\ faults = 0 /\ made = {} /\ raced = {} /\ waived = {} /\ swept = {}

Decide(j) ==
    \/ ResolveMerge(j) \/ AuditRefuses(j) \/ ResolveWriteback(j) \/ ResolveAgain(j)
    \/ Cancel(j) \/ Retry(j)

Next ==
    \/ Process \/ Operate \/ Drain \/ ImportExternal
    \/ \E j \in Jobs : Enqueue(j) \/ Decide(j)
    \/ \E p \in Paths, e \in Edits : Edit(p, e)
    \/ Fault \/ Crash

Spec == Init /\ [][Next]_vars

\* The lock holder goes on.  Whoever queues, resolves or cancels drains next, and a drain
\* waits for the lock until it has it: requests of the user that fail at once do not keep
\* it out for ever.
FairSpec == Spec /\ WF_vars(Process) /\ WF_vars(Operate) /\ SF_vars(Drain)

-----------------------------------------------------------------------------
(* Properties. *)

JobStates == {"none", "queued", "preparing", "merging", "conflicted", "recovering", "writing"}
                \cup Ended

\* Every ref, row and file has a value of its type; only files of the manifest of a job
\* with a merge commit have a writeback row (manifest, saveFiles).
TypeOK ==
    /\ main \in Commits /\ delivered \in Commits /\ user \in Trees
    /\ row.main \in Commits /\ row.delivered \in Commits
    /\ row.state \in {"ready", "recovering", "failed"}
    /\ \A j \in Jobs :
          /\ job[j].state \in JobStates
          /\ pin[j] # None => pin[j] \in Commits
          /\ \A p \in Paths : files[j][p] # None => files[j][p] \in FileRows /\ job[j].merged # None
    /\ integ.conflicts \subseteq Paths
    /\ made \subseteq Marks /\ raced \subseteq made /\ waived \subseteq Marks /\ swept \subseteq Marks

\* No cancellation is left unfinished while the lock is free: one that failed half-way is
\* replayed later with the target it recorded (see the README).
Settled == At("idle") => \A o \in ops : o.kind # "merge_cancel"

InFolder(m) == m[1] \in user[m[2]]

\* As long as no cancellation is left unfinished, no edit of the user is lost for good: it
\* is in the file or in the history of main, whatever was merged, decided, revised,
\* cancelled or cut short.  The only exception is an edit between the last comparison and
\* the rename (apply).
Recoverable == \A m \in made : InFolder(m) \/ m \in main.past \/ m \in raced
EditsRecoverable == []Settled => []Recoverable

\* The folder never loses an edit of the user, across conflicts, revisions, cancellations,
\* failures and restarts, unless a decision of the user gave it up (apply keeps a file that
\* changed, "保留当前内容").  Two exceptions: an edit between the last comparison and the
\* rename, and an edit of a file that was not written to the end when the user decided about
\* another one (reviseWriteback takes it for the state before and writes over it).
EditsStay == \A m \in made : InFolder(m) \/ m \in raced \cup waived \cup swept

\* What a job reports as delivered is in the user's folder, except for what a decision
\* on a conflict gave up (process, apply, verify), also after later jobs.  In general this
\* is claimed only while no cancellation is left unfinished (Settled): its replay takes the
\* refs back behind what was delivered since.
DeliveredIsThere ==
    \A j \in Jobs : job[j].state = "delivered" =>
        \A m \in MarksOf(job[j].source.tree) \ MarksOf(job[j].base.tree) :
            InFolder(m) \/ m \in waived

\* The delivered ref moved, its row was not saved, and a written file of the job has an
\* edit the manifest does not know.
EditedBeforeSaved(j) ==
    /\ job[j].state = "conflicted"
    /\ delivered = job[j].merged /\ row.delivered = job[j].external
    /\ \E p \in Paths : /\ files[j][p] # None /\ files[j][p].state = "conflicted"
                       /\ user[p] \cap Edits # files[j][p].after \cap Edits

\* A Server that dies between any two writes comes back by itself: without a failed Git
\* or file operation no job becomes recovering, and startup fails the Workspace only if
\* it died after the delivered ref had moved and before its row was saved, and the user
\* edited a written file after it was verified (process replayed from its durable fields,
\* recover, validateRoot).
CrashStep ==
    faults' = 0 =>
        /\ \A j \in Jobs : job'[j].state # "recovering"
        /\ row.state # "failed" /\ row'.state = "failed" =>
              main = row.main /\ \E j \in Jobs : EditedBeforeSaved(j)
CrashesRecover == [][CrashStep]_vars

\* A queued job is delivered or cancelled, also across deaths of the Server and after
\* requests that fail, unless a job at or before it waits for the user (a conflict, a
\* failed operation to retry) or startup found the Workspace inconsistent (drain, recover).
QueueMoves ==
    \A j \in Jobs :
        job[j].state = "queued" ~>
            \/ job[j].state \in Ended
            \/ \E i \in Jobs : i <= j /\ job[i].state \in {"conflicted", "recovering"}
            \/ row.state = "failed"
=============================================================================
