----------------------- MODULE WorkspaceMergeDelivers -----------------------
(***************************************************************************)
(* Proofs about WorkspaceMerge: what a job delivered is in the folder      *)
(* (DeliveredIsThere).  The jobs' work is followed from the source through *)
(* the merge, its commit and the rows of the manifest to the files, and    *)
(* from the folder back through every capture into the next job's commits  *)
(* (HasInv).  A merge that left it out, or a row written from an older     *)
(* commit, would take it from the folder at the next rename; that the      *)
(* commits come one after the other is LineInv.                            *)
(***************************************************************************)
EXTENDS WorkspaceMergeLine

-----------------------------------------------------------------------------
(* The inductive invariant. *)

\* What the jobs wrote in one tree is in the other as well, or was given up.
WorkIn(old, new, up) == \A p \in Paths : \A x \in old[p] : x \in Jobs => x \in new[p] \/ <<x, p>> \in up
\* What a job adds to the files.
Added(j) == [p \in Paths |-> job[j].source.tree[p] \ job[j].base.tree[p]]
\* What its merge commit holds in the files without a row: they need not be written.
Unwritten(j) == [p \in Paths |-> IF files[j][p] = None THEN job[j].merged.tree[p] ELSE {}]

\* The user's edits are not the work of a job.
MarksHave == (\A m \in made : m[1] \in Edits) /\ (\A m \in swept : m[1] \in Jobs => m \in waived)
\* The commits that capture the folder are in the folder; the merge commit of a job has what
\* the job adds, its rows write that commit, and on top of it nothing of another job is lost.
JobHas(j) ==
    /\ intent[j] # None => WorkIn(intent[j].target.tree, user, waived)
    /\ job[j].external # None => WorkIn(job[j].external.tree, user, waived)
    /\ job[j].merged # None => WorkIn(Added(j), job[j].merged.tree, waived)
    /\ job[j].merged = None /\ pin[j] # None => WorkIn(Added(j), pin[j].tree, waived)
    /\ \A p \in Paths : files[j][p] # None => files[j][p].after = job[j].merged.tree[p]
    /\ job[j].state = "conflicted" /\ job[j].merged # None => WorkIn(Unwritten(j), user, waived)
    /\ Taken(j) => WorkIn(user, Top(j).tree, waived)
JobsHave == \A j \in Jobs : JobHas(j)
\* The merge in progress has what the head of the queue adds.
IntegHas ==
    integ.source # None /\ job[FifoHead].merged = None => WorkIn(Added(FifoHead), integ.tree, waived)
\* A revision is of the folder, and changes nothing of the jobs' work in the merge commit.
OpHas(o) ==
    o.kind = "writeback_revision" =>
       /\ WorkIn(o.external.tree, user, waived)
       /\ WorkIn(o.target.tree, job[o.job].merged.tree, waived)
       /\ WorkIn(job[o.job].merged.tree, o.target.tree, waived)
OpsHave == \A o \in ops : OpHas(o)
\* What the writeback relies on, and what it has shown once every file is verified.
WorkHas ==
    /\ w.at \in Writing => WorkIn(Unwritten(w.job), user, waived)
    /\ w.at \in {"deliver", "saveDelivered", "finish"} => WorkIn(job[w.job].merged.tree, user, waived)
    /\ w.at = "reviseRow" => job[w.job].merged = w.op.target
\* A delivered job is in the folder.
DeliveredHave == \A j \in Jobs : job[j].state = "delivered" => WorkIn(Added(j), user, waived)
HasInv == MarksHave /\ JobsHave /\ IntegHas /\ OpsHave /\ WorkHas /\ DeliveredHave

-----------------------------------------------------------------------------
(* What a step does to the jobs' work in the folder. *)

\* Two steps make one, and what is given up stays so.
LEMMA WorkTrans ==
    ASSUME NEW a, NEW b, NEW c, NEW u, NEW v, u \subseteq v, WorkIn(a, b, u), WorkIn(b, c, v)
    PROVE  WorkIn(a, c, v)
  BY Zenon DEF WorkIn

\* What is given up later only helps.
LEMMA WorkGrows ==
    ASSUME Next, NEW a, NEW b, WorkIn(a, b, waived)
    PROVE  WorkIn(a, b, waived')
  BY GoneGrows, Zenon DEF WorkIn

\* The folder keeps the jobs' work.
LEMMA FolderStays ==
    ASSUME TypeInv, KeepInv, MarksHave, Next
    PROVE  WorkIn(user, user', waived')
<1> SUFFICES ASSUME NEW p \in Paths, NEW x \in user[p], x \in Jobs, x \notin user'[p]
             PROVE  <<x, p>> \in waived'
  BY DEF WorkIn
<1>1. <<x, p>> \in Gone \/ <<x, p>> \in raced BY FolderLoses DEF KeepInv
<1>2. <<x, p>> \notin raced
  <2>1. <<x, p>> \notin made BY MergeAssumption DEF MarksHave
  <2> QED BY <2>1 DEF TypeInv, FolderOK
<1>3. <<x, p>> \in waived BY <1>1, <1>2 DEF Gone, MarksHave
<1> QED BY <1>3, GoneGrows

\* So what is there stays there.
LEMMA ThereStays ==
    ASSUME TypeInv, KeepInv, MarksHave, Next, NEW a, WorkIn(a, user, waived)
    PROVE  WorkIn(a, user', waived')
<1>1. waived \subseteq waived' BY GoneGrows
<1> QED BY <1>1, FolderStays, WorkTrans

\* The files without a row are the fewer, the longer the merge commit stands.
LEMMA UnwrittenStays ==
    ASSUME TypeInv, KeepInv, MarksHave, Next, NEW j \in Jobs, WorkIn(Unwritten(j), user, waived),
           job'[j].merged = job[j].merged, ~ReviseJob \/ files'[j] = files[j]
    PROVE  WorkIn(Unwritten(j)', user', waived')
<1>1. \A p \in Paths : files[j][p] # None => files'[j][p] # None BY RowsStay
<1>2. WorkIn(Unwritten(j)', user, waived) BY <1>1 DEF WorkIn, Unwritten
<1> DEFINE a == Unwritten(j)'
<1> HIDE DEF a
<1>3. WorkIn(a, user, waived) BY <1>2 DEF a
<1>4. WorkIn(a, user', waived') BY <1>3, ThereStays
<1> QED BY <1>4 DEF a

\* What a job adds is fixed once it is queued.
LEMMA AddedStays ==
    ASSUME TypeInv, KeepInv, Next, NEW j \in Jobs, job[j].state # "none"
    PROVE  Added(j)' = Added(j)
<1>1. job'[j].source = job[j].source /\ job'[j].base = job[j].base BY JobsMove DEF JobStep, KeepInv
<1> QED BY <1>1 DEF Added

-----------------------------------------------------------------------------
(* The steps keep the invariant. *)

\* What is swept on a revision is in the merge commit the revision is of.
LEMMA MarksHaveStep ==
    ASSUME TypeInv, KeepInv, HasInv, Next
    PROVE  MarksHave'
\* A writeback is resolved with one new revision.
<1>ResolvedIs.
    ASSUME TypeInv, Next, NEW j \in Jobs, ResolveWriteback(j)
    PROVE  \E o \in ops' : \E choice \in [Undecided(j) -> Actions] : Rewrites(j, o, choice)
  <2>1. PICK o \in ops' : o \notin ops /\ o.kind = "writeback_revision" /\ o.job = j
    <3>1. PICK c, e : ops' = ops \cup {[no |-> NextNo, kind |-> "writeback_revision", job |-> j,
                                        before |-> job[j].merged, target |-> c, external |-> e]}
      BY <1>ResolvedIs, Zenon DEF ResolveWriteback
    <3> DEFINE op == [no |-> NextNo, kind |-> "writeback_revision", job |-> j, before |-> job[j].merged,
                      target |-> c, external |-> e]
    <3>2. op.kind = "writeback_revision" /\ op.job = j /\ op.before = job[j].merged OBVIOUS
    <3> HIDE DEF op
    <3>3. op \notin ops BY <1>ResolvedIs, <3>2, Zenon DEF ResolveWriteback
    <3> QED BY <3>1, <3>2, <3>3 DEF op
  <2>2. PICK i \in Jobs : \E choice \in [Undecided(i) -> Actions] : Rewrites(i, o, choice)
    BY <2>1, NewOps, Zenon DEF Indexes
  <2>3. i = j BY <2>1, <2>2, Zenon DEF Rewrites
  <2> QED BY <2>2, <2>3
<1>0. MarksHave /\ JobsHave BY DEF HasInv
<1>1. \A m \in made' : m[1] \in Edits
  <2>1. CASE UNCHANGED <<user, made, raced>> BY <1>0, <2>1 DEF MarksHave
  <2>2. CASE Rename BY <1>0, <2>2, Zenon DEF Rename, notes, MarksHave
  <2>3. ASSUME NEW p \in Paths, NEW e \in Edits, Edit(p, e) PROVE \A m \in made' : m[1] \in Edits
    <3>1. made' = made \cup {<<e, p>>} BY <2>3 DEF Edit
    <3> QED BY <1>0, <3>1 DEF MarksHave
  <2> QED BY <2>1, <2>2, <2>3, UserMoves
<1>2. waived \subseteq waived' BY GoneGrows
<1>3. ASSUME NEW m \in swept', m \notin swept, m[1] \in Jobs PROVE m \in waived'
  <2>1. PICK j \in Jobs : ResolveWriteback(j) BY <1>3, WaivedMoves, Zenon DEF ResolveMerge
  <2>2. PICK o \in ops', choice \in [Undecided(j) -> Actions] : Rewrites(j, o, choice)
    BY <2>1, <1>ResolvedIs
  <2>3. m \in MarksOf(o.external.tree) \ MarksOf(o.target.tree) /\ m[2] \notin DOMAIN choice
    BY <1>3, <2>2, Zenon DEF Rewrites
  <2>4. /\ job[j].state = "conflicted" /\ job[j].merged # None /\ o.external.tree = user
        /\ \A p \in Paths : o.target.tree[p] =
              IF files[j][p] = None THEN user[p]
              ELSE IF files[j][p].state = "applied" THEN user[p]
              ELSE IF p \in DOMAIN choice THEN Chosen(choice[p], user[p], files[j][p].after)
              ELSE files[j][p].after
    BY <2>2, RevisionIs
  <2>5. Taken(j) /\ Top(j) = job[j].merged
    BY <2>4, Zenon DEF TypeInv, JobsOK, JobOK, Taken, Top, Live, Ended
  <2>6. WorkIn(user, job[j].merged.tree, waived) BY <1>0, <2>5 DEF JobsHave, JobHas
  <2>7. m \in Marks /\ m[2] \in Paths /\ m[1] \in user[m[2]] /\ m[1] \notin o.target.tree[m[2]] /\ m = <<m[1], m[2]>>
    BY <2>3, <2>4 DEF MarksOf, Marks
  <2>8. files[j][m[2]] # None /\ o.target.tree[m[2]] = files[j][m[2]].after BY <2>3, <2>4, <2>7
  <2>9. files[j][m[2]].after = job[j].merged.tree[m[2]] BY <1>0, <2>7, <2>8 DEF JobsHave, JobHas
  <2>10. <<m[1], m[2]>> \in waived BY <1>3, <2>6, <2>7, <2>8, <2>9 DEF WorkIn
  <2> QED BY <1>2, <2>7, <2>10
<1> QED BY <1>0, <1>1, <1>2, <1>3 DEF MarksHave

\* What a job captured of the folder, the merge commits and the rows it makes of it.
LEMMA CommitsHave ==
    ASSUME TypeInv, KeepInv, LineInv, HasInv, Next, NEW j \in Jobs
    PROVE  /\ intent'[j] # None => WorkIn(intent'[j].target.tree, user', waived')
           /\ job'[j].external # None => WorkIn(job'[j].external.tree, user', waived')
           /\ job'[j].merged # None => WorkIn(Added(j)', job'[j].merged.tree, waived')
           /\ job'[j].merged = None /\ pin'[j] # None => WorkIn(Added(j)', pin'[j].tree, waived')
<1>0. MarksHave /\ JobHas(j) /\ IntegHas /\ OpsHave /\ OpsLine /\ JobLine(j) /\ Stands
  BY DEF HasInv, JobsHave, LineInv, JobsLine, KeepInv
<1>1. ASSUME intent'[j] # None PROVE WorkIn(intent'[j].target.tree, user', waived')
  <2>1. CASE intent'[j] = intent[j] BY <1>0, <1>1, <2>1, ThereStays DEF JobHas
  <2>2. CASE intent'[j] # intent[j]
    <3> DEFINE c == Capture(delivered, j)
    <3>1. intent'[j] = [before |-> delivered, target |-> c] BY <2>2, Pinned, Zenon
    <3>2. c.tree = user BY CaptureIs DEF TypeInv, RefsOK
    <3> HIDE DEF c
    <3>3. intent'[j].target.tree = user BY <3>1, <3>2
    <3> QED BY <1>0, <3>3, FolderStays
  <2> QED BY <2>1, <2>2
<1>2. ASSUME job[j].merged # None
      PROVE  /\ \/ job'[j].merged = job[j].merged /\ job'[j].external = job[j].external
                \/ /\ job'[j].merged = w.op.target /\ job'[j].external = w.op.external
                   /\ WorkIn(w.op.external.tree, user, waived) /\ WorkIn(job[j].merged.tree, w.op.target.tree, waived)
             /\ job'[j].merged # None /\ job[j].external # None
  <2>1. job[j].external # None BY <1>2, Zenon DEF TypeInv, JobsOK, JobOK
  <2>2. ASSUME Revisits(j)
        PROVE  WorkIn(w.op.external.tree, user, waived) /\ WorkIn(job[j].merged.tree, w.op.target.tree, waived)
    BY <1>0, <2>2, Zenon DEF Revisits, OpsHave, OpHas
  <2> QED BY <1>0, <1>2, <2>1, <2>2, MergedStays, Zenon DEF Revisits
<1>3. ASSUME job'[j].external # None PROVE WorkIn(job'[j].external.tree, user', waived')
  <2>1. CASE job[j].merged # None BY <1>0, <1>2, <2>1, ThereStays, Zenon DEF JobHas
  <2>2. CASE job[j].merged = None
    <3>1. \/ job[j].external # None /\ job'[j].external = job[j].external
          \/ intent[j] # None /\ job'[j].external = intent[j].target
      BY <1>3, <2>2, ExternalStays
    <3> QED BY <1>0, <3>1, ThereStays, Zenon DEF JobHas
  <2> QED BY <2>1, <2>2
<1>4. ASSUME job[j].state # "none" PROVE Added(j)' = Added(j) BY <1>4, AddedStays
<1>5. job[j].external # None => job[j].state # "none" BY DEF TypeInv, JobsOK, JobOK, NoJob
<1> DEFINE a == Added(j)
<1>6. ASSUME job[j].external # None PROVE Added(j)' = a BY <1>4, <1>5, <1>6
<1>7. job[j].source.tree = job[j].base.tree => WorkIn(a, job[j].external.tree, waived)
  BY DEF WorkIn, Added
<1>8. /\ job[j].merged # None => WorkIn(a, job[j].merged.tree, waived)
      /\ job[j].merged = None /\ pin[j] # None => WorkIn(a, pin[j].tree, waived)
  BY <1>0, Zenon DEF JobHas
<1>9. integ.source # None /\ job[FifoHead].merged = None /\ FifoHead = j => WorkIn(a, integ.tree, waived)
  BY <1>0 DEF IntegHas
<1> HIDE DEF a
<1>10. ASSUME job'[j].merged # None PROVE WorkIn(Added(j)', job'[j].merged.tree, waived')
  <2>1. CASE job[j].merged # None
    <3>1. WorkIn(a, job'[j].merged.tree, waived) BY <1>2, <1>8, <2>1, WorkTrans
    <3> QED BY <1>2, <1>6, <2>1, <3>1, WorkGrows
  <2>2. CASE job[j].merged = None
    <3>1. /\ job[j].external # None /\ job'[j].merged = IF pin[j] # None THEN pin[j] ELSE job[j].external
          /\ pin[j] = None => IsAncestor(job[j].source, job[j].external)
      BY <1>10, <2>2, ExternalStays
    <3>2. CASE pin[j] # None BY <1>6, <1>8, <2>2, <3>1, <3>2, WorkGrows
    <3>3. CASE pin[j] = None
      <4>1. j \notin job[j].source.srcs BY <1>0, <3>1, <3>3, Zenon DEF JobLine, IsAncestor
      <4>2. job[j].source.tree = job[j].base.tree BY <1>0, <1>5, <3>1, <4>1, Zenon DEF JobLine
      <4> QED BY <1>6, <1>7, <3>1, <3>3, <4>2, WorkGrows
    <3> QED BY <3>2, <3>3
  <2> QED BY <2>1, <2>2
<1>11. ASSUME job'[j].merged = None, pin'[j] # None PROVE WorkIn(Added(j)', pin'[j].tree, waived')
  <2>1. job[j].merged = None BY <1>2, <1>11
  <2>2. CASE pin'[j] = pin[j]
    <3>1. job[j].external # None BY <1>11, <2>2, Zenon DEF TypeInv, JobsOK, JobOK
    <3> QED BY <1>6, <1>8, <1>11, <2>1, <2>2, <3>1, WorkGrows
  <2>3. CASE pin'[j] # pin[j]
    <3>1. j = w.job /\ w.at = "commit" /\ pin'[j] = Commit(integ.tree, {job[j].external, job[j].source}, j)
      BY <1>11, <2>3, Pinned, Zenon
    <3>2. pin'[j].tree = integ.tree BY <3>1 DEF Commit
    <3>3. w.job = FifoHead /\ integ.source # None /\ job[j].external # None
      BY <1>0, <3>1, Zenon DEF Stands, Processing, Merging, TypeInv, Place
    <3>4. WorkIn(a, integ.tree, waived) BY <1>9, <2>1, <3>1, <3>3, Zenon
    <3> QED BY <1>6, <3>2, <3>3, <3>4, WorkGrows
  <2> QED BY <2>2, <2>3
<1> QED BY <1>1, <1>3, <1>10, <1>11

\* A row writes the merge commit of its job: a revision drops the rows first.
LEMMA RowsHave ==
    ASSUME TypeInv, KeepInv, LineInv, HasInv, Next, NEW j \in Jobs, NEW p \in Paths, files'[j][p] # None
    PROVE  files'[j][p].after = job'[j].merged.tree[p]
<1>0. JobHas(j) /\ WorkHas /\ OpsLine /\ RowStep(j, p)
  BY RowsMove, Zenon DEF HasInv, JobsHave, LineInv
<1>1. job[j].merged # None
  <2>1. CASE files[j][p] # None BY <2>1, Zenon DEF TypeInv, JobsOK, JobOK
  <2>2. CASE StartWriting /\ j = w.job
    BY <2>2, Zenon DEF StartWriting, At, TypeInv, Place, Merged
  <2>3. CASE ReviseRow /\ j = w.job
    <3>1. w.at \in Revising BY <2>3 DEF ReviseRow, At, Revising
    <3> QED BY <2>3, <3>1, ReviseKnown, Zenon
  <2> QED BY <1>0, <2>1, <2>2, <2>3, Zenon DEF RowStep
<1>2. CASE Revisits(j) /\ files[j][p] # None
  <2>1. j = w.job /\ ReviseJob BY <1>2, Zenon DEF Revisits
  <2>2. UNCHANGED <<job, files>> \/ files' = [files EXCEPT ![j] = NoFiles]
    BY <2>1, Zenon DEF ReviseJob
  <2>3. files' # [files EXCEPT ![j] = NoFiles] BY ZenonT(30) DEF TypeInv, JobsOK, NoFiles
  <2> QED BY <1>0, <1>2, <2>2, <2>3, Zenon DEF JobHas
<1>3. CASE job'[j].merged = job[j].merged /\ files[j][p] # None
  BY <1>0, <1>3, Zenon DEF RowStep, JobHas
<1>4. CASE files[j][p] = None /\ StartWriting /\ j = w.job
  <2>1. ~ReviseJob BY <1>4, Zenon DEF StartWriting, ReviseJob, At
  <2>2. job'[j].merged = job[j].merged BY <1>0, <1>1, <2>1, MergedStays DEF Revisits
  <2> QED BY <1>0, <1>4, <2>2 DEF RowStep, StartWriting, ReviseRow, At
<1>5. CASE files[j][p] = None /\ ReviseRow /\ j = w.job
  <2>1. w.at = "reviseRow" /\ job' = job BY <1>5 DEF ReviseRow, At
  <2> QED BY <1>0, <1>5, <2>1 DEF RowStep, WorkHas, StartWriting, At
<1> QED BY <1>0, <1>1, <1>2, <1>3, <1>4, <1>5, MergedStays, Zenon DEF RowStep

\* A conflict is found while the files are written; a job in conflict keeps its rows.
LEMMA RestHas ==
    ASSUME TypeInv, KeepInv, LineInv, HasInv, Next, NEW j \in Jobs,
           job'[j].state = "conflicted", job'[j].merged # None
    PROVE  WorkIn(Unwritten(j)', user', waived')
<1>0. MarksHave /\ JobHas(j) /\ WorkHas /\ OpsLine BY DEF HasInv, JobsHave, LineInv
<1>1. ASSUME ReviseJob PROVE job'[j] = job[j] /\ files'[j] = files[j]
  <2>1. w.job \in Jobs BY <1>1, Revises DEF KeepInv
  <2>2. \/ UNCHANGED <<job, files>>
        \/ /\ files' = [files EXCEPT ![w.job] = NoFiles]
           /\ job' = [job EXCEPT ![w.job].state = "writing", ![w.job].external = w.op.external,
                                 ![w.job].merged = w.op.target]
    BY <1>1, Zenon DEF ReviseJob
  <2>3. job \in [Jobs -> JobRows] /\ files \in [Jobs -> [Paths -> {None} \cup FileRows]]
    BY Zenon DEF TypeInv, JobsOK
  <2>4. CASE UNCHANGED <<job, files>> BY <2>4, Zenon
  <2>5. CASE /\ files' = [files EXCEPT ![w.job] = NoFiles]
             /\ job' = [job EXCEPT ![w.job].state = "writing", ![w.job].external = w.op.external,
                                   ![w.job].merged = w.op.target]
    <3>1. job'[w.job].state = "writing" BY <2>1, <2>3, <2>5, Zenon DEF JobRows
    <3>2. j # w.job BY <3>1, Zenon
    <3> QED BY <2>3, <2>5, <3>2, Zenon
  <2> QED BY <2>2, <2>4, <2>5
<1>2. CASE job[j].state = "conflicted"
  <2>1. ~Merge \/ j # w.job
    <3>1. Merge => w.at \in Processing BY Zenon DEF Merge, At, Processing
    <3> QED BY <1>2, <3>1, Zenon DEF KeepInv, Stands
  <2>2. job'[j].merged = job[j].merged BY <1>1, <2>1, JobsMove, Zenon DEF JobStep, KeepInv
  <2>3. WorkIn(Unwritten(j), user, waived) BY <1>0, <1>2, <2>2, Zenon DEF JobHas
  <2> QED BY <1>0, <1>1, <2>2, <2>3, UnwrittenStays, Zenon
<1>3. CASE job[j].state # "conflicted"
  <2>1. j = w.job /\ job'[j].merged = job[j].merged /\ w.at \in Writing BY <1>3, Conflicts, Zenon
  <2>2. WorkIn(Unwritten(j), user, waived) BY <1>0, <2>1, Zenon DEF WorkHas
  <2> QED BY <1>0, <1>1, <2>1, <2>2, UnwrittenStays, Zenon
<1> QED BY <1>2, <1>3

\* Only the writeback of the head of the queue writes a file, and what it writes is its
\* merge commit's.
LEMMA CoverHas ==
    ASSUME TypeInv, KeepInv, LineInv, HasInv, Next, NEW j \in Jobs, Taken(j)'
    PROVE  WorkIn(user', Top(j)'.tree, waived')
\* What a commit keeps of the folder, it keeps of the jobs' work.
<1>KeptWork.
    ASSUME MarksHave, NEW a, NEW b, Kept(a, b, Gone)
    PROVE  WorkIn(a, b, waived)
  <2> SUFFICES ASSUME NEW p \in Paths, NEW x \in a[p], x \in Jobs, x \notin b[p] PROVE <<x, p>> \in waived
    BY DEF WorkIn
  <2>1. <<x, p>> \in Gone BY <1>KeptWork, Zenon DEF Kept
  <2> QED BY <1>KeptWork, <2>1, Zenon DEF Gone, MarksHave
<1>0. MarksHave /\ JobHas(j) /\ OpsHave /\ Stands BY DEF HasInv, JobsHave, KeepInv
<1>1. waived \subseteq waived' BY GoneGrows
<1> DEFINE t == Top(j)
<1>2. Taken(j) => WorkIn(user, t.tree, waived) BY <1>0, Zenon DEF JobHas
<1>3. CASE Taken(j) /\ Top(j)' = t
  <2>1. j = FifoHead /\ WorkIn(user, t.tree, waived) BY <1>2, <1>3, TopMoves, Zenon
  <2>2. CASE UNCHANGED <<user, made, raced>>
    <3> HIDE DEF t
    <3>1. user' = user BY <2>2
    <3> QED BY <1>3, <2>1, <3>1, WorkGrows
  <2>3. CASE Rename
    <3>1. w.at = "rename" /\ w.at \in Writing \ {"file"} /\ w.at \in Processing
      BY <2>3, Zenon DEF Rename, At, Writing, Processing
    <3>2. w.job = j BY <1>0, <2>1, <3>1, Zenon DEF Stands
    <3> DEFINE q == First(w.left)
    <3>3. q \in Paths /\ files[j][q] \in FileRows BY <3>1, <3>2, RowOf, Zenon
    <3>4. files[j][q] # None BY <3>3, MergeAssumption
    <3>5. job[j].merged # None /\ files[j][q].after = job[j].merged.tree[q]
      BY <1>0, <3>3, <3>4, Zenon DEF JobHas, TypeInv, JobsOK, JobOK
    <3>6. t = job[j].merged BY <3>5, Zenon DEF Top
    <3>7. user' = [user EXCEPT ![q] = files[j][q].after] /\ user \in [Paths -> SUBSET (Jobs \cup Edits)]
      BY <2>3, <3>2, Zenon DEF Rename, TypeInv, FolderOK, Trees
    <3> HIDE DEF q, t
    <3>8. \A p \in Paths : user'[p] = user[p] \/ user'[p] = t.tree[p]
      BY <3>3, <3>5, <3>6, <3>7, Zenon
    <3>9. WorkIn(user', t.tree, waived') BY <1>1, <2>1, <3>8, Zenon DEF WorkIn
    <3> QED BY <1>3, <3>9
  <2>4. ASSUME NEW p \in Paths, NEW e \in Edits, Edit(p, e) PROVE WorkIn(user', Top(j)'.tree, waived')
    <3>1. user' = [user EXCEPT ![p] = @ \cup {e}] /\ user \in [Paths -> SUBSET (Jobs \cup Edits)]
      BY <2>4, Zenon DEF Edit, TypeInv, FolderOK, Trees
    <3>2. e \notin Jobs BY MergeAssumption
    <3> HIDE DEF t
    <3>3. \A q \in Paths : user'[q] \cap Jobs \subseteq user[q] BY <3>1, <3>2
    <3>4. WorkIn(user', t.tree, waived') BY <1>1, <2>1, <3>3 DEF WorkIn
    <3> QED BY <1>3, <3>4
  <2> QED BY <2>2, <2>3, <2>4, UserMoves, Zenon
<1>4. CASE Prepare /\ j = w.job /\ Top(j)' = Capture(delivered, j)
  <2>1. user' = user BY <1>4 DEF Prepare
  <2> DEFINE c == Capture(delivered, j)
  <2>2. c.tree = user BY CaptureIs DEF TypeInv, RefsOK
  <2> HIDE DEF c
  <2>3. WorkIn(user', c.tree, waived') BY <2>1, <2>2 DEF WorkIn
  <2> QED BY <1>4, <2>3 DEF c
<1>5. CASE /\ Taken(j) /\ Merge /\ j = w.job /\ t = job[j].external
           /\ job'[j].merged # None /\ Top(j)' = job'[j].merged
  <2>1. user' = user BY <1>5, Zenon DEF Merge
  <2>2. Kept(job[j].external.tree, job'[j].merged.tree, Gone) BY <1>5, Merges, Zenon DEF KeepInv
  <2>3. WorkIn(job[j].external.tree, job'[j].merged.tree, waived) BY <1>0, <2>2, <1>KeptWork, Zenon
  <2>4. WorkIn(user, job[j].external.tree, waived) BY <1>2, <1>5, Zenon
  <2>5. WorkIn(user, job'[j].merged.tree, waived) BY <2>3, <2>4, WorkTrans, ZenonT(30)
  <2> QED BY <1>5, <2>1, <2>5, WorkGrows, Zenon
<1>6. CASE Taken(j) /\ Revisits(j) /\ t = job[j].merged /\ Top(j)' = w.op.target
  <2>1. user' = user BY <1>6, Zenon DEF Revisits, ReviseJob
  <2>2. WorkIn(job[j].merged.tree, w.op.target.tree, waived)
    BY <1>0, <1>6, Zenon DEF Revisits, OpsHave, OpHas
  <2>3. WorkIn(user, job[j].merged.tree, waived) BY <1>2, <1>6
  <2>4. WorkIn(user, w.op.target.tree, waived) BY <2>2, <2>3, WorkTrans, ZenonT(30)
  <2> QED BY <1>6, <2>1, <2>4, WorkGrows
<1> QED BY <1>3, <1>4, <1>5, <1>6, TopMoves, Zenon

\* The commits and rows of a job keep the jobs' work.
LEMMA JobHasStep ==
    ASSUME TypeInv, KeepInv, LineInv, HasInv, Next, NEW j \in Jobs
    PROVE  JobHas(j)'
  BY CommitsHave, RowsHave, RestHas, CoverHas, Zenon DEF JobHas

\* Git's merge and the decisions on its conflicts keep what the job adds, or give it up.
LEMMA IntegHasStep ==
    ASSUME TypeInv, KeepInv, LineInv, HasInv, Next
    PROVE  IntegHas'
<1>0. IntegHas /\ IntegLine /\ OpsLine /\ OpsKeep /\ Stands /\ JobsLine
  BY DEF HasInv, LineInv, KeepInv
<1>1. CASE integ'.source = None BY <1>1, Zenon DEF IntegHas
<1>2. ASSUME integ.source # None, job'[FifoHead].merged = None
      PROVE  /\ FifoHead' = FifoHead /\ job[FifoHead].merged = None /\ WorkIn(Added(FifoHead), integ.tree, waived)
             /\ Added(FifoHead)' = [p \in Paths |-> job[FifoHead].source.tree[p] \ job[FifoHead].base.tree[p]]
  <2>1. FifoHead \in Jobs /\ job[FifoHead].state # "none" /\ FifoHead' = FifoHead
    BY <1>2, HeadOfMerge
  <2>2. job[FifoHead].merged = None BY <1>0, <1>2, <2>1, MergedStays, Zenon
  <2>3. job'[FifoHead].source = job[FifoHead].source /\ job'[FifoHead].base = job[FifoHead].base
    BY <2>1, JobsMove, Zenon DEF JobStep, KeepInv
  <2> QED BY <1>0, <1>2, <2>1, <2>2, <2>3, Zenon DEF IntegHas, Added
<1>3. ASSUME NEW b, WorkIn(Added(FifoHead), b, waived), integ.source # None, job'[FifoHead].merged = None
      PROVE  WorkIn(Added(FifoHead)', b, waived')
  <2>1. Added(FifoHead)' = Added(FifoHead) BY <1>2, <1>3, Zenon DEF Added
  <2> QED BY <1>3, <2>1, WorkGrows
<1>4. ASSUME integ' = integ, integ.source # None, job'[FifoHead'].merged = None
      PROVE  WorkIn(Added(FifoHead)', integ'.tree, waived')
  <2>1. FifoHead' = FifoHead BY <1>4, HeadOfMerge, Zenon
  <2> QED BY <1>2, <1>3, <1>4, <2>1, Zenon
<1>5. ASSUME Merge, job' = job,
             \A p \in Paths : integ'.tree[p] = Clean(job[w.job].base.tree[p], job[w.job].external.tree[p],
                                                     job[w.job].source.tree[p])
      PROVE  WorkIn(Added(FifoHead)', integ'.tree, waived')
  <2>1. w.at = "merge" BY <1>5, Zenon DEF Merge, At
  <2>2. w.job = FifoHead BY <1>0, <2>1, Zenon DEF Stands, Processing
  <2>3. FifoHead' = FifoHead BY <1>5, Zenon DEF FifoHead, Live
  <2>4. \A p \in Paths : \A x \in job[w.job].source.tree[p] \ job[w.job].base.tree[p] : x \in integ'.tree[p]
    BY <1>5, Zenon DEF Clean
  <2> QED BY <1>5, <2>2, <2>3, <2>4, Zenon DEF WorkIn, Added
<1>6. ASSUME StageIndex, integ.source # None,
             \A p \in Paths : integ'.tree[p] =
                IF p \notin DOMAIN w.op.choice THEN integ.tree[p]
                ELSE Chosen(w.op.choice[p], job[w.job].external.tree[p], job[w.job].source.tree[p]),
             job'[FifoHead'].merged = None
      PROVE  WorkIn(Added(FifoHead)', integ'.tree, waived')
  <2>1. w.at \in Indexing /\ job' = job BY <1>6 DEF StageIndex, At, Indexing
  <2>2. w.op \in ops /\ job[w.job].state = "conflicted" /\ w.op.kind = "resolve_index" /\ w.job = w.op.job
    BY <1>0, <2>1, Zenon DEF Stands, TypeInv, Place
  <2>3. w.job \in Jobs BY <2>2, Zenon DEF TypeInv, OpsOK, OpOK
  <2>4. job[w.job].external # None /\ job[w.job].source # None
    BY <2>2, <2>3, Zenon DEF TypeInv, JobsOK, JobOK
  <2>5. w.job = FifoHead
    <3>1. Taken(w.job) BY <2>2, <2>3, <2>4, Zenon DEF Taken, Live, Ended
    <3> QED BY <1>0, <2>3, <3>1, Zenon DEF JobsLine, JobLine
  <2>6. FifoHead' = FifoHead BY <1>6, HeadOfMerge, Zenon
  <2>7. WorkIn(Added(FifoHead), integ.tree, waived) BY <1>2, <1>6, <2>6, Zenon
  <2>8. GivenUp(w.op.choice, job[w.job].external.tree, job[w.job].source.tree) \subseteq waived
    BY <1>0, <2>2, Zenon DEF OpsKeep, OpKeeps
  <2>9. job[w.job].external.tree \in Trees /\ job[w.job].source.tree \in Trees
    <3>1. job[w.job].external \in Good /\ job[w.job].source \in Good
      BY <2>3, <2>4, Zenon DEF TypeInv, JobsOK, JobRows, Maybe
    <3> QED BY <3>1, GoodFields
  <2>10. ASSUME NEW p \in Paths, NEW x \in job[w.job].source.tree[p] \ job[w.job].base.tree[p], x \in Jobs,
                x \notin integ'.tree[p]
         PROVE  <<x, p>> \in waived
    <3>1. CASE p \notin DOMAIN w.op.choice
      <4>1. x \notin integ.tree[p] BY <1>6, <2>10, <3>1, Zenon
      <4>2. x \in Added(FifoHead)[p] BY <2>5, <2>10 DEF Added
      <4> QED BY <2>7, <2>10, <4>1, <4>2, Zenon DEF WorkIn
    <3>2. CASE p \in DOMAIN w.op.choice
      <4>1. x \notin Chosen(w.op.choice[p], job[w.job].external.tree[p], job[w.job].source.tree[p])
        BY <1>6, <2>10, <3>2, Zenon
      <4>2. <<x, p>> \in GivenUp(w.op.choice, job[w.job].external.tree, job[w.job].source.tree)
        <5>1. x \in job[w.job].external.tree[p] \cup job[w.job].source.tree[p] BY <2>10, Zenon
        <5> QED BY <2>9, <3>2, <4>1, <5>1, GivenUpHas, ZenonT(30)
      <4> QED BY <2>8, <4>2, Zenon
    <3> QED BY <3>1, <3>2
  <2>11. WorkIn(Added(FifoHead), integ'.tree, waived) BY <2>5, <2>10, Zenon DEF WorkIn, Added
  <2> DEFINE b == integ'.tree
  <2>12. WorkIn(Added(FifoHead), b, waived) BY <2>11
  <2> HIDE DEF b
  <2>13. WorkIn(Added(FifoHead)', b, waived') BY <1>3, <1>6, <2>6, <2>12, Zenon
  <2> QED BY <2>13 DEF b
<1> QED BY <1>1, <1>4, <1>5, <1>6, IntegMovesTo, Zenon DEF IntegStepOf, IntegHas

\* A revision is computed from the folder and its rows: of the jobs' work it changes only
\* what the decision gives up.
LEMMA RevisionHas ==
    ASSUME TypeInv, KeepInv, HasInv, Next, NEW j \in Jobs, NEW o, NEW choice \in [Undecided(j) -> Actions],
           Rewrites(j, o, choice)
    PROVE  /\ WorkIn(o.external.tree, user', waived')
           /\ WorkIn(o.target.tree, job'[j].merged.tree, waived')
           /\ WorkIn(job'[j].merged.tree, o.target.tree, waived')
<1>0. MarksHave /\ JobHas(j) BY DEF HasInv, JobsHave
<1> DEFINE after == [p \in Paths |-> IF files[j][p] = None THEN {} ELSE files[j][p].after]
           merged == job[j].merged.tree
<1>1. job[j].state = "conflicted" /\ job[j].merged # None /\ job' = job /\ o.external.tree = user
  BY RevisionIs, Zenon
<1>2. \A p \in Paths : o.target.tree[p] =
        IF files[j][p] = None THEN user[p]
        ELSE IF files[j][p].state = "applied" THEN user[p]
        ELSE IF p \in DOMAIN choice THEN Chosen(choice[p], user[p], files[j][p].after)
        ELSE files[j][p].after
  BY RevisionIs
<1>3. \A p \in DOMAIN choice : p \in Paths /\ files[j][p] # None BY RevisionIs, ZenonT(30)
<1>4. waived' = waived \cup GivenUp(choice, user, after)
  BY <1>1, Zenon DEF Rewrites
<1>5. user \in Trees /\ after \in Trees
  <2>1. \A p \in Paths : files[j][p] # None => files[j][p] \in FileRows BY DEF TypeInv, JobsOK
  <2> QED BY <2>1, Zenon DEF FileRows, Trees, TypeInv, FolderOK
<1>6. WorkIn(user, merged, waived)
  <2>1. Taken(j) /\ Top(j) = job[j].merged
    BY <1>1, Zenon DEF TypeInv, JobsOK, JobOK, Taken, Top, Live, Ended
  <2> QED BY <1>0, <2>1, Zenon DEF JobHas
<1>7. \A p \in Paths : files[j][p] # None => files[j][p].after = merged[p] BY <1>0, Zenon DEF JobHas
<1>8. WorkIn(Unwritten(j), user, waived) BY <1>0, <1>1, Zenon DEF JobHas
<1>9. \A p \in Paths : files[j][p] # None /\ files[j][p].state = "applied" => user[p] = files[j][p].after
  <2>1. Reedited(j) = {} BY Zenon DEF Rewrites, ResolveWriteback
  <2> QED BY <2>1, Zenon DEF Reedited
<1>10. \A p \in Paths : files[j][p] = None => Unwritten(j)[p] = merged[p] BY Zenon DEF Unwritten
<1>11. \A p \in Paths : files[j][p] # None => after[p] = merged[p] BY <1>7, Zenon
<1> HIDE DEF after, merged
<1>12. WorkIn(o.target.tree, merged, waived')
  <2> SUFFICES ASSUME NEW p \in Paths, NEW x \in o.target.tree[p], x \in Jobs, x \notin merged[p]
               PROVE  <<x, p>> \in waived'
    BY Zenon DEF WorkIn
  <2>1. x \in user[p] BY <1>2, <1>7, Zenon DEF Chosen, Actions
  <2> QED BY <1>4, <1>6, <2>1, Zenon DEF WorkIn
<1>13. WorkIn(merged, o.target.tree, waived')
  <2> SUFFICES ASSUME NEW p \in Paths, NEW x \in merged[p], x \in Jobs, x \notin o.target.tree[p]
               PROVE  <<x, p>> \in waived'
    BY Zenon DEF WorkIn
  <2>1. CASE files[j][p] = None BY <1>2, <1>4, <1>8, <1>10, <2>1, Zenon DEF WorkIn
  <2>2. CASE files[j][p] # None /\ p \in DOMAIN choice /\ files[j][p].state # "applied"
    <3>1. x \in after[p] /\ x \notin Chosen(choice[p], user[p], after[p]) BY <1>2, <1>7, <1>11, <2>2
    <3>2. <<x, p>> \in GivenUp(choice, user, after) BY <1>5, <2>2, <3>1, GivenUpHas, Zenon
    <3> QED BY <1>4, <3>2, Zenon
  <2> QED BY <1>2, <1>7, <1>9, <2>1, <2>2, Zenon
<1>14. WorkIn(o.external.tree, user', waived') BY <1>0, <1>1, FolderStays, Zenon
<1> QED BY <1>1, <1>12, <1>13, <1>14, Zenon DEF merged

\* The row of a revision keeps it.
LEMMA OpHasStep ==
    ASSUME TypeInv, KeepInv, LineInv, HasInv, Next, NEW o \in ops'
    PROVE  OpHas(o)'
<1>0. MarksHave /\ OpsHave /\ OpsLine BY DEF HasInv, LineInv
<1>1. CASE o \in ops
  <2> SUFFICES ASSUME o.kind = "writeback_revision"
               PROVE  /\ WorkIn(o.external.tree, user', waived')
                      /\ WorkIn(o.target.tree, job'[o.job].merged.tree, waived')
                      /\ WorkIn(job'[o.job].merged.tree, o.target.tree, waived')
    BY Zenon DEF OpHas
  <2>1. o.job \in Jobs /\ job[o.job].merged # None BY <1>1, Zenon DEF TypeInv, OpsOK, OpOK
  <2>2. /\ WorkIn(o.external.tree, user, waived)
        /\ WorkIn(o.target.tree, job[o.job].merged.tree, waived)
        /\ WorkIn(job[o.job].merged.tree, o.target.tree, waived)
    BY <1>0, <1>1, Zenon DEF OpsHave, OpHas
  <2>3. WorkIn(o.external.tree, user', waived') BY <1>0, <2>2, ThereStays, Zenon
  <2>4. CASE job'[o.job].merged = job[o.job].merged BY <2>2, <2>3, <2>4, WorkGrows, Zenon
  <2>5. CASE Revisits(o.job)
    <3>1. job'[o.job].merged = w.op.target BY <2>5 DEF Revisits
    <3>2. /\ WorkIn(w.op.target.tree, job[o.job].merged.tree, waived)
          /\ WorkIn(job[o.job].merged.tree, w.op.target.tree, waived)
      BY <1>0, <2>5, Zenon DEF Revisits, OpsHave, OpHas
    <3>3. WorkIn(o.target.tree, w.op.target.tree, waived) /\ WorkIn(w.op.target.tree, o.target.tree, waived)
      BY <2>2, <3>2, WorkTrans
    <3> QED BY <2>3, <3>1, <3>3, WorkGrows, Zenon
  <2> QED BY <1>0, <2>1, <2>4, <2>5, MergedStays, Zenon
<1>2. ASSUME NEW j \in Jobs, NEW choice \in [Undecided(j) -> Actions], Rewrites(j, o, choice) PROVE OpHas(o)'
  <2>1. o.job = j BY <1>2, Zenon DEF Rewrites
  <2> QED BY <1>2, <2>1, RevisionHas, Zenon DEF OpHas
<1>3. CASE o.kind # "writeback_revision" BY <1>3 DEF OpHas
<1> QED BY <1>1, <1>2, <1>3, NewOps, Zenon DEF Indexes

\* The writeback: the files without a row are as the merge commit has them, and once the
\* rows are verified the whole commit is in the folder.
LEMMA WorkHasStep ==
    ASSUME TypeInv, KeepInv, LineInv, HasInv, Next
    PROVE  WorkHas'
<1>0. MarksHave /\ JobsHave /\ WorkHas /\ OpsLine /\ Place /\ Stands
  BY DEF HasInv, LineInv, TypeInv, KeepInv
<1>1. ASSUME w.at \in Writing \cup {"manifest", "deliver", "saveDelivered", "finish", "reviseRow"}
      PROVE  /\ w.job \in Jobs /\ job[w.job].merged # None /\ ~ReviseJob
             /\ job'[w.job].merged = job[w.job].merged
  <2>1. w.job \in Jobs /\ job[w.job].merged # None
    <3>1. CASE w.at = "reviseRow" BY <3>1, ReviseKnown DEF Revising
    <3>2. CASE w.at # "reviseRow" BY <1>0, <1>1, <3>2, Zenon DEF Place, Writing, Merged, Processing
    <3> QED BY <3>1, <3>2
  <2>2. ~ReviseJob BY <1>1 DEF ReviseJob, At, Writing
  <2> QED BY <1>0, <2>1, <2>2, MergedStays, Zenon DEF Revisits
<1>2. ASSUME w.at \in Writing, w'.job = w.job PROVE WorkIn(Unwritten(w.job)', user', waived')
  <2> DEFINE j == w.job
  <2>1. j \in Jobs /\ job'[j].merged = job[j].merged /\ ~ReviseJob BY <1>1, <1>2
  <2>2. WorkIn(Unwritten(j), user, waived) BY <1>0, <1>2, Zenon DEF WorkHas
  <2>3. w'.job = j BY <1>2
  <2> HIDE DEF j
  <2>4. WorkIn([p \in Paths |-> IF files'[j][p] = None THEN job'[j].merged.tree[p] ELSE {}], user', waived')
    BY <1>0, <2>1, <2>2, UnwrittenStays, Zenon DEF Unwritten
  <2> QED BY <2>3, <2>4 DEF Unwritten
<1>3. ASSUME StartWriting PROVE WorkIn(Unwritten(w.job)', user', waived')
  <2> DEFINE j == w.job
  <2>1. w.at = "manifest" /\ user' = user BY <1>3 DEF StartWriting, At
  <2>2. j \in Jobs /\ job[j].merged # None /\ job'[j].merged = job[j].merged BY <1>1, <2>1
  <2>3. job[j].external # None BY <2>2, Zenon DEF TypeInv, JobsOK, JobOK
  <2>4. job[j].external \in Good /\ job[j].merged \in Good
    BY <2>2, <2>3, Zenon DEF TypeInv, JobsOK, JobRows, Maybe
  <2>5. RowsOK(files[j]) BY <2>2, RowsTyped, Zenon
  <2>6. files' = [files EXCEPT ![j] = Manifest(files[j], job[j].external, job[j].merged)]
    BY <1>3 DEF StartWriting
  <2>7. files'[j] = Manifest(files[j], job[j].external, job[j].merged)
    BY <2>2, <2>6, Zenon DEF TypeInv, JobsOK
  <2>8. \A p \in Paths : files'[j][p] = None => job[j].external.tree[p] = job[j].merged.tree[p]
    <3> DEFINE rows == files[j]
               e == job[j].external
               m == job[j].merged
    <3>1. RowsOK(rows) /\ e \in Good /\ m \in Good /\ files'[j] = Manifest(rows, e, m)
      BY <2>4, <2>5, <2>7, Zenon
    <3> HIDE DEF rows, e, m
    <3>2. ASSUME NEW p \in Paths, rows[p] = None, e.tree[p] # m.tree[p] PROVE Manifest(rows, e, m)[p] # None
      <4> DEFINE r == [before |-> e.tree[p], after |-> m.tree[p], state |-> "pending"]
      <4>1. Manifest(rows, e, m)[p] = r BY <3>2, Zenon DEF Manifest
      <4>2. e.tree[p] \in SUBSET (Jobs \cup Edits) /\ m.tree[p] \in SUBSET (Jobs \cup Edits)
        BY <3>1, GoodFields, Zenon DEF Trees
      <4>3. r \in FileRows BY <4>2, Zenon DEF FileRows
      <4> HIDE DEF r
      <4> QED BY <4>1, <4>3, MergeAssumption
    <3>3. \A p \in Paths : rows[p] # None => Manifest(rows, e, m)[p] = rows[p]
      BY <3>1, ManifestIs, ZenonT(30)
    <3> QED BY <3>1, <3>2, <3>3, Zenon DEF e, m
  <2>9. WorkIn(job[j].external.tree, user, waived) BY <1>0, <2>2, <2>3, Zenon DEF JobsHave, JobHas
  <2>10. w'.job = j
    <3>1. w' = [w EXCEPT !.at = "file", !.left = {p \in Paths : files'[j][p] # None}]
      BY <1>3, <2>7, Zenon DEF StartWriting
    <3> QED BY <3>1 DEF TypeInv, WorkOK
  <2> HIDE DEF j
  <2>11. WorkIn([p \in Paths |-> IF files'[j][p] = None THEN job'[j].merged.tree[p] ELSE {}], user, waived)
    BY <2>2, <2>8, <2>9, Zenon DEF WorkIn
  <2>12. WorkIn([p \in Paths |-> IF files'[j][p] = None THEN job'[j].merged.tree[p] ELSE {}], user', waived')
    BY <1>0, <2>11, ThereStays, Zenon
  <2> QED BY <2>10, <2>12 DEF Unwritten
<1>4. ASSUME w'.at \in Writing PROVE WorkIn(Unwritten(w.job)', user', waived')
  <2>1. CASE w' = w BY <1>2, <1>4, <2>1
  <2>2. CASE w' # w
    <3>1. w'.job = w.job /\ (StartWriting \/ ApplyFile \/ Observe \/ Recheck \/ Rename)
      BY <1>4, <2>2, Arrives DEF Arrival, Reached, Writing
    <3>2. ApplyFile \/ Observe \/ Recheck \/ Rename => w.at \in Writing
      BY Zenon DEF ApplyFile, Observe, Recheck, Rename, At, Writing
    <3> QED BY <1>2, <1>3, <3>1, <3>2
  <2> QED BY <2>1, <2>2
<1>5. ASSUME w.at \in {"deliver", "saveDelivered", "finish"}
      PROVE  WorkIn(job'[w.job].merged.tree, user', waived')
  BY <1>0, <1>1, <1>5, ThereStays, Zenon DEF WorkHas
<1>6. ASSUME Verify, w'.at = "deliver" PROVE WorkIn(job'[w.job].merged.tree, user', waived')
  <2>1. w.at = "file" /\ w.at \in Writing BY <1>6, Zenon DEF Verify, At, Writing
  <2>2. w.job \in Jobs /\ job[w.job].merged # None /\ job'[w.job].merged = job[w.job].merged
    BY <1>1, <2>1, Zenon
  <2>3. {p \in Paths : files[w.job][p] # None /\ user[p] # files[w.job][p].after} = {} \/ Release
    BY <1>6, Zenon DEF Verify, WritebackConflict
  <2>4. \A p \in Paths : files[w.job][p] # None => user[p] = job[w.job].merged.tree[p]
    BY <1>0, <1>6, <2>2, <2>3, Releases, Zenon DEF JobsHave, JobHas
  <2>5. WorkIn(Unwritten(w.job), user, waived) BY <1>0, <2>1, Zenon DEF WorkHas
  <2>6. WorkIn(job[w.job].merged.tree, user, waived) BY <2>4, <2>5, Zenon DEF WorkIn, Unwritten
  <2> QED BY <1>0, <2>2, <2>6, ThereStays, Zenon
<1>7. ASSUME w'.at \in {"deliver", "saveDelivered", "finish"}
      PROVE  WorkIn(job'[w.job].merged.tree, user', waived') /\ w'.job = w.job
  <2>1. CASE w' = w BY <1>5, <1>7, <2>1, Zenon
  <2>2. CASE w' # w
    <3>1. w'.job = w.job /\ ((Verify /\ w'.at = "deliver") \/ Deliver \/ SaveDelivered)
      BY <1>7, <2>2, Arrives DEF Arrival, Reached
    <3>2. Deliver \/ SaveDelivered => w.at \in {"deliver", "saveDelivered"}
      BY DEF Deliver, SaveDelivered, At
    <3> QED BY <1>5, <1>6, <3>1, <3>2
  <2> QED BY <2>1, <2>2, Zenon
<1>8. ASSUME w'.at = "reviseRow" PROVE job'[w'.job].merged = w'.op.target
  <2>1. CASE w' = w BY <1>0, <1>1, <1>8, <2>1, Zenon DEF WorkHas
  <2>2. CASE w' # w
    <3>1. ReviseJob /\ w'.job = w.job /\ w'.op = w.op
      BY <1>8, <2>2, Arrives, Zenon DEF Arrival, Reached, Writing
    <3>2. w.job \in Jobs BY <3>1, Revises, Zenon DEF KeepInv
    <3>3. job'[w.job].merged = w.op.target BY <3>1, <3>2 DEF ReviseJob, TypeInv, JobsOK, JobRows
    <3> QED BY <3>1, <3>3, Zenon
  <2> QED BY <2>1, <2>2
<1>9. w'.at \in Writing => WorkIn(Unwritten(w.job)', user', waived') BY <1>4
<1>10. w'.at \in {"deliver", "saveDelivered", "finish"} => WorkIn(job'[w'.job].merged.tree, user', waived')
  BY <1>7
<1> QED BY <1>8, <1>9, <1>10, Zenon DEF WorkHas

\* A job is delivered once its merge commit is in the folder.
LEMMA DeliveredHaveStep ==
    ASSUME TypeInv, KeepInv, LineInv, HasInv, Next, NEW j \in Jobs, job'[j].state = "delivered"
    PROVE  WorkIn(Added(j)', user', waived')
<1>0. MarksHave /\ JobHas(j) /\ WorkHas /\ DeliveredHave /\ Stands BY DEF HasInv, JobsHave, KeepInv
<1> DEFINE a == Added(j)
<1>1. job[j].state # "none"
  <2>1. job[j].state = "none" => job'[j] = job[j] \/ job'[j].state = "queued"
    BY JobsMove, Zenon DEF JobStep, KeepInv
  <2> QED BY <2>1
<1>2. Added(j)' = a BY <1>1, AddedStays
<1>3. CASE job[j].state = "delivered"
  <2>1. WorkIn(a, user, waived) BY <1>0, <1>3, Zenon DEF DeliveredHave
  <2> HIDE DEF a
  <2> QED BY <1>0, <1>2, <2>1, ThereStays, Zenon
<1>4. CASE FinishJob /\ j = w.job
  <2>1. w.at = "finish" BY <1>4 DEF FinishJob, At
  <2>2. WorkIn(job[j].merged.tree, user, waived) BY <1>0, <1>4, <2>1, Zenon DEF WorkHas
  <2>3. job[j].merged # None BY <1>4, <2>1, Zenon DEF TypeInv, Place, Merged
  <2>4. WorkIn(a, job[j].merged.tree, waived) BY <1>0, <2>3, Zenon DEF JobHas
  <2> HIDE DEF a
  <2>5. WorkIn(a, user, waived) BY <2>2, <2>4, WorkTrans, Zenon
  <2> QED BY <1>0, <1>2, <2>5, ThereStays, Zenon
<1>5. CASE job[j].state # "delivered" /\ ~(FinishJob /\ j = w.job)
  <2>0. JobStep(j) BY JobsMove DEF KeepInv
  <2>1. j = w.job /\ w.at \in Processing \cup {"staged"}
    <3>1. ~Enqueue(j) BY <1>1 DEF Enqueue
    <3> QED BY <1>5, <2>0, <3>1, Zenon DEF JobStep
  <2>2. CASE w.at \in Processing
    <3>1. job[j].state \notin Ended BY <1>0, <2>1, <2>2, AtWork
    <3>2. FinishJob \/ CancelJob BY <2>0, <3>1, Zenon DEF JobStep, Ended
    <3> QED BY <1>5, <2>1, <2>2, <3>2 DEF CancelJob, At, Processing
  <2>3. CASE w.at = "staged"
    <3>1. job'[w.job] # job[w.job] BY <1>5, <2>1
    <3>2. FinishIndex BY <1>1, <2>1, <2>3, <3>1, StagedFinishes DEF Enqueue
    <3>3. job'[j].state \in {"merging", "conflicted"}
      BY <2>1, <3>2 DEF FinishIndex, TypeInv, JobsOK, JobRows
    <3> QED BY <3>3
  <2> QED BY <2>1, <2>2, <2>3
<1> QED BY <1>3, <1>4, <1>5, Zenon

\* At first no job has written anything.
LEMMA HasInit == Init => HasInv
<1> SUFFICES ASSUME Init PROVE HasInv OBVIOUS
<1>1. /\ job = [j \in Jobs |-> NoJob] /\ intent = [j \in Jobs |-> None] /\ pin = [j \in Jobs |-> None]
      /\ files = [j \in Jobs |-> NoFiles] /\ integ = NoMerge /\ ops = {} /\ w = NoWork
      /\ made = {} /\ swept = {}
  BY DEF Init
<1>2. MarksHave /\ OpsHave BY <1>1 DEF MarksHave, OpsHave
<1>3. ASSUME NEW j \in Jobs PROVE JobHas(j)
  <2>1. j \notin Live BY <1>1 DEF Live, NoJob
  <2> QED BY <1>1, <2>1, Zenon DEF JobHas, NoJob, NoFiles, Taken
<1>4. IntegHas BY <1>1 DEF IntegHas, NoMerge
<1>5. WorkHas BY <1>1, Zenon DEF WorkHas, NoWork, Writing
<1>6. DeliveredHave BY <1>1 DEF DeliveredHave, NoJob
<1> QED BY <1>2, <1>3, <1>4, <1>5, <1>6 DEF HasInv, JobsHave

\* Every step keeps the jobs' work.
LEMMA HasStep == TypeInv /\ KeepInv /\ LineInv /\ HasInv /\ Next => HasInv'
<1> SUFFICES ASSUME TypeInv, KeepInv, LineInv, HasInv, Next PROVE HasInv' OBVIOUS
<1>1. MarksHave' BY MarksHaveStep
<1>2. JobsHave' BY JobHasStep DEF JobsHave
<1>3. IntegHas' BY IntegHasStep
<1>4. OpsHave' BY OpHasStep DEF OpsHave
<1>5. WorkHas' BY WorkHasStep
<1>6. DeliveredHave' BY DeliveredHaveStep DEF DeliveredHave
<1> QED BY <1>1, <1>2, <1>3, <1>4, <1>5, <1>6 DEF HasInv

\* A step that changes nothing keeps it.
LEMMA HasStutter == HasInv /\ UNCHANGED vars => HasInv'
<1> SUFFICES ASSUME HasInv, UNCHANGED vars PROVE HasInv' OBVIOUS
<1>1. UNCHANGED <<user, job, intent, pin, files, integ, ops, w, made, waived, swept>>
  BY DEF vars, notes
<1>2. FifoHead' = FifoHead /\ Live' = Live BY <1>1, Zenon DEF FifoHead, Live
<1>3. MarksHave' /\ OpsHave' BY <1>1, Zenon DEF HasInv, MarksHave, OpsHave, OpHas
<1>4. JobsHave'
  <2>1. ASSUME NEW j \in Jobs PROVE JobHas(j)'
    <3>1. JobHas(j) BY DEF HasInv, JobsHave
    <3>2. Added(j)' = Added(j) /\ Unwritten(j)' = Unwritten(j) /\ Top(j)' = Top(j) /\ (Taken(j)' <=> Taken(j))
      BY <1>1, <1>2, Zenon DEF Added, Unwritten, Top, Taken
    <3> QED BY <1>1, <3>1, <3>2, Zenon DEF JobHas
  <2> QED BY <2>1 DEF JobsHave
<1>5. IntegHas' /\ WorkHas' BY <1>1, <1>2, Zenon DEF HasInv, IntegHas, WorkHas, Added, Unwritten
<1>6. DeliveredHave' BY <1>1, Zenon DEF HasInv, DeliveredHave, Added
<1> QED BY <1>3, <1>4, <1>5, <1>6 DEF HasInv

\* The inductive invariant holds as long as no cancellation is left unfinished when the
\* lock is free: the hypothesis under which the code keeps the refs in line with the queue.
THEOREM WorkIsThere == Spec /\ []Settled => [](LineInv /\ HasInv)
<1>1. TypeInv /\ KeepInv /\ LineInv /\ Settled /\ Settled' /\ [Next]_vars => LineInv'
  BY LineStep, LineStutter
<1>2. TypeInv /\ KeepInv /\ LineInv /\ HasInv /\ [Next]_vars => HasInv' BY HasStep, HasStutter
<1> QED BY <1>1, <1>2, LineInit, HasInit, TypeCorrect, WorkIsKept, PTL DEF Spec

\* What a delivered job added to a file is in that file, unless the user's decision on a
\* conflict gave it up: no later job, revision, cancellation or import takes it away.
THEOREM DeliveredStays == Spec /\ []Settled => []DeliveredIsThere
<1>1. TypeInv /\ LineInv /\ HasInv => DeliveredIsThere
  <2> SUFFICES ASSUME TypeInv, LineInv, HasInv, NEW j \in Jobs, job[j].state = "delivered",
                      NEW m \in MarksOf(job[j].source.tree) \ MarksOf(job[j].base.tree)
               PROVE  InFolder(m) \/ m \in waived
    BY Zenon DEF DeliveredIsThere
  <2>1. /\ m \in Marks /\ m[2] \in Paths /\ m = <<m[1], m[2]>>
        /\ m[1] \in job[j].source.tree[m[2]] \ job[j].base.tree[m[2]]
    BY DEF MarksOf, Marks
  <2>2. m[1] = j BY <2>1 DEF LineInv, JobsLine, JobLine
  <2>3. WorkIn(Added(j), user, waived) BY Zenon DEF HasInv, DeliveredHave
  <2>4. m[1] \in Added(j)[m[2]] BY <2>1, Zenon DEF Added
  <2> QED BY <2>1, <2>2, <2>3, <2>4, Zenon DEF WorkIn, InFolder
<1> QED BY <1>1, WorkIsThere, TypeCorrect, PTL
=============================================================================
