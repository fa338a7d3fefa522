-------------------------- MODULE RetryWakesProofs --------------------------
(***************************************************************************)
(* Proofs about RetryWakes, for any number of wakes, workers, faults and   *)
(* retries.                                                                *)
(*                                                                         *)
(* The inductive invariant ties the four rows of a wake together (Rows),   *)
(* says what a pending or decided event knows of its wake (Events), and    *)
(* that an open wake drives the Task (Driven).                             *)
(***************************************************************************)
EXTENDS RetryWakes, TLAPS

Open(w) == wake[w] \in {"armed", "fired"}

\* What the rows of one wake say of each other.
Rows(w) ==
    /\ parent[w] # "applied" => wake[w] \in {"none", "armed"}
    /\ wake[w] \in {"none", "armed"} => event[w] = "none"
    /\ wake[w] = "consumed" => item[w] # "none"
    /\ item[w] # "none" => decision[w] = "dispatch_batch"
    /\ decision[w] # "none" => event[w] = "decided"
    /\ app[w] # "none" => event[w] = "decided"
    /\ event[w] # "none" => w \notin Unusable

\* A pending event has its wake fired, and its timer unless a delivery threw; a
\* decided one has left its wake fired or settled it its own way.
Events(w) ==
    /\ event[w] = "pending" => wake[w] = "fired" /\ (w \in timer \/ w \in excused)
    /\ decision[w] = "dispatch_batch" => wake[w] \in {"fired", "consumed"}
    /\ decision[w] = "recover_retry_wake" => w \in excused
    /\ wake[w] = "recovery_required" => w \in excused \cup Unusable

\* An open wake keeps its Task from failing, and keeps it running if it was
\* armed so and no delivery of it threw.
Driven(w) ==
    Open(w) => /\ task # "failed"
               /\ w \in excused \/ task \in {"running", "cancelled"}

IInv == TypeOK /\ \A w \in Wakes : Rows(w) /\ Events(w) /\ Driven(w)

----------------------------------------------------------------------------
(* Types *)

\* Reconciling the Task gives it one of its statuses.
LEMMA ConclusionsTyped ==
    ASSUME TypeOK, NEW wk
    PROVE  Conclusions(wk) \subseteq {"running", "queued", "needs_action"} \cup Terminal
BY DEF Conclusions, TypeOK, Terminal

\* A crash keeps the types of what it clears.
LEMMA DiesTyped ==
    ASSUME Dies
    PROVE  /\ up' \in BOOLEAN /\ live' \subseteq Wakes
           /\ todo' \in [Workers -> SUBSET (Wakes \X {"armed", "fired"})]
           /\ at' \in [Workers -> Wakes \cup {None}]
<1>1. todo' \in [Workers -> SUBSET (Wakes \X {"armed", "fired"})]
  <2>1. {} \in SUBSET (Wakes \X {"armed", "fired"})
    OBVIOUS
  <2> QED BY <2>1, Zenon DEF Dies
<1> QED BY <1>1, ZenonT(30) DEF Dies

\* The end of an application keeps the types of what it touches.
LEMMA EndsTyped ==
    ASSUME TypeOK, NEW w \in Wakes, NEW o \in Outcomes, up, Ends(w, o)
    PROVE  /\ app' \in [Wakes -> AppStatus] /\ up' \in BOOLEAN /\ live' \subseteq Wakes
           /\ todo' \in [Workers -> SUBSET (Wakes \X {"armed", "fired"})]
           /\ at' \in [Workers -> Wakes \cup {None}]
           /\ faults' \in 0..MaxFaults
<1>1. CASE o = "applied"
  BY <1>1, Zenon DEF TypeOK, Ends, Runs, AppStatus
<1>2. CASE o = "throws"
  BY <1>2, ConstantsFit DEF TypeOK, Ends, Runs, AppStatus, Fault
<1>3. CASE o = "dies"
  BY <1>3, ConstantsFit, DiesTyped DEF TypeOK, Ends, Fault
<1> QED BY <1>1, <1>2, <1>3 DEF Outcomes

\* Every step keeps the types.
LEMMA TypeStep ==
    ASSUME TypeOK, [Next]_vars
    PROVE  TypeOK'
<1> USE ConstantsFit DEF rows, process, history
<1>1. CASE Reconcile
  BY <1>1, ConclusionsTyped DEF Reconcile, TypeOK
<1>2. CASE Cancel
  BY <1>2 DEF Cancel, TypeOK, Terminal
<1>3. CASE Crash
  BY <1>3, DiesTyped DEF Crash, Fault, TypeOK
<1>4. CASE Restart
  BY <1>4 DEF Restart, TypeOK
<1>5. ASSUME NEW k \in Workers, ListDueOrFiredWithoutTimer(k) PROVE TypeOK'
  <2>1. {<<w, wake[w]>> : w \in Listed} \subseteq Wakes \X {"armed", "fired"}
    BY DEF Listed
  <2>2. todo' \in [Workers -> SUBSET (Wakes \X {"armed", "fired"})]
    BY <1>5, <2>1 DEF ListDueOrFiredWithoutTimer, TypeOK
  <2> QED BY <1>5, <2>2 DEF ListDueOrFiredWithoutTimer, TypeOK
<1>6. ASSUME NEW k \in Workers, Deliver(k) PROVE TypeOK'
  <2>1. PICK c \in todo[k] :
            /\ \/ /\ Skips(c[1], c[2])
                  /\ UNCHANGED <<wake, timer, event, up, at, live, faults, excused>>
               \/ GiveUp(c[1])
               \/ Fire(k, c[1])
            /\ todo' = IF up' THEN [todo EXCEPT ![k] = @ \ {c}] ELSE [j \in Workers |-> {}]
    BY <1>6, ZenonT(30) DEF Deliver
  <2>2. c[1] \in Wakes
    BY <2>1 DEF TypeOK
  <2>3. /\ wake' \in [Wakes -> WakeStatus] /\ timer' \subseteq Wakes
        /\ event' \in [Wakes -> {"none", "pending", "decided"}]
        /\ up' \in BOOLEAN /\ live' \subseteq Wakes /\ excused' \subseteq Wakes
        /\ at' \in [Workers -> Wakes \cup {None}] /\ faults' \in 0..MaxFaults
    <3>1. CASE Fire(k, c[1])
      BY <2>2, <3>1, DiesTyped DEF Fire, Fault, TypeOK, WakeStatus
    <3>2. CASE GiveUp(c[1])
      BY <2>2, <3>2, DiesTyped DEF GiveUp, Fault, TypeOK, WakeStatus
    <3> QED BY <2>1, <3>1, <3>2 DEF TypeOK
  <2>4. todo' \in [Workers -> SUBSET (Wakes \X {"armed", "fired"})]
    <3>1. todo[k] \ {c} \in SUBSET (Wakes \X {"armed", "fired"})
      BY DEF TypeOK
    <3>2. [j \in Workers |-> {}] \in [Workers -> SUBSET (Wakes \X {"armed", "fired"})]
      <4>1. {} \in SUBSET (Wakes \X {"armed", "fired"})
        OBVIOUS
      <4> QED BY <4>1, Zenon
    <3> QED BY <2>1, <3>1, <3>2 DEF TypeOK
  <2> QED BY <1>6, <2>3, <2>4 DEF Deliver, TypeOK
<1>7. ASSUME NEW k \in Workers, Return(k) PROVE TypeOK'
  BY <1>7 DEF Return, TypeOK
<1>8. ASSUME NEW k \in Workers, Throw(k) PROVE TypeOK'
  BY <1>8 DEF Throw, Fault, TypeOK
<1>9. ASSUME NEW w \in Wakes, DecideWait(w) PROVE TypeOK'
  BY <1>9 DEF DecideWait, TypeOK, AppStatus
<1>10. ASSUME NEW w \in Wakes, BeginWait(w) PROVE TypeOK'
  <2>1. tries' \in [Wakes -> 0..MaxRetries]
    BY <1>10 DEF BeginWait, Bump, TypeOK
  <2>2. /\ parent' \in [Wakes -> AppStatus] /\ wake' \in [Wakes -> WakeStatus]
        /\ excused' \subseteq Wakes /\ live' \subseteq Wakes
        /\ up' = TRUE /\ UNCHANGED <<todo, at>>
    BY <1>10 DEF BeginWait, Runs, TypeOK, AppStatus, WakeStatus
  <2> QED BY <1>10, <2>1, <2>2 DEF BeginWait, TypeOK
<1>11. ASSUME NEW w \in Wakes, FinishWait(w) PROVE TypeOK'
  BY <1>11 DEF FinishWait, Runs, Fault, TypeOK, AppStatus
<1>12. ASSUME NEW w \in Wakes, Elapse(w) PROVE TypeOK'
  BY <1>12 DEF Elapse, TypeOK
<1>13. ASSUME NEW w \in Wakes, Decide(w) PROVE TypeOK'
  BY <1>13 DEF Decide, DecideTimer, TypeOK, AppStatus
<1>14. ASSUME NEW w \in Wakes, BeginDispatch(w) PROVE TypeOK'
  BY <1>14, ConclusionsTyped DEF BeginDispatch, Bump, Runs, TypeOK
<1>15. ASSUME NEW w \in Wakes, FinishDispatch(w) PROVE TypeOK'
  <2>1. PICK reached \in 0..2, o \in Outcomes :
            /\ item' = IF reached > 0 THEN [item EXCEPT ![w] = InsertBatch(w)] ELSE item
            /\ task' \in IF reached = 2 /\ task \in {"needs_action", "queued"}
                         THEN {task} \cup Conclusions(wake) ELSE {task}
            /\ wake' = IF reached = 2 /\ wake[w] = "fired"
                       THEN [wake EXCEPT ![w] = "consumed"] ELSE wake
            /\ Ends(w, o)
    BY <1>15 DEF FinishDispatch
  <2>2. InsertBatch(w) \in {"none", "pending_launch", "cancelled"}
    BY DEF InsertBatch, TypeOK
  <2>3. task' \in {"running", "queued", "needs_action"} \cup Terminal
    BY <2>1, ConclusionsTyped DEF TypeOK
  <2>4. item' \in [Wakes -> {"none", "pending_launch", "cancelled"}]
    BY <2>1, <2>2 DEF TypeOK
  <2>5. wake' \in [Wakes -> WakeStatus]
    BY <2>1 DEF TypeOK, WakeStatus
  <2>6. up
    BY <1>15 DEF FinishDispatch
  <2> QED BY <1>15, <2>1, <2>3, <2>4, <2>5, <2>6, EndsTyped DEF FinishDispatch, TypeOK
<1>16. ASSUME NEW w \in Wakes, ApplySupersede(w) PROVE TypeOK'
  <2>1. PICK o \in Outcomes :
            /\ wake' = wake \/ wake' = [wake EXCEPT ![w] = "superseded"]
            /\ Ends(w, o)
    BY <1>16 DEF ApplySupersede
  <2>2. wake' \in [Wakes -> WakeStatus] /\ up
    BY <1>16, <2>1 DEF ApplySupersede, TypeOK, WakeStatus
  <2> QED BY <1>16, <2>1, <2>2, EndsTyped DEF ApplySupersede, Bump, TypeOK
<1>17. ASSUME NEW w \in Wakes, ApplyRecover(w) PROVE TypeOK'
  <2>1. wake' \in [Wakes -> WakeStatus] /\ up
    BY <1>17 DEF ApplyRecover, TypeOK, WakeStatus
  <2>2. task' \in {"running", "queued", "needs_action"} \cup Terminal
    BY <1>17, ConclusionsTyped DEF ApplyRecover
  <2> QED BY <1>17, <2>1, <2>2, EndsTyped DEF ApplyRecover, Bump, TypeOK
<1>18. ASSUME NEW w \in Wakes, Converge(w) PROVE TypeOK'
  BY <1>18 DEF Converge, TypeOK, AppStatus
<1>19. CASE UNCHANGED vars
  BY <1>19 DEF vars, TypeOK
<1> QED
  BY <1>1, <1>2, <1>3, <1>4, <1>5, <1>6, <1>7, <1>8, <1>9, <1>10, <1>11, <1>12,
     <1>13, <1>14, <1>15, <1>16, <1>17, <1>18, <1>19 DEF Next, Worker, Application

----------------------------------------------------------------------------
(* The invariant *)

Kept(v) == Rows(v) /\ Events(v) /\ Driven(v)

\* Reconciling the Task while a wake is open neither fails it nor stops it.
LEMMA ReconcileDrives ==
    ASSUME IInv, NEW wk, task' \in Conclusions(wk), NEW v \in Wakes, Open(v),
           wk[v] \in {"armed", "fired"}
    PROVE  task' # "failed" /\ (v \in excused \/ task' \in {"running", "cancelled"})
BY DEF IInv, Driven, Open, Conclusions, Terminal, TypeOK

\* A step that leaves the rows of a wake alone, clears no timer, and moves the
\* Task at most by reconciling it, keeps what is known of that wake.
LEMMA RowsKept ==
    ASSUME IInv, NEW v \in Wakes,
           parent'[v] = parent[v], wake'[v] = wake[v], event'[v] = event[v],
           item'[v] = item[v], decision'[v] = decision[v], app'[v] = app[v],
           timer \subseteq timer' \cup excused', excused \subseteq excused',
           \/ task' = task \/ task' = "cancelled"
           \/ \E wk : wk[v] = wake[v] /\ task' \in Conclusions(wk)
    PROVE  Kept(v)'
<1>1. Rows(v)'
  BY DEF IInv, Rows
<1>2. Events(v)'
  BY DEF IInv, Events
<1>3. Driven(v)'
  <2>1. CASE task' = task \/ task' = "cancelled"
    BY <2>1 DEF IInv, Driven, Open
  <2>2. ASSUME NEW wk, wk[v] = wake[v], task' \in Conclusions(wk) PROVE Driven(v)'
    BY <2>2, ReconcileDrives DEF Driven, Open
  <2> QED BY <2>1, <2>2
<1> QED BY <1>1, <1>2, <1>3 DEF Kept

\* Every step keeps what is known of every wake.
LEMMA KeptStep ==
    ASSUME IInv, TypeOK', [Next]_vars, NEW v \in Wakes
    PROVE  Kept(v)'
<1> USE DEF rows, process, history
<1>0. TypeOK /\ Rows(v) /\ Events(v) /\ Driven(v)
  BY DEF IInv
<1>1. CASE Reconcile
  BY <1>1, RowsKept DEF Reconcile
<1>2. CASE Cancel
  BY <1>2, RowsKept DEF Cancel
<1>3. CASE Crash
  BY <1>3, RowsKept DEF Crash
<1>4. CASE Restart
  BY <1>4, RowsKept DEF Restart
<1>5. ASSUME NEW k \in Workers, ListDueOrFiredWithoutTimer(k) PROVE Kept(v)'
  BY <1>5, RowsKept DEF ListDueOrFiredWithoutTimer
<1>6. ASSUME NEW k \in Workers, Deliver(k) PROVE Kept(v)'
  <2>1. PICK c \in todo[k] :
            \/ UNCHANGED <<wake, timer, event, excused>>
            \/ ~Skips(c[1], c[2]) /\ c[1] \in Unusable /\ GiveUp(c[1])
            \/ ~Skips(c[1], c[2]) /\ c[1] \notin Unusable /\ Fire(k, c[1])
    BY <1>6, ZenonT(30) DEF Deliver
  <2>2. c[1] \in Wakes /\ c[2] \in {"armed", "fired"}
    BY <2>1 DEF IInv, TypeOK
  <2>3. UNCHANGED <<task, parent, due, decision, app, item, tries, moves>>
    BY <1>6 DEF Deliver
  <2>4. CASE UNCHANGED <<wake, timer, event, excused>>
    BY <2>3, <2>4, RowsKept
  <2>5. ASSUME ~Skips(c[1], c[2]), c[1] \in Unusable, GiveUp(c[1]) PROVE Kept(v)'
    <3>0. /\ \/ wake' = [wake EXCEPT ![c[1]] = "recovery_required"]
             \/ wake' = [wake EXCEPT ![c[1]] = "fired"]
          /\ timer \subseteq timer' /\ timer' \subseteq timer \cup {c[1]}
          /\ UNCHANGED <<event, excused>>
      BY <2>5 DEF GiveUp
    <3>1. CASE v # c[1]
      BY <2>3, <3>0, <3>1, <1>0, RowsKept DEF TypeOK
    <3>2. CASE v = c[1]
      BY <2>2, <2>3, <2>5, <3>0, <3>2, <1>0
      DEF Skips, TypeOK, Kept, Rows, Events, Driven, Open
    <3> QED BY <3>1, <3>2
  <2>6. ASSUME ~Skips(c[1], c[2]), c[1] \notin Unusable, Fire(k, c[1]) PROVE Kept(v)'
    <3>0. /\ wake' = [wake EXCEPT ![c[1]] = "fired"]
          /\ timer \subseteq timer' \cup excused' /\ excused \subseteq excused'
          /\ \A u \in Wakes \ {c[1]} : event'[u] = event[u]
          /\ \/ /\ event' = [event EXCEPT ![c[1]] = IF @ = "none" THEN "pending" ELSE @]
                /\ c[1] \in timer'
             \/ event' = event
      BY <2>2, <2>6, <1>0 DEF Fire, TypeOK
    <3>1. CASE v # c[1]
      BY <2>3, <3>0, <3>1, <1>0, RowsKept DEF TypeOK
    <3>2. CASE v = c[1]
      BY <2>2, <2>3, <2>6, <3>0, <3>2, <1>0
      DEF Skips, TypeOK, Kept, Rows, Events, Driven, Open
    <3> QED BY <3>1, <3>2
  <2> QED BY <2>1, <2>4, <2>5, <2>6
<1>7. ASSUME NEW k \in Workers, Return(k) PROVE Kept(v)'
  BY <1>7, RowsKept DEF Return
<1>8. ASSUME NEW k \in Workers, Throw(k) PROVE Kept(v)'
  BY <1>8, RowsKept DEF Throw
<1>9. ASSUME NEW w \in Wakes, DecideWait(w) PROVE Kept(v)'
  BY <1>9, <1>0 DEF DecideWait, TypeOK, Kept, Rows, Events, Driven, Open
<1>10. ASSUME NEW w \in Wakes, BeginWait(w) PROVE Kept(v)'
  <2>1. CASE v # w
    BY <1>10, <2>1, <1>0, RowsKept DEF BeginWait, TypeOK
  <2>2. CASE v = w
    BY <1>10, <2>2, <1>0
    DEF BeginWait, TypeOK, Kept, Rows, Events, Driven, Open, Terminal
  <2> QED BY <2>1, <2>2
<1>11. ASSUME NEW w \in Wakes, FinishWait(w) PROVE Kept(v)'
  BY <1>11, <1>0 DEF FinishWait, TypeOK, Kept, Rows, Events, Driven, Open
<1>12. ASSUME NEW w \in Wakes, Elapse(w) PROVE Kept(v)'
  BY <1>12, RowsKept, ZenonT(30) DEF Elapse
<1>13. ASSUME NEW w \in Wakes, Decide(w) PROVE Kept(v)'
  <2>1. CASE v # w
    BY <1>13, <2>1, <1>0, RowsKept DEF Decide, TypeOK
  <2>2. CASE v = w
    <3>1. /\ decision'[v] = DecideTimer(v) /\ event'[v] = "decided"
          /\ UNCHANGED <<task, parent, wake, timer, item, excused>>
      BY <1>13, <2>2, <1>0 DEF Decide, TypeOK
    <3>2. event[v] = "pending" /\ wake[v] = "fired" /\ item[v] = "none"
      BY <1>13, <2>2, <1>0 DEF Decide, Rows, Events, TypeOK
    <3>3. DecideTimer(v) = "recover_retry_wake" => v \in excused
      BY <3>2, <1>0 DEF DecideTimer, Events, Driven, Open, Terminal
    <3>4. DecideTimer(v) = "dispatch_batch" => wake[v] = "fired"
      BY <3>2
    <3> QED
      BY <3>1, <3>2, <3>3, <3>4, <1>0 DEF Kept, Rows, Events, Driven, Open
  <2> QED BY <2>1, <2>2
<1>14. ASSUME NEW w \in Wakes, BeginDispatch(w) PROVE Kept(v)'
  BY <1>14, RowsKept DEF BeginDispatch
<1>15. ASSUME NEW w \in Wakes, FinishDispatch(w) PROVE Kept(v)'
  <2>1. PICK reached \in 0..2, o \in Outcomes :
            /\ item' = IF reached > 0 THEN [item EXCEPT ![w] = InsertBatch(w)] ELSE item
            /\ task' \in IF reached = 2 /\ task \in {"needs_action", "queued"}
                         THEN {task} \cup Conclusions(wake) ELSE {task}
            /\ wake' = IF reached = 2 /\ wake[w] = "fired"
                       THEN [wake EXCEPT ![w] = "consumed"] ELSE wake
            /\ Ends(w, o)
    BY <1>15 DEF FinishDispatch
  <2>2. task' = task \/ task' \in Conclusions(wake)
    BY <2>1
  <2>3. /\ UNCHANGED <<parent, timer, event, decision, excused>>
        /\ decision[w] = "dispatch_batch" /\ app[w] = "open"
    BY <1>15 DEF FinishDispatch
  <2>4. \A u \in Wakes \ {w} : app'[u] = app[u]
    BY <2>1, <1>0 DEF Ends, TypeOK
  <2>5. CASE v # w
    BY <2>1, <2>2, <2>3, <2>4, <2>5, <1>0, RowsKept DEF TypeOK
  <2>6. CASE v = w
    <3>1. item'[v] # "none" \/ (item' = item /\ wake' = wake)
      BY <2>1, <2>6, <1>0 DEF InsertBatch, TypeOK
    <3>2. wake[v] \in {"fired", "consumed"} /\ wake'[v] \in {wake[v], "consumed"}
      BY <2>1, <2>3, <2>6, <1>0 DEF Events, TypeOK
    <3>3. Open(v)' => Open(v)
      BY <3>2 DEF Open
    <3>4. Driven(v)'
      BY <2>2, <2>3, <3>3, <1>0, ReconcileDrives DEF Driven, Open
    <3> QED BY <2>3, <2>6, <3>1, <3>2, <3>4, <1>0 DEF Kept, Rows, Events
  <2> QED BY <2>5, <2>6
<1>16. ASSUME NEW w \in Wakes, ApplySupersede(w) PROVE Kept(v)'
  <2>1. PICK o \in Outcomes :
            /\ \/ wake' = wake
               \/ /\ wake' = [wake EXCEPT ![w] = "superseded"]
                  /\ wake[w] \in {"armed", "fired"}
            /\ Ends(w, o)
    BY <1>16, ZenonT(30) DEF ApplySupersede
  <2>2. /\ UNCHANGED <<task, parent, timer, event, decision, item, excused>>
        /\ decision[w] \in {"supersede_retry_wake", "no_op"} /\ app[w] = "open"
    BY <1>16 DEF ApplySupersede
  <2>3. \A u \in Wakes \ {w} : app'[u] = app[u]
    BY <2>1, <1>0 DEF Ends, TypeOK
  <2>4. CASE v # w
    BY <2>1, <2>2, <2>3, <2>4, <1>0, RowsKept, ZenonT(30) DEF TypeOK
  <2>5. CASE v = w
    BY <2>1, <2>2, <2>5, <1>0, ZenonT(30) DEF TypeOK, Kept, Rows, Events, Driven, Open
  <2> QED BY <2>4, <2>5
<1>17. ASSUME NEW w \in Wakes, ApplyRecover(w) PROVE Kept(v)'
  <2>1. /\ wake' = IF wake[w] \in {"armed", "fired"}
                   THEN [wake EXCEPT ![w] = "recovery_required"] ELSE wake
        /\ task' \in Conclusions(wake')
        /\ UNCHANGED <<parent, timer, event, decision, item, excused>>
        /\ decision[w] = "recover_retry_wake" /\ app[w] = "open"
    BY <1>17, ZenonT(30) DEF ApplyRecover
  <2>2. \A u \in Wakes \ {w} : app'[u] = app[u]
    BY <1>17, <1>0, ZenonT(30) DEF ApplyRecover, Ends, TypeOK
  <2>3. CASE v # w
    <3>1. wake'[v] = wake[v]
      BY <2>1, <2>3, <1>0 DEF TypeOK
    <3> QED BY <2>1, <2>2, <2>3, <3>1, RowsKept, ZenonT(30)
  <2>4. CASE v = w
    BY <2>1, <2>4, <1>0 DEF TypeOK, Kept, Rows, Events, Driven, Open
  <2> QED BY <2>3, <2>4
<1>18. ASSUME NEW w \in Wakes, Converge(w) PROVE Kept(v)'
  BY <1>18, <1>0, ZenonT(30) DEF Converge, TypeOK, Kept, Rows, Events, Driven, Open
<1>19. CASE UNCHANGED vars
  BY <1>19, RowsKept, ZenonT(30) DEF vars
<1> QED
  BY <1>1, <1>2, <1>3, <1>4, <1>5, <1>6, <1>7, <1>8, <1>9, <1>10, <1>11, <1>12,
     <1>13, <1>14, <1>15, <1>16, <1>17, <1>18, <1>19 DEF Next, Worker, Application

\* In every behaviour the rows of a wake agree and an open wake drives its Task.
THEOREM Invariant == Spec => []IInv
<1>1. Init => IInv
  BY ConstantsFit
  DEF Init, IInv, TypeOK, Rows, Events, Driven, Open, AppStatus, WakeStatus
<1>2. IInv /\ [Next]_vars => IInv'
  <2> SUFFICES ASSUME IInv, [Next]_vars PROVE IInv'
    OBVIOUS
  <2>1. TypeOK'
    BY TypeStep DEF IInv
  <2> QED BY <2>1, KeptStep DEF IInv, Kept
<1> QED BY <1>1, <1>2, PTL DEF Spec

\* No wake is claimed, fired or given up before the application of the
\* wait_for_retry decision that armed it is durably applied (the isDecisionApplied
\* guard of RetryWakeWorker.run).
THEOREM ArmedUntilAppliedHolds == Spec => []ArmedUntilApplied
<1>1. IInv => ArmedUntilApplied
  BY DEF IInv, Rows, ArmedUntilApplied
<1> QED BY <1>1, Invariant, PTL

\* A consumed wake has its continuation in the dispatch table and a wake with a
\* continuation is never given up (insertBatch before markConsumed).
THEOREM ConsumedHasContinuationHolds == Spec => []ConsumedHasContinuation
<1>1. IInv => ConsumedHasContinuation
  BY DEF IInv, Rows, Events, ConsumedHasContinuation
<1> QED BY <1>1, Invariant, PTL

\* A usable wake armed under a running Task is only given up for recovery when
\* its delivery threw (boundedRecovery in evaluateTaskState against decideTimer).
THEOREM RecoveryIsExcusedHolds == Spec => []RecoveryIsExcused
<1>1. IInv => RecoveryIsExcused
  BY DEF IInv, Events, RecoveryIsExcused
<1> QED BY <1>1, Invariant, PTL

----------------------------------------------------------------------------
(* Steps *)

\* The continuation of an ended Task is never put up for launch (insertBatch's
\* fence, and the open wake that keeps the Task from failing).
THEOREM EndedNotLaunchedHolds == Spec => EndedNotLaunched
<1> DEFINE Fenced == \A w \in Wakes : item'[w] = "pending_launch" /\ item[w] = "none"
                                          => task \notin Terminal
<1>1. IInv /\ [Next]_vars => [Fenced]_vars
  <2> SUFFICES ASSUME IInv, Next, NEW v \in Wakes,
                      item'[v] = "pending_launch", item[v] = "none"
               PROVE  task \notin Terminal
    OBVIOUS
  <2>1. TypeOK /\ Rows(v) /\ Events(v) /\ Driven(v)
    BY DEF IInv
  <2>2. \E w \in Wakes : FinishDispatch(w)
    BY ZenonT(30) DEF Next, Worker, Application, Reconcile, Cancel, Crash, Restart,
           ListDueOrFiredWithoutTimer, Deliver, Return, Throw, DecideWait, BeginWait,
           FinishWait, Elapse, Decide, BeginDispatch, ApplySupersede, ApplyRecover,
           Converge, rows
  <2>3. PICK w \in Wakes : FinishDispatch(w)
    BY <2>2
  <2>4. v = w /\ decision[v] = "dispatch_batch" /\ InsertBatch(v) = "pending_launch"
    BY <2>1, <2>3 DEF FinishDispatch, TypeOK
  <2>5. task # "cancelled"
    BY <2>4 DEF InsertBatch
  <2>6. Open(v)
    BY <2>1, <2>4, ZenonT(30) DEF Rows, Events, Open
  <2> QED BY <2>1, <2>5, <2>6 DEF Driven, Terminal
<1> QED BY <1>1, Invariant, PTL DEF Spec, EndedNotLaunched

\* A settled wake is never fired or settled anew, by a worker with an old list or
\* by a replay (the status guards of RetryWakeRepo).
THEOREM SettledIsFinalHolds == Spec => SettledIsFinal
<1> DEFINE Final == \A w \in Wakes : wake[w] \in Settled => wake'[w] = wake[w]
<1>1. IInv /\ [Next]_vars => [Final]_vars
  <2> SUFFICES ASSUME IInv, Next, NEW v \in Wakes, wake[v] \in Settled
               PROVE  wake'[v] = wake[v]
    BY ZenonT(30)
  <2>1. TypeOK
    BY DEF IInv
  <2>2. wake[v] \notin {"none", "armed", "fired"}
    BY DEF Settled
  <2>3. ASSUME NEW k \in Workers, Deliver(k) PROVE wake'[v] = wake[v]
    <3>1. PICK c \in todo[k] :
              \/ wake' = wake
              \/ /\ ~Skips(c[1], c[2])
                 /\ \E st \in WakeStatus : wake' = [wake EXCEPT ![c[1]] = st]
      BY <2>3, ZenonT(30) DEF Deliver, Fire, GiveUp, WakeStatus
    <3>2. c[1] \in Wakes /\ c[2] \in {"armed", "fired"}
      BY <3>1, <2>1 DEF TypeOK
    <3> QED BY <3>1, <3>2, <2>1, <2>2 DEF Skips, TypeOK
  <2>4. ASSUME NEW w \in Wakes, BeginWait(w) PROVE wake'[v] = wake[v]
    BY <2>4, <2>1, <2>2 DEF BeginWait, TypeOK
  <2>5. ASSUME NEW w \in Wakes, FinishDispatch(w) PROVE wake'[v] = wake[v]
    BY <2>5, <2>1, <2>2 DEF FinishDispatch, TypeOK
  <2>6. ASSUME NEW w \in Wakes, ApplySupersede(w) PROVE wake'[v] = wake[v]
    BY <2>6, <2>1, <2>2 DEF ApplySupersede, TypeOK
  <2>7. ASSUME NEW w \in Wakes, ApplyRecover(w) PROVE wake'[v] = wake[v]
    BY <2>7, <2>1, <2>2 DEF ApplyRecover, TypeOK
  <2> QED
    BY <2>3, <2>4, <2>5, <2>6, <2>7, ZenonT(30)
    DEF Next, Worker, Application, Reconcile, Cancel, Crash, Restart,
        ListDueOrFiredWithoutTimer, Return, Throw, DecideWait, FinishWait, Elapse,
        Decide, BeginDispatch, Converge, rows
<1> QED BY <1>1, Invariant, PTL DEF Spec, SettledIsFinal
=============================================================================
