------------------ MODULE ConversationTaskSchedulerProofs -------------------
(*****************************************************************************)
(* Proofs about ConversationTaskScheduler: type correctness, that no slot    *)
(* is taken from live work, that only a first admission exceeds the budget   *)
(* of a Workspace, and that one Task of a Conversation runs.  They begin     *)
(* with the promotions: what the dispatcher picks, what releasing one slot   *)
(* and reserving others keeps, and that none of it pushes a Workspace over   *)
(* its limit.                                                                *)
(*****************************************************************************)
EXTENDS ConversationTaskScheduler, FiniteSetTheorems, WellFoundedInduction, TLAPS

Holds(t) == slot[ConvOf[t]].active = t

\* The sweep's working set: what it still has to visit was listed with a Task of
\* that Conversation, and only unvisited Conversations are fresh.
SweepInv ==
    /\ sweep.fresh \subseteq sweep.left
    /\ \A c \in sweep.left : sweep.seen[c] \in Tasks /\ ConvOf[sweep.seen[c]] = c

\* A Task with an undelivered decision does not exist yet, and only Tasks that
\* exist execute.
PlanInv ==
    /\ \A t \in Tasks : plan[t] # "none" => status[t] = "absent" /\ t \notin Remaining
    /\ \A t \in exec : status[t] # "absent"

\* A live Task that was never resumed has an open entry.
EntryInv ==
    \A t \in Tasks \ resumed :
        status[t] \in {"queued", "running"} => entry[t] \in {"queued", "reserved", "running"}

\* What a running Task, and a launched one that is still queued, can count on.
SlotInv(t) ==
    /\ status[t] = "running" => Holds(t)
    /\ t \in exec /\ status[t] = "queued"
         => \/ Holds(t)
            \/ entry[t] = "queued" /\ slot[ConvOf[t]].active # None
    /\ t \in exec /\ status[t] = "queued" /\ Holds(t) /\ ConvOf[t] \in sweep.fresh
         => entry[t] = "queued"

SlotsInv == \A t \in Tasks \ resumed : Roomy(ConvOf[t]) => SlotInv(t)

IInv == TypeOK /\ SweepInv /\ PlanInv /\ EntryInv /\ SlotsInv

----------------------------------------------------------------------------
(* Promotions.  Every step that moves slots releases at most the slot of one *)
(* Task r and promotes a set P, of which S are started.                      *)

Live == {"queued", "running"}

Promotable(P, en, sl, st) ==
    /\ P \subseteq Tasks
    /\ \A t \in P : sl[ConvOf[t]] = Free /\ en[t] = "queued" /\ st[t] \in Live
    /\ \A t, u \in P : ConvOf[t] = ConvOf[u] => t = u

Shift(r, P, S, st) ==
    /\ P \subseteq Tasks /\ S \subseteq P
    /\ \A t \in P : /\ st[t] \in Live
                    /\ entry'[t] \in {"reserved", "running"}
                    /\ slot'[ConvOf[t]].active = t
                    /\ slot[ConvOf[t]].active \in {None, r}
    /\ \A t \in Tasks \ ({r} \cup P) : entry'[t] = entry[t]
    /\ \A c \in Conversations :
         (\A t \in P : ConvOf[t] # c) =>
            \/ slot'[c].active = slot[c].active
            \/ /\ c = ConvOf[r] /\ slot[c].active = r
               /\ Roomy(c) => \A t \in Tasks : ConvOf[t] = c /\ entry'[t] = "queued" => st[t] \notin Live

RowTypes ==
    /\ entry \in [Tasks -> EntryState]
    /\ slot \in [Conversations -> [state : SlotState, active : Tasks \cup {None}]]
    /\ \A c \in Conversations :
         /\ slot[c].state = "free" <=> slot[c].active = None
         /\ slot[c].active # None => ConvOf[slot[c].active] = c

\* A shift within one Conversation leaves the slots of the others alone.
LEMMA ShiftElsewhere ==
    ASSUME NEW r, NEW P, NEW S, NEW st, Shift(r, P, S, st),
           NEW c, ConvOf[r] = c, \A u \in P : ConvOf[u] = c
    PROVE  \A d \in Conversations \ {c} : slot'[d].active = slot[d].active
BY DEF Shift

\* A shift puts nobody who is not live into a slot.
LEMMA ShiftPutsLive ==
    ASSUME NEW r, NEW P, NEW S, NEW st, Shift(r, P, S, st), st[r] \notin Live
    PROVE  r \notin P
BY DEF Shift

\* What promoteQueuedInTransaction picks may be promoted, and it picks a Task
\* whenever there is a candidate.
LEMMA NextQueuedPicks ==
    ASSUME NEW en, NEW sl, NEW st, NEW c, NEW P \in NextQueued(en, sl, st, c)
    PROVE  /\ Promotable(P, en, sl, st)
           /\ \A t \in P : ConvOf[t] = c
           /\ P = {} => \A t \in Tasks : ConvOf[t] = c /\ sl[c] = Free /\ en[t] = "queued"
                                           => st[t] \notin Live
BY DEF NextQueued, Candidates, Promotable, Live

\* promoteAvailable picks at most one Task of each free Conversation.
LEMMA AvailablePicks ==
    ASSUME NEW en, NEW sl, NEW st, NEW P \in Promotions(en, sl, st)
    PROVE  Promotable(P, en, sl, st)
<1> DEFINE All == AllCandidates(en, sl, st)
<1>1. PICK ord \in Orders(All) : P = Available(en, sl, st, ord)
  BY DEF Promotions
<1> DEFINE Leaders == {t \in All : \A u \in All : ConvOf[u] = ConvOf[t] => ord[t] <= ord[u]}
<1>2. P \subseteq Leaders
  BY <1>1 DEF Available
<1>3. \A t \in All : t \in Tasks /\ sl[ConvOf[t]] = Free /\ en[t] = "queued" /\ st[t] \in Live
  BY DEF AllCandidates, Candidates, Live
<1> HIDE DEF All
<1>4. ASSUME NEW t \in Leaders, NEW u \in Leaders, ConvOf[t] = ConvOf[u]
      PROVE  t = u
  <2>1. ord[t] <= ord[u] /\ ord[u] <= ord[t]
    BY <1>4
  <2>2. ord \in [All -> 1..Cardinality(All)] /\ (t # u => ord[t] # ord[u])
    BY DEF Orders
  <2>3. ord[t] \in Nat /\ ord[u] \in Nat
    BY <2>2
  <2> QED
    BY <2>1, <2>2, <2>3
<1> QED
  BY <1>2, <1>3, <1>4 DEF Promotable

\* Released gives back at most r's own slot.
LEMMA ReleasedSlot ==
    ASSUME SchedulerAssumption, RowTypes, NEW r \in Tasks
    PROVE  /\ Released(r) \in [Conversations -> [state : SlotState, active : Tasks \cup {None}]]
           /\ \A c \in Conversations : \/ Released(r)[c] = slot[c]
                                       \/ Released(r)[c] = Free /\ c = ConvOf[r] /\ slot[c].active = r
           /\ Released(r) # slot => Releasable(r)
           /\ Releasable(r) => Released(r)[ConvOf[r]] = Free
<1>1. ConvOf[r] \in Conversations
  BY DEF SchedulerAssumption
<1>2. Free \in [state : SlotState, active : Tasks \cup {None}]
  BY DEF Free, SlotState
<1> QED
  BY <1>1, <1>2 DEF Released, Releasable, RowTypes

\* Where every Conversation has a place the terminal callback may promote.
LEMMA RoomyAllows ==
    ASSUME SchedulerAssumption, NEW c \in Conversations, Roomy(c)
    PROVE  Occupied(slot, WsOf[c]) <= WorkspaceLimit /\ WorkspaceLimit > 0
<1> DEFINE D == {d \in Conversations : WsOf[d] = WsOf[c]}
           O == {d \in Conversations : WsOf[d] = WsOf[c] /\ slot[d].active # None}
<1>1. IsFiniteSet(D) /\ O \subseteq D
  BY FS_Subset DEF SchedulerAssumption
<1>2. Cardinality(O) <= Cardinality(D) /\ Cardinality(O) \in Nat /\ Cardinality(D) \in Nat
  BY <1>1, FS_Subset, FS_CardinalityType
<1>3. Cardinality(D) # 0
  <2>1. c \in D
    BY Zenon
  <2> HIDE DEF D
  <2> QED
    BY <1>1, <2>1, FS_EmptySet, Zenon
<1>4. Cardinality(D) <= WorkspaceLimit /\ WorkspaceLimit \in Nat
  BY DEF Roomy, SchedulerAssumption
<1>5. Occupied(slot, WsOf[c]) = Cardinality(O)
  BY DEF Occupied
<1> HIDE DEF D, O
<1> QED
  BY <1>2, <1>3, <1>4, <1>5

\* Reserve after a release of r's slot (or of none, r = None) is a Shift.
LEMMA ReserveShift ==
    ASSUME SchedulerAssumption, RowTypes, NEW r \in Tasks \cup {None},
           NEW en \in [Tasks -> EntryState], \A t \in Tasks \ {r} : en[t] = entry[t],
           NEW sl, sl = slot \/ (r \in Tasks /\ sl = Released(r)),
           NEW st, NEW P, NEW S \in SUBSET P, Promotable(P, en, sl, st),
           Reserve(en, sl, P, S),
           r \in Tasks /\ Releasable(r) /\ sl # slot /\ Roomy(ConvOf[r])
             /\ (\A t \in P : ConvOf[t] # ConvOf[r])
             => \A t \in Tasks : ConvOf[t] = ConvOf[r] /\ en[t] = "queued" => st[t] \notin Live
    PROVE  Shift(r, P, S, st) /\ RowTypes'
<1>1. P \subseteq Tasks /\ \A t \in Tasks : ConvOf[t] \in Conversations
  BY DEF Promotable, SchedulerAssumption
<1>2. /\ sl \in [Conversations -> [state : SlotState, active : Tasks \cup {None}]]
      /\ \A c \in Conversations : \/ sl[c] = slot[c]
                                  \/ /\ sl[c] = Free /\ c = ConvOf[r] /\ slot[c].active = r
                                     /\ r \in Tasks /\ Releasable(r) /\ sl # slot
  <2>1. CASE sl = slot
    BY <2>1 DEF RowTypes
  <2>2. CASE r \in Tasks /\ sl = Released(r)
    BY <2>2, ReleasedSlot
  <2> QED
    BY <2>1, <2>2
<1>3. \A t \in P : slot'[ConvOf[t]] = [state |-> "occupied", active |-> t]
  <2> SUFFICES ASSUME NEW t \in P
               PROVE  slot'[ConvOf[t]] = [state |-> "occupied", active |-> t]
    BY Zenon
  <2>1. (CHOOSE u \in P : ConvOf[u] = ConvOf[t]) = t
    BY DEF Promotable
  <2> QED
    BY <1>1, <2>1, Zenon DEF Reserve
<1>4. \A c \in Conversations : (\A t \in P : ConvOf[t] # c) => slot'[c] = sl[c]
  BY DEF Reserve
<1>5. \A t \in Tasks : t \notin P => entry'[t] = en[t]
  BY DEF Reserve
<1>6. \A t \in P : entry'[t] \in {"reserved", "running"}
  BY <1>1 DEF Reserve
<1>7. entry' \in [Tasks -> EntryState]
  BY <1>1 DEF Reserve, EntryState
<1>8. \A c \in Conversations : /\ slot'[c] \in [state : SlotState, active : Tasks \cup {None}]
                               /\ slot'[c].state = "free" <=> slot'[c].active = None
                               /\ slot'[c].active # None => ConvOf[slot'[c].active] = c
  <2> SUFFICES ASSUME NEW c \in Conversations
               PROVE  /\ slot'[c] \in [state : SlotState, active : Tasks \cup {None}]
                      /\ slot'[c].state = "free" <=> slot'[c].active = None
                      /\ slot'[c].active # None => ConvOf[slot'[c].active] = c
    OBVIOUS
  <2>1. CASE \E t \in P : ConvOf[t] = c
    <3>1. PICK t \in P : ConvOf[t] = c
      BY <2>1
    <3>2. slot'[c] = [state |-> "occupied", active |-> t] /\ t \in Tasks /\ t # None
      BY <3>1, <1>1, <1>3 DEF SchedulerAssumption
    <3> QED
      BY <3>1, <3>2 DEF SlotState
  <2>2. CASE \A t \in P : ConvOf[t] # c
    BY <2>2, <1>2, <1>4 DEF RowTypes, Free, SlotState
  <2> QED
    BY <2>1, <2>2
<1>9. slot' \in [Conversations -> [state : SlotState, active : Tasks \cup {None}]]
  <2>1. slot' = [c \in Conversations |-> slot'[c]]
    BY DEF Reserve
  <2> QED
    BY <2>1, <1>8
<1>10. RowTypes'
  BY <1>7, <1>8, <1>9 DEF RowTypes
<1>11. \A t \in P : slot[ConvOf[t]].active \in {None, r} /\ st[t] \in Live
  BY <1>1, <1>2 DEF Promotable, Free
<1>12. ASSUME NEW c \in Conversations, \A t \in P : ConvOf[t] # c
       PROVE  \/ slot'[c].active = slot[c].active
              \/ /\ c = ConvOf[r] /\ slot[c].active = r
                 /\ Roomy(c) => \A t \in Tasks : ConvOf[t] = c /\ entry'[t] = "queued" => st[t] \notin Live
  <2>1. CASE sl[c] = slot[c]
    BY <1>4, <1>12, <2>1
  <2>2. CASE /\ sl[c] = Free /\ c = ConvOf[r] /\ slot[c].active = r
             /\ r \in Tasks /\ Releasable(r) /\ sl # slot
    <3>1. \A t \in Tasks : ConvOf[t] = c => t \notin P
      BY <1>12
    <3> QED
      BY <1>5, <1>12, <2>2, <3>1
  <2> QED
    BY <1>2, <2>1, <2>2
<1>13. \A t \in Tasks \ ({r} \cup P) : entry'[t] = entry[t]
  BY <1>5
<1>14. \A t \in P : /\ st[t] \in Live
                    /\ entry'[t] \in {"reserved", "running"}
                    /\ slot'[ConvOf[t]].active = t
                    /\ slot[ConvOf[t]].active \in {None, r}
  <2>1. ASSUME NEW t \in P PROVE slot'[ConvOf[t]].active = t
    <3>1. slot'[ConvOf[t]] = [state |-> "occupied", active |-> t]
      BY <1>3, Zenon
    <3>2. [state |-> "occupied", active |-> t].active = t
      OBVIOUS
    <3> QED
      BY <3>1, <3>2, Zenon
  <2> QED
    BY <2>1, <1>6, <1>11, Zenon
<1>15. Shift(r, P, S, st)
  BY <1>1, <1>12, <1>13, <1>14, Zenon DEF Shift
<1> QED
  BY <1>10, <1>15

\* A Shift takes a slot from r only.
LEMMA ShiftTakesOnlyFrom ==
    ASSUME NEW r, NEW P, NEW S, NEW st, Shift(r, P, S, st),
           r = None \/ (status'[r] # "running" /\ r \notin residue)
    PROVE  SlotStep
<1> SUFFICES ASSUME NEW c \in Conversations, slot[c].active # None,
                    slot'[c].active # slot[c].active
             PROVE  slot[c].active = r
  BY DEF SlotStep
<1>1. CASE \E t \in P : ConvOf[t] = c
  BY <1>1 DEF Shift
<1>2. CASE \A t \in P : ConvOf[t] # c
  BY <1>2 DEF Shift
<1> QED
  BY <1>1, <1>2

\* A Shift keeps what running and launched Tasks count on: the slot r loses goes
\* to somebody else whenever somebody waits for it.
LEMMA ShiftKeeps ==
    ASSUME SchedulerAssumption, RowTypes, SlotsInv, EntryInv, SlotStep,
           NEW r \in Tasks \cup {None}, NEW P, NEW S, NEW st, Shift(r, P, S, st),
           exec' \subseteq exec \cup S, resumed' = resumed,
           \A t \in Tasks : status'[t] \in Live => status[t] = status'[t] /\ st[t] = status'[t],
           r \in Tasks /\ status'[r] \in Live => r \in P \/ entry'[r] = entry[r],
           r \in (Tasks \cap exec) \ resumed /\ status'[r] = "queued" /\ Holds(r)
             /\ Roomy(ConvOf[r]) => entry[r] = "queued",
           \A c \in sweep.fresh' : /\ c \in sweep.fresh /\ slot'[c].active = slot[c].active
                                   /\ r \in P => c # ConvOf[r]
    PROVE  SlotsInv' /\ EntryInv'
<1>1. \A t \in Tasks : status'[t] \in Live => t \in P \/ entry'[t] = entry[t]
  BY DEF Shift
<1>2. EntryInv'
  <2> SUFFICES ASSUME NEW t \in Tasks \ resumed, status'[t] \in Live
               PROVE  entry'[t] \in {"queued", "reserved", "running"}
    BY DEF EntryInv, Live
  <2>1. CASE t \in P
    BY <2>1 DEF Shift
  <2>2. CASE entry'[t] = entry[t]
    BY <2>2 DEF EntryInv, Live
  <2> QED
    BY <1>1, <2>1, <2>2
<1>3. SlotsInv'
  <2> SUFFICES ASSUME NEW t \in Tasks \ resumed, Roomy(ConvOf[t]) PROVE SlotInv(t)'
    BY DEF SlotsInv, Roomy
  <2> DEFINE c == ConvOf[t]
  <2>0. SlotInv(t) /\ c \in Conversations /\ t # None
    BY DEF SlotsInv, SchedulerAssumption
  <2>1. status'[t] = "running" => Holds(t)'
    <3> SUFFICES ASSUME status'[t] = "running" PROVE slot'[c].active = t
      BY DEF Holds
    <3>1. slot[c].active = t
      BY <2>0 DEF SlotInv, Live, Holds
    <3> QED
      BY <2>0, <3>1 DEF SlotStep
  <2>2. ASSUME t \in exec', status'[t] = "queued"
        PROVE  \/ slot'[c].active = t
               \/ entry'[t] = "queued" /\ slot'[c].active # None
    <3>1. CASE t \in P
      BY <3>1 DEF Shift
    <3>2. CASE t \notin P
      <4>1. t \in exec /\ status[t] = "queued" /\ st[t] = "queued" /\ entry'[t] = entry[t]
        BY <1>1, <2>2, <3>2 DEF Live, Shift
      <4>2. CASE \E u \in P : ConvOf[u] = c
        <5>1. PICK u \in P : ConvOf[u] = c
          BY <4>2
        <5>2. slot'[c].active = u /\ u # None /\ slot[c].active \in {None, r}
          BY <5>1 DEF Shift, SchedulerAssumption
        <5>3. CASE Holds(t)
          <6>1. t = r
            BY <2>0, <5>2, <5>3 DEF Holds
          <6> QED
            BY <6>1, <5>2, <5>3, <4>1, <2>2
        <5>4. CASE entry[t] = "queued"
          BY <5>2, <5>4, <4>1
        <5> QED
          BY <5>3, <5>4, <4>1, <2>0 DEF SlotInv
      <4>3. CASE \A u \in P : ConvOf[u] # c
        <5>1. CASE slot'[c].active = slot[c].active
          BY <5>1, <4>1, <2>0 DEF SlotInv, Holds
        <5>2. CASE /\ c = ConvOf[r] /\ slot[c].active = r
                   /\ \A u \in Tasks : ConvOf[u] = c /\ entry'[u] = "queued" => st[u] \notin Live
          <6>1. entry[t] # "queued"
            BY <5>2, <4>1 DEF Live
          <6>2. t = r /\ Holds(t)
            BY <6>1, <5>2, <4>1, <2>0, Zenon DEF SlotInv, Holds
          <6> QED
            BY <6>1, <6>2, <4>1, <2>2, Zenon
        <5> QED
          BY <5>1, <5>2, <4>3, <2>0 DEF Shift
      <4> QED
        BY <4>2, <4>3
    <3> QED
      BY <3>1, <3>2
  <2>3. ASSUME t \in exec', status'[t] = "queued", slot'[c].active = t, c \in sweep.fresh'
        PROVE  entry'[t] = "queued"
    <3>1. slot[c].active = t /\ c \in sweep.fresh /\ (r \in P => c # ConvOf[r])
      BY <2>3
    <3>2. t \notin P
      BY <3>1, <2>0 DEF Shift
    <3>3. t \in exec /\ status[t] = "queued" /\ entry'[t] = entry[t]
      BY <1>1, <2>3, <3>2 DEF Live, Shift
    <3> QED
      BY <3>1, <3>3, <2>0 DEF SlotInv, Holds
  <2> QED
    BY <2>1, <2>2, <2>3 DEF SlotInv, Holds
<1> QED
  BY <1>2, <1>3

ProcessTypes ==
    /\ exec \subseteq Tasks
    /\ flight \in [Conversations -> Tasks \cup {None}]
    /\ awaits \in [Tasks -> SUBSET Conversations]
    /\ tails \subseteq [of : Tasks, by : Tasks \cup {None}]

\* Some promotion after a release of r's slot explains the step.
Moves(r, st) ==
    \E P \in SUBSET Tasks : \E S \in SUBSET P : Shift(r, P, S, st) /\ exec' \subseteq exec \cup S

\* releaseSlotAndPromote is a Shift.
LEMMA SuccessorsShift ==
    ASSUME SchedulerAssumption, RowTypes, NEW r \in Tasks,
           NEW en \in [Tasks -> EntryState], \A t \in Tasks \ {r} : en[t] = entry[t],
           NEW st, NEW P \in Successors(r, en, st, TRUE), NEW S \in SUBSET P,
           Reserve(en, Released(r), P, S)
    PROVE  Shift(r, P, S, st) /\ RowTypes' /\ P \subseteq Tasks /\ \A t \in P : ConvOf[t] = ConvOf[r]
<1>1. CASE Releasable(r)
  <2>1. P \in NextQueued(en, Released(r), st, ConvOf[r])
    BY <1>1 DEF Successors
  <2>2. Promotable(P, en, Released(r), st) /\ \A t \in P : ConvOf[t] = ConvOf[r]
    BY <2>1, NextQueuedPicks
  <2>3. P = {} => \A t \in Tasks : ConvOf[t] = ConvOf[r] /\ en[t] = "queued" => st[t] \notin Live
    <3>1. Released(r)[ConvOf[r]] = Free
      BY <1>1, ReleasedSlot
    <3> QED
      BY <2>1, <3>1, NextQueuedPicks
  <2>4. (\A t \in P : ConvOf[t] # ConvOf[r])
          => \A t \in Tasks : ConvOf[t] = ConvOf[r] /\ en[t] = "queued" => st[t] \notin Live
    BY <2>2, <2>3, Zenon
  <2>5. Shift(r, P, S, st) /\ RowTypes'
    BY <2>2, <2>4, ReserveShift, ZenonT(30)
  <2> QED
    BY <2>2, <2>5, Zenon DEF Promotable
<1>2. CASE ~Releasable(r)
  <2>1. P = {}
    BY <1>2 DEF Successors
  <2>2. Promotable(P, en, Released(r), st)
    BY <2>1 DEF Promotable
  <2>3. Shift(r, P, S, st) /\ RowTypes'
    BY <1>2, <2>2, ReserveShift, ZenonT(30)
  <2> QED
    BY <2>1, <2>3
<1> QED
  BY <1>1, <1>2

\* Starting promoted Tasks keeps the process state well typed, and leaves each of
\* their Conversations with a promise in flight.
LEMMA StartTypes ==
    ASSUME SchedulerAssumption, ProcessTypes, NEW P \in SUBSET Tasks, Start(Startable(P))
    PROVE  /\ exec' = exec \cup Startable(P) /\ exec' \subseteq Tasks
           /\ flight' \in [Conversations -> Tasks \cup {None}]
           /\ \A t \in P : flight'[ConvOf[t]] \in Tasks
<1> DEFINE S == Startable(P)
<1>1. S \subseteq P
  BY DEF Startable
<1>2. \A c \in Conversations : (\E t \in S : ConvOf[t] = c) => (CHOOSE t \in S : ConvOf[t] = c) \in Tasks
  BY <1>1
<1>3. exec' = exec \cup S /\ flight' = [c \in Conversations |->
                    IF \E t \in S : ConvOf[t] = c THEN CHOOSE t \in S : ConvOf[t] = c ELSE flight[c]]
  BY DEF Start
<1>4. ASSUME NEW t \in P PROVE flight'[ConvOf[t]] \in Tasks
  <2>1. ConvOf[t] \in Conversations
    BY DEF SchedulerAssumption
  <2>2. CASE flight[ConvOf[t]] = None
    <3>1. t \in S
      BY <2>2 DEF Startable
    <3> QED
      BY <1>2, <1>3, <2>1, <3>1
  <2>3. CASE flight[ConvOf[t]] # None
    BY <1>2, <1>3, <2>1, <2>3 DEF ProcessTypes
  <2> QED
    BY <2>2, <2>3
<1>5. flight' \in [Conversations -> Tasks \cup {None}]
  BY <1>2, <1>3 DEF ProcessTypes
<1> HIDE DEF S
<1> QED
  BY <1>1, <1>3, <1>4, <1>5 DEF ProcessTypes, S

\* promoteAvailableQueuedTasks, after a release of r's slot or of none.
LEMMA PromoteAvailableMoves ==
    ASSUME SchedulerAssumption, RowTypes, ProcessTypes,
           NEW r \in Tasks \cup {None}, NEW sl, sl = slot \/ (r \in Tasks /\ sl = Released(r)),
           NEW st, NEW by \in Tasks \cup {None}, PromoteAvailable(sl, st, by),
           r \in Tasks /\ Releasable(r) /\ sl # slot /\ Roomy(ConvOf[r])
             => \A t \in Tasks : ConvOf[t] = ConvOf[r] /\ entry[t] = "queued" => st[t] \notin Live
    PROVE  /\ Moves(r, st) /\ RowTypes'
           /\ exec' \subseteq Tasks /\ flight' \in [Conversations -> Tasks \cup {None}]
           /\ awaits' \in [Tasks -> SUBSET Conversations]
<1>1. PICK P \in Promotions(entry, sl, st) :
         /\ PromoteAndStart(entry, sl, P)
         /\ awaits' = IF by = None THEN awaits
                      ELSE [awaits EXCEPT ![by] = @ \cup {ConvOf[u] : u \in P}]
  BY Zenon DEF PromoteAvailable
<1>2. Promotable(P, entry, sl, st) /\ P \subseteq Tasks
  BY AvailablePicks, Zenon DEF Promotable
<1>3. Reserve(entry, sl, P, Startable(P)) /\ Start(Startable(P)) /\ Startable(P) \subseteq P
  BY <1>1, Zenon DEF PromoteAndStart, Startable
<1>4. awaits' = IF by = None THEN awaits ELSE [awaits EXCEPT ![by] = @ \cup {ConvOf[u] : u \in P}]
  BY <1>1, Zenon
<1>5. Shift(r, P, Startable(P), st) /\ RowTypes'
  <2>1. entry \in [Tasks -> EntryState]
    BY Zenon DEF RowTypes
  <2>2. r \in Tasks /\ Releasable(r) /\ sl # slot /\ Roomy(ConvOf[r])
          /\ (\A t \in P : ConvOf[t] # ConvOf[r])
          => \A t \in Tasks : ConvOf[t] = ConvOf[r] /\ entry[t] = "queued" => st[t] \notin Live
    BY ZenonT(30)
  <2>3. Startable(P) \in SUBSET P
    BY <1>3, Zenon
  <2> QED
    BY <1>2, <1>3, <2>1, <2>2, <2>3, ReserveShift, ZenonT(30)
<1>6. /\ exec' = exec \cup Startable(P) /\ exec' \subseteq Tasks
      /\ flight' \in [Conversations -> Tasks \cup {None}]
  BY <1>2, <1>3, StartTypes, Zenon
<1>7. {ConvOf[u] : u \in P} \subseteq Conversations
  BY <1>2 DEF SchedulerAssumption
<1>8. awaits' \in [Tasks -> SUBSET Conversations]
  BY <1>4, <1>7 DEF ProcessTypes
<1> QED
  BY <1>2, <1>3, <1>5, <1>6, <1>8, Zenon DEF Moves

\* The terminal callback.
LEMMA OnTaskTerminalMoves ==
    ASSUME SchedulerAssumption, RowTypes, ProcessTypes, NEW r \in Tasks,
           NEW st, NEW by \in Tasks \cup {None}, OnTaskTerminal(r, st, by)
    PROVE  Moves(r, st) /\ RowTypes' /\ ProcessTypes'
<1> DEFINE c == ConvOf[r]
           allowed == Occupied(slot, WsOf[c]) <= WorkspaceLimit /\ WorkspaceLimit > 0
<1>0. c \in Conversations /\ entry \in [Tasks -> EntryState]
  BY DEF SchedulerAssumption, RowTypes
<1>1. PICK P \in Successors(r, entry, st, allowed) :
            IF P = {} THEN PromoteAvailable(Released(r), st, by) /\ UNCHANGED tails
            ELSE /\ PromoteAndStart(entry, Released(r), P)
                 /\ tails' = tails \cup {[of |-> flight'[c], by |-> by]}
                 /\ UNCHANGED awaits
  BY DEF OnTaskTerminal
<1>2. CASE P = {}
  <2>1. Releasable(r) /\ Roomy(c)
          => \A t \in Tasks : ConvOf[t] = c /\ entry[t] = "queued" => st[t] \notin Live
    <3> SUFFICES ASSUME Releasable(r), Roomy(c)
                 PROVE  \A t \in Tasks : ConvOf[t] = c /\ entry[t] = "queued" => st[t] \notin Live
      BY Zenon
    <3>1. allowed
      BY <1>0, RoomyAllows
    <3>2. P \in NextQueued(entry, Released(r), st, c)
      BY <3>1 DEF Successors
    <3>3. Released(r)[c] = Free
      BY ReleasedSlot
    <3> QED
      BY <1>2, <3>2, <3>3, NextQueuedPicks, Zenon
  <2>2. PromoteAvailable(Released(r), st, by) /\ UNCHANGED tails
    BY <1>1, <1>2
  <2>3. /\ Moves(r, st) /\ RowTypes'
        /\ exec' \subseteq Tasks /\ flight' \in [Conversations -> Tasks \cup {None}]
        /\ awaits' \in [Tasks -> SUBSET Conversations]
    BY <2>1, <2>2, PromoteAvailableMoves, Zenon
  <2> QED
    BY <2>2, <2>3 DEF ProcessTypes
<1>3. CASE P # {}
  <2>1. P \in Successors(r, entry, st, TRUE)
    BY <1>3 DEF Successors
  <2>2. Reserve(entry, Released(r), P, Startable(P)) /\ Start(Startable(P)) /\ Startable(P) \in SUBSET P
    BY <1>1, <1>3, Zenon DEF PromoteAndStart, Startable
  <2>3. Shift(r, P, Startable(P), st) /\ RowTypes' /\ P \subseteq Tasks /\ \A t \in P : ConvOf[t] = c
    BY <1>0, <2>1, <2>2, SuccessorsShift, Zenon
  <2>4. /\ exec' = exec \cup Startable(P) /\ exec' \subseteq Tasks
        /\ flight' \in [Conversations -> Tasks \cup {None}]
        /\ \A t \in P : flight'[ConvOf[t]] \in Tasks
    BY <2>2, <2>3, StartTypes
  <2>5. flight'[c] \in Tasks
    BY <1>3, <2>3, <2>4
  <2>6. tails' = tails \cup {[of |-> flight'[c], by |-> by]} /\ UNCHANGED awaits
    BY <1>1, <1>3
  <2>7. ProcessTypes'
    BY <2>4, <2>5, <2>6 DEF ProcessTypes
  <2>8. Moves(r, st)
    BY <2>2, <2>3, <2>4 DEF Moves
  <2> QED
    BY <2>3, <2>7, <2>8
<1> QED
  BY <1>2, <1>3

\* A step that leaves every slot with its Task moves nothing.
LEMMA NothingMoves ==
    ASSUME NEW r, NEW st, \A c \in Conversations : slot'[c].active = slot[c].active,
           \A t \in Tasks \ {r} : entry'[t] = entry[t], exec' \subseteq exec
    PROVE  Moves(r, st)
<1>1. Shift(r, {}, {}, st)
  BY Zenon DEF Shift
<1> QED
  BY <1>1 DEF Moves

\* Marking a slot releasing.
LEMMA MarkReleasingKeeps ==
    ASSUME SchedulerAssumption, RowTypes, NEW r \in Tasks, MarkReleasing(r), UNCHANGED entry
    PROVE  RowTypes' /\ \A c \in Conversations : slot'[c].active = slot[c].active
<1>1. ConvOf[r] \in Conversations /\ r # None
  BY DEF SchedulerAssumption
<1> QED
  BY <1>1 DEF MarkReleasing, RowTypes, SlotState

\* Closing an entry touches that entry only.
LEMMA ClosedEntry ==
    ASSUME RowTypes, NEW r \in Tasks
    PROVE  Closed(entry, r) \in [Tasks -> EntryState] /\ \A t \in Tasks \ {r} : Closed(entry, r)[t] = entry[t]
BY DEF Closed, RowTypes, EntryState

\* The pause callback.
LEMMA OnWaitingForUserMoves ==
    ASSUME SchedulerAssumption, RowTypes, ProcessTypes, NEW r \in Tasks, NEW res,
           OnWaitingForUser(r, res), UNCHANGED <<awaits, tails>>
    PROVE  Moves(r, status') /\ RowTypes' /\ ProcessTypes'
<1>1. CASE slot[ConvOf[r]].active # r
  <2>1. entry' = Closed(entry, r) /\ UNCHANGED <<slot, exec, flight>>
    BY <1>1 DEF OnWaitingForUser
  <2>2. Moves(r, status')
    BY <2>1, ClosedEntry, NothingMoves
  <2> QED
    BY <2>1, <2>2, ClosedEntry DEF RowTypes, ProcessTypes
<1>2. CASE slot[ConvOf[r]].active = r /\ r \in res
  <2>1. MarkReleasing(r) /\ UNCHANGED <<entry, exec, flight>>
    BY <1>2 DEF OnWaitingForUser
  <2>2. RowTypes' /\ \A c \in Conversations : slot'[c].active = slot[c].active
    BY <2>1, MarkReleasingKeeps, Zenon
  <2>3. Moves(r, status')
    BY <2>1, <2>2, NothingMoves, Zenon
  <2> QED
    BY <2>1, <2>2, <2>3, Zenon DEF ProcessTypes
<1>3. CASE slot[ConvOf[r]].active = r /\ r \notin res
  <2>1. PICK P \in Successors(r, Closed(entry, r), status', TRUE) :
           PromoteAndStart(Closed(entry, r), Released(r), P)
    BY <1>3, Zenon DEF OnWaitingForUser
  <2>2. /\ Reserve(Closed(entry, r), Released(r), P, Startable(P)) /\ Start(Startable(P))
        /\ Startable(P) \in SUBSET P
    BY <2>1 DEF PromoteAndStart, Startable
  <2>3. Shift(r, P, Startable(P), status') /\ RowTypes' /\ P \subseteq Tasks
    BY <2>1, <2>2, ClosedEntry, SuccessorsShift, Zenon
  <2>4. /\ exec' = exec \cup Startable(P) /\ exec' \subseteq Tasks
        /\ flight' \in [Conversations -> Tasks \cup {None}]
    BY <2>2, <2>3, StartTypes
  <2> QED
    BY <2>2, <2>3, <2>4 DEF Moves, ProcessTypes
<1> QED
  BY <1>1, <1>2, <1>3

\* The coordinator's release.
LEMMA ReleaseAdmissionMoves ==
    ASSUME SchedulerAssumption, RowTypes, NEW r \in Tasks, ReleaseAdmission(r), exec' \subseteq exec
    PROVE  /\ RowTypes'
           /\ \/ Moves(r, status) /\ status[r] \in {"needs_action", "done", "cancelled"} /\ r \notin residue
              \/ UNCHANGED <<slot, entry>>
<1>1. CASE status[r] \in {"needs_action", "done", "cancelled"} /\ r \notin residue
  <2>1. PICK P \in Successors(r, Closed(entry, r), status, TRUE) :
           Reserve(Closed(entry, r), Released(r), P, {})
    BY <1>1, Zenon DEF ReleaseAdmission
  <2>2. {} \in SUBSET P
    OBVIOUS
  <2>3. Shift(r, P, {}, status) /\ RowTypes' /\ P \subseteq Tasks
    BY <2>1, <2>2, ClosedEntry, SuccessorsShift, Zenon
  <2> QED
    BY <1>1, <2>2, <2>3 DEF Moves
<1>2. CASE ~(status[r] \in {"needs_action", "done", "cancelled"} /\ r \notin residue)
  <2>1. UNCHANGED <<slot, entry>>
    BY <1>2, Zenon DEF ReleaseAdmission
  <2> QED
    BY <2>1, Zenon DEF RowTypes
<1> QED
  BY <1>1, <1>2

----------------------------------------------------------------------------
(* The Workspace budget.  A successor takes the slot just released; what     *)
(* promoteAvailable hands out it counts, so the last Task it promotes into a *)
(* Workspace still fits.                                                     *)

\* A nonempty set of naturals has a least element.
LEMMA LeastExists ==
    ASSUME NEW D \in SUBSET Nat, D # {}
    PROVE  \E d \in D : \A e \in D : d <= e
<1>1. \E R : IsWellFoundedOn(R, Nat) /\ \A x, y \in Nat : x < y => <<x, y>> \in R
  <2>1. OpToRel(<, Nat) = {ss \in Nat \X Nat : ss[1] < ss[2]}
    BY Zenon DEF OpToRel
  <2>2. IsWellFoundedOn({ss \in Nat \X Nat : ss[1] < ss[2]}, Nat)
    BY <2>1, NatLessThanWellFounded, Zenon
  <2>3. \A x, y \in Nat : x < y => <<x, y>> \in {ss \in Nat \X Nat : ss[1] < ss[2]}
    OBVIOUS
  <2> QED
    BY <2>2, <2>3, Zenon
<1>2. PICK R : IsWellFoundedOn(R, Nat) /\ \A x, y \in Nat : x < y => <<x, y>> \in R
  BY <1>1, Zenon
<1>3. PICK d \in D : \A e \in D : ~(<<e, d>> \in R)
  <2>1. D \subseteq Nat
    OBVIOUS
  <2>2. IsWellFoundedOn(R, Nat) /\ D # {}
    BY <1>2
  <2> QED
    BY <2>1, <2>2, WFMin, Zenon
<1>4. ASSUME NEW e \in D PROVE d <= e
  <2>1. ~(e < d)
    BY <1>2, <1>3, Zenon
  <2> QED
    BY <2>1
<1> QED
  BY <1>4

\* A nonempty finite set has an element that comes last in an order.
LEMMA LastExists ==
    ASSUME NEW W, IsFiniteSet(W), W # {}, NEW ord, \A t \in W : ord[t] \in Nat
    PROVE  \E t \in W : \A u \in W : ord[u] <= ord[t]
<1> DEFINE After(t) == {u \in W : ord[u] > ord[t]}
           D == {Cardinality(After(t)) : t \in W}
<1>1. \A t \in W : IsFiniteSet(After(t)) /\ Cardinality(After(t)) \in Nat
  BY FS_Subset, FS_CardinalityType
<1>2. PICK t \in W : \A u \in W : Cardinality(After(t)) <= Cardinality(After(u))
  <2>1. D \in SUBSET Nat /\ D # {}
    BY <1>1, Zenon
  <2>2. PICK d \in D : \A e \in D : d <= e
    <3> HIDE DEF D
    <3> QED
      BY <2>1, LeastExists
  <2>3. PICK t \in W : d = Cardinality(After(t))
    OBVIOUS
  <2>4. \A u \in W : Cardinality(After(u)) \in D
    BY ZenonT(30)
  <2> QED
    BY <2>2, <2>3, <2>4, ZenonT(30)
<1>3. ASSUME NEW u \in W, ord[u] > ord[t] PROVE FALSE
  <2>1. u \in After(t) /\ u \notin After(u) /\ After(u) \in SUBSET After(t)
    BY <1>3
  <2>2. Cardinality(After(u)) < Cardinality(After(t))
    <3> HIDE DEF After
    <3>1. Cardinality(After(u)) <= Cardinality(After(t)) /\ Cardinality(After(t)) # Cardinality(After(u))
      BY <1>1, <2>1, FS_Subset
    <3> QED
      BY <1>1, <3>1
  <2> QED
    <3> HIDE DEF After
    <3> QED
      BY <1>1, <1>2, <2>2
<1> QED
  BY <1>3

\* Tasks of different Conversations are no more than the Conversations, and the
\* Conversations they cover are no more than the Tasks.
LEMMA OnePerConversation ==
    ASSUME SchedulerAssumption, NEW L \in SUBSET Tasks,
           \A t, u \in L : ConvOf[t] = ConvOf[u] => t = u
    PROVE  IsFiniteSet(L) /\ Cardinality({ConvOf[t] : t \in L}) <= Cardinality(L)
<1> DEFINE f == [t \in L |-> ConvOf[t]]
           C == {ConvOf[t] : t \in L}
<1>1. f \in Injection(L, Conversations)
  BY DEF Injection, IsInjective, SchedulerAssumption
<1>2. IsFiniteSet(L)
  <2> HIDE DEF f
  <2> QED
    BY <1>1, FS_Injection DEF SchedulerAssumption
<1>3. f \in Surjection(L, C)
  BY DEF Surjection
<1>4. Cardinality(C) <= Cardinality(L)
  <2> HIDE DEF f, C
  <2> QED
    BY <1>2, <1>3, FS_Surjection
<1> QED
  BY <1>2, <1>4

\* A step that fills no empty slot keeps every Workspace where it was.
LEMMA OccupiedShrinks ==
    ASSUME SchedulerAssumption, NEW sl, NEW tl, NEW w,
           \A c \in Conversations : tl[c].active # None => sl[c].active # None
    PROVE  Occupied(tl, w) <= Occupied(sl, w) /\ Occupied(sl, w) \in Nat /\ Occupied(tl, w) \in Nat
<1> DEFINE O(s) == {c \in Conversations : WsOf[c] = w /\ s[c].active # None}
<1>1. O(tl) \in SUBSET O(sl) /\ O(sl) \in SUBSET Conversations
  BY Zenon
<1>2. IsFiniteSet(O(sl)) /\ IsFiniteSet(O(tl)) /\ Cardinality(O(tl)) <= Cardinality(O(sl))
  <2> HIDE DEF O
  <2> QED
    BY <1>1, FS_Subset, Zenon DEF SchedulerAssumption
<1>3. Cardinality(O(sl)) \in Nat /\ Cardinality(O(tl)) \in Nat
  <2> HIDE DEF O
  <2> QED
    BY <1>2, FS_CardinalityType, Zenon
<1> QED
  BY <1>2, <1>3, Zenon DEF Occupied

\* The last of `hand` slots was given with room left for it beside the `old` ones
\* and the `before` that came first.
LEMMA RoomLeft ==
    ASSUME NEW now \in Nat, NEW old \in Nat, NEW new \in Nat, NEW hand \in Nat,
           NEW before \in Nat, NEW limit \in Nat,
           now <= old + new, new <= hand, hand - 1 <= before, old + before < limit
    PROVE  now <= limit
OBVIOUS

\* promoteAvailable counts what it hands out: a Workspace it gives a slot to ends
\* within its limit.
LEMMA AvailableFits ==
    ASSUME SchedulerAssumption, NEW en, NEW sl, NEW st, NEW P \in Promotions(en, sl, st),
           NEW S, Reserve(en, sl, P, S), NEW w
    PROVE  Occupied(slot', w) <= WorkspaceLimit \/ Occupied(slot', w) <= Occupied(sl, w)
<1> DEFINE All == AllCandidates(en, sl, st)
           Ws(t) == WsOf[ConvOf[t]]
           W == {t \in P : Ws(t) = w}
           C == {ConvOf[t] : t \in W}
           O == {c \in Conversations : WsOf[c] = w /\ sl[c].active # None}
           N == {c \in Conversations : WsOf[c] = w /\ slot'[c].active # None}
<1>1. PICK ord \in Orders(All) : P = Available(en, sl, st, ord)
  BY DEF Promotions
<1> DEFINE Leaders == {t \in All : \A u \in All : ConvOf[u] = ConvOf[t] => ord[t] <= ord[u]}
           Before(t) == {u \in Leaders : Ws(u) = Ws(t) /\ ord[u] < ord[t]}
<1>2. P \subseteq Leaders /\ \A t \in P : Occupied(sl, Ws(t)) + Cardinality(Before(t)) < WorkspaceLimit
  <2>1. \A t \in Leaders : ord[t] <= ord[t]
    BY DEF Orders
  <2> QED
    BY <1>1, <2>1, Zenon DEF Available
<1>3. Leaders \subseteq Tasks /\ \A t \in Leaders : ord[t] \in Nat
  <2>1. All \subseteq Tasks
    BY Zenon DEF AllCandidates, Candidates
  <2>2. \A t \in All : ord[t] \in 1..Cardinality(All)
    BY Zenon DEF Orders
  <2> QED
    BY <2>1, <2>2
<1>4. \A t, u \in Leaders : ConvOf[t] = ConvOf[u] => t = u
  BY <1>3 DEF Orders
<1>5. N \subseteq O \cup C
  BY DEF Reserve
<1>6. IsFiniteSet(O) /\ IsFiniteSet(C) /\ Occupied(sl, w) = Cardinality(O) /\ Occupied(slot', w) = Cardinality(N)
  BY <1>2, <1>3, FS_Subset DEF SchedulerAssumption, Occupied
<1>7. Cardinality(N) <= Cardinality(O) + Cardinality(C) /\ (C = {} => Cardinality(N) <= Cardinality(O))
  <2> HIDE DEF N, O, C
  <2>1. /\ IsFiniteSet(O \cup C) /\ Cardinality(N) <= Cardinality(O \cup C)
        /\ Cardinality(O \cup C) = Cardinality(O) + Cardinality(C) - Cardinality(O \cap C)
    BY <1>5, <1>6, FS_Union, FS_Subset, Zenon
  <2>2. IsFiniteSet(O \cap C) /\ IsFiniteSet(N)
    BY <1>5, <1>6, <2>1, FS_Subset
  <2>3. /\ Cardinality(O \cap C) \in Nat /\ Cardinality(O) \in Nat /\ Cardinality(C) \in Nat
        /\ Cardinality(N) \in Nat
    BY <1>6, <2>2, FS_CardinalityType
  <2>4. C = {} => Cardinality(O \cup C) = Cardinality(O)
    <3>1. C = {} => O \cup C = O
      OBVIOUS
    <3> QED
      BY <3>1, Zenon
  <2> QED
    BY <2>1, <2>3, <2>4
<1>8. CASE W = {}
  <2>1. C = {}
    BY <1>8
  <2> QED
    <3> HIDE DEF N, O, C
    <3> QED
      BY <1>6, <1>7, <2>1
<1>9. CASE W # {}
  <2>1. IsFiniteSet(W) /\ Cardinality(C) <= Cardinality(W) /\ \A t \in W : t \in Leaders /\ t \in P
    <3>1. W \in SUBSET Tasks /\ \A t \in W : t \in Leaders /\ t \in P
      BY <1>2, <1>3, Zenon
    <3>2. \A t, u \in W : ConvOf[t] = ConvOf[u] => t = u
      BY <1>4, <3>1
    <3> QED
      <4> HIDE DEF W, Leaders
      <4> QED
        BY <3>1, <3>2, OnePerConversation
  <2>2. PICK t \in W : \A u \in W : ord[u] <= ord[t]
    <3>1. \A u \in W : ord[u] \in Nat
      BY <1>3, <2>1, Zenon
    <3> HIDE DEF W
    <3> QED
      BY <1>9, <2>1, <3>1, LastExists
  <2>3. W \ {t} \subseteq Before(t)
    <3>1. ASSUME NEW u \in W, u # t PROVE ord[u] < ord[t]
      <4>1. ord[u] # ord[t] /\ ord[u] \in Nat /\ ord[t] \in Nat
        BY <1>3, <2>1, <3>1, Zenon DEF Orders
      <4> QED
        BY <2>2, <3>1, <4>1
    <3> QED
      BY <2>1, <3>1, Zenon
  <2>4. IsFiniteSet(Before(t))
    <3>1. Before(t) \in SUBSET Tasks /\ \A u, v \in Before(t) : ConvOf[u] = ConvOf[v] => u = v
      BY <1>3, <1>4, Zenon
    <3> HIDE DEF Before
    <3> QED
      BY <3>1, OnePerConversation, Zenon
  <2>5. Cardinality(W) - 1 <= Cardinality(Before(t)) /\ Cardinality(W) \in Nat /\ Cardinality(Before(t)) \in Nat
    <3> HIDE DEF W, Before
    <3>1. Cardinality(W \ {t}) = Cardinality(W) - 1
      BY <2>1, FS_RemoveElement, Zenon
    <3>2. Cardinality(W \ {t}) <= Cardinality(Before(t))
      BY <2>3, <2>4, FS_Subset
    <3> QED
      BY <2>1, <2>4, <3>1, <3>2, FS_CardinalityType
  <2>6. Cardinality(O) + Cardinality(Before(t)) < WorkspaceLimit
    BY <1>2, <1>6, Zenon
  <2>7. /\ Cardinality(O) \in Nat /\ Cardinality(C) \in Nat /\ WorkspaceLimit \in Nat
        /\ Cardinality(N) \in Nat
    <3> HIDE DEF N, O, C
    <3>1. IsFiniteSet(N)
      BY <1>5, <1>6, FS_Union, FS_Subset, Zenon
    <3> QED
      BY <1>6, <3>1, FS_CardinalityType DEF SchedulerAssumption
  <2> HIDE DEF N, O, C, W, Before
  <2>8. Cardinality(N) <= WorkspaceLimit
    BY <1>7, <2>1, <2>5, <2>6, <2>7, RoomLeft, Zenon
  <2> QED
    BY <1>6, <2>8, Zenon
<1> QED
  BY <1>8, <1>9

\* A step that fills no empty slot pushes no Workspace over its limit.
LEMMA HeldFits ==
    ASSUME SchedulerAssumption, \A c \in Conversations : slot'[c].active # None => slot[c].active # None
    PROVE  BudgetStep
<1> SUFFICES ASSUME NEW w \in Workspaces PROVE ~(Occupied(slot', w) > Occupied(slot, w))
  BY DEF BudgetStep
<1>1. Occupied(slot', w) <= Occupied(slot, w) /\ Occupied(slot, w) \in Nat /\ Occupied(slot', w) \in Nat
  BY OccupiedShrinks, ZenonT(30)
<1> QED
  BY <1>1

\* Nor does a successor, which gets the slot just released.
LEMMA SuccessorsFit ==
    ASSUME SchedulerAssumption, RowTypes, NEW r \in Tasks, NEW en, NEW st, NEW allowed,
           NEW P \in Successors(r, en, st, allowed), NEW S, Reserve(en, Released(r), P, S)
    PROVE  BudgetStep
<1>1. ASSUME NEW c \in Conversations, slot'[c].active # None PROVE slot[c].active # None
  <2>1. CASE \E t \in P : ConvOf[t] = c
    <3>1. Releasable(r) /\ P \in NextQueued(en, Released(r), st, ConvOf[r])
      BY <2>1 DEF Successors
    <3>2. c = ConvOf[r]
      BY <2>1, <3>1, NextQueuedPicks
    <3> QED
      BY <3>1, <3>2, Zenon DEF Releasable, SchedulerAssumption
  <2>2. CASE \A t \in P : ConvOf[t] # c
    <3>1. slot'[c] = Released(r)[c]
      BY <2>2, Zenon DEF Reserve
    <3>2. Released(r)[c] = slot[c] \/ Released(r)[c] = Free
      BY ReleasedSlot
    <3>3. Free.active = None
      BY DEF Free
    <3> QED
      BY <1>1, <3>1, <3>2, <3>3, Zenon
  <2> QED
    BY <2>1, <2>2
<1> QED
  BY <1>1, HeldFits, Zenon

\* Nor does promoteAvailable, after a release of r's slot or of none.
LEMMA PromotionsFit ==
    ASSUME SchedulerAssumption, RowTypes, NEW r, NEW sl, sl = slot \/ (r \in Tasks /\ sl = Released(r)),
           NEW en, NEW st, NEW P \in Promotions(en, sl, st), NEW S, Reserve(en, sl, P, S)
    PROVE  BudgetStep
<1>1. \A c \in Conversations : sl[c].active # None => slot[c].active # None
  <2>1. CASE sl = slot
    BY <2>1
  <2>2. CASE r \in Tasks /\ sl = Released(r)
    BY <2>2, ReleasedSlot DEF Free
  <2> QED
    BY <2>1, <2>2
<1> SUFFICES ASSUME NEW w \in Workspaces
             PROVE  ~(Occupied(slot', w) > Occupied(slot, w) /\ Occupied(slot', w) > WorkspaceLimit)
  BY Zenon DEF BudgetStep
<1>2. Occupied(sl, w) <= Occupied(slot, w) /\ Occupied(sl, w) \in Nat /\ Occupied(slot, w) \in Nat
  BY <1>1, OccupiedShrinks, Zenon
<1>3. Occupied(slot', w) \in Nat /\ WorkspaceLimit \in Nat
  BY OccupiedShrinks, Zenon DEF SchedulerAssumption
<1>4. Occupied(slot', w) <= WorkspaceLimit \/ Occupied(slot', w) <= Occupied(sl, w)
  BY AvailableFits
<1> QED
  BY <1>2, <1>3, <1>4

LEMMA OnTaskTerminalFits ==
    ASSUME SchedulerAssumption, RowTypes, NEW r \in Tasks, NEW st, NEW by, OnTaskTerminal(r, st, by)
    PROVE  BudgetStep
<1> DEFINE allowed == Occupied(slot, WsOf[ConvOf[r]]) <= WorkspaceLimit /\ WorkspaceLimit > 0
<1>1. PICK P \in Successors(r, entry, st, allowed) :
            IF P = {} THEN PromoteAvailable(Released(r), st, by)
            ELSE PromoteAndStart(entry, Released(r), P)
  BY DEF OnTaskTerminal
<1> HIDE DEF allowed
<1>2. CASE P = {}
  <2>1. PICK Q \in Promotions(entry, Released(r), st) : PromoteAndStart(entry, Released(r), Q)
    BY <1>1, <1>2 DEF PromoteAvailable
  <2> QED
    BY <2>1, PromotionsFit DEF PromoteAndStart
<1>3. CASE P # {}
  BY <1>1, <1>3, SuccessorsFit DEF PromoteAndStart
<1> QED
  BY <1>2, <1>3

LEMMA OnWaitingForUserFits ==
    ASSUME SchedulerAssumption, RowTypes, NEW r \in Tasks, NEW res, OnWaitingForUser(r, res)
    PROVE  BudgetStep
<1>1. CASE UNCHANGED slot
  BY <1>1, HeldFits
<1>2. CASE MarkReleasing(r) /\ UNCHANGED entry
  BY <1>2, MarkReleasingKeeps, HeldFits, Zenon
<1>3. ASSUME NEW P \in Successors(r, Closed(entry, r), status', TRUE),
             PromoteAndStart(Closed(entry, r), Released(r), P)
      PROVE  BudgetStep
  BY <1>3, SuccessorsFit, Zenon DEF PromoteAndStart
<1> QED
  BY <1>1, <1>2, <1>3, Zenon DEF OnWaitingForUser

LEMMA ReleaseAdmissionFits ==
    ASSUME SchedulerAssumption, RowTypes, NEW r \in Tasks, ReleaseAdmission(r)
    PROVE  BudgetStep
<1>1. CASE UNCHANGED slot
  BY <1>1, HeldFits
<1>2. ASSUME NEW P \in Successors(r, Closed(entry, r), status, TRUE),
             Reserve(Closed(entry, r), Released(r), P, {})
      PROVE  BudgetStep
  BY <1>2, SuccessorsFit, Zenon
<1> QED
  BY <1>1, <1>2, Zenon DEF ReleaseAdmission

LEMMA AdmitFits ==
    ASSUME SchedulerAssumption, TypeOK, NEW t \in Tasks, Admit(t)
    PROVE  BudgetStep
<1>1. CASE plan[t] = "eligible"
  <2>1. plan'[t] = "none"
    BY Zenon DEF Admit, TypeOK
  <2> QED
    BY <1>1, <2>1, Zenon DEF BudgetStep
<1>2. CASE plan[t] # "eligible"
  BY <1>2, HeldFits, Zenon DEF Admit
<1> QED
  BY <1>1, <1>2

LEMMA PromotedFailsFits ==
    ASSUME SchedulerAssumption, RowTypes, NEW t \in Tasks, PromotedFails(t)
    PROVE  BudgetStep
<1>1. \A c \in Conversations : slot'[c].active = slot[c].active
  BY DEF PromotedFails, RowTypes
<1> QED
  BY <1>1, HeldFits, Zenon

LEMMA SweepVisitFits ==
    ASSUME SchedulerAssumption, RowTypes, SweepInv, NEW c \in Conversations, SweepVisit(c)
    PROVE  BudgetStep
<1> DEFINE t == sweep.seen[c]
<1>1. t \in Tasks
  BY DEF SweepVisit, SweepInv
<1>2. CASE UNCHANGED slot
  BY <1>2, HeldFits
<1>3. CASE MarkReleasing(t) /\ UNCHANGED entry
  BY <1>1, <1>3, MarkReleasingKeeps, HeldFits, Zenon
<1>4. ASSUME NEW P \in Successors(t, entry, status, TRUE), PromoteAndStart(entry, Released(t), P)
      PROVE  BudgetStep
  BY <1>1, <1>4, SuccessorsFit, Zenon DEF PromoteAndStart
<1> QED
  BY <1>2, <1>3, <1>4, Zenon DEF SweepVisit

\* A step other than a first admission pushes no Workspace over its limit.
LEMMA StepFits ==
    ASSUME SchedulerAssumption, TypeOK, SweepInv, Next
    PROVE  BudgetStep
<1>0. RowTypes
  BY DEF TypeOK, RowTypes
<1>1. CASE UNCHANGED slot
  BY <1>1, HeldFits
<1>2. ASSUME NEW t \in Tasks,
             \/ Decide(t) \/ RetryRemaining(t) \/ StartRemaining(t) \/ SettleRemaining(t) \/ Yield(t)
             \/ ResidueClears(t) \/ RecoverTask(t) \/ Resume(t) \/ AcceptResult(t) \/ Cancel(t)
      PROVE  UNCHANGED slot
  BY <1>2, Zenon DEF Decide, RetryRemaining, StartRemaining, SettleRemaining, Yield, ResidueClears,
       RecoverTask, Resume, AcceptResult, Cancel, rows
<1>3. ASSUME NEW t \in Tasks, Dispatch(t) \/ Pause(t) PROVE BudgetStep
  <2>1. UNCHANGED slot \/ \E res : OnWaitingForUser(t, res)
    BY <1>3, Zenon DEF Dispatch, Pause
  <2> QED
    BY <1>0, <1>1, <2>1, OnWaitingForUserFits, Zenon
<1>4. ASSUME NEW t \in Tasks, Complete(t) PROVE BudgetStep
  BY <1>0, <1>4, MarkReleasingKeeps, HeldFits, Zenon DEF Complete
<1>5. ASSUME NEW t \in Tasks, FinishRemaining(t) PROVE BudgetStep
  BY <1>0, <1>5, OnTaskTerminalFits, Zenon DEF FinishRemaining
<1>6. ASSUME NEW t \in Tasks, Settle(t) \/ DrainCancellation(t) PROVE BudgetStep
  BY <1>0, <1>6, ReleaseAdmissionFits, Zenon DEF Settle, DrainCancellation
<1>7. ASSUME NEW t \in Tasks, NotifyTerminal(t) PROVE BudgetStep
  <2>1. (MarkReleasing(t) /\ UNCHANGED entry) \/ OnTaskTerminal(t, status, None)
    BY <1>7, Zenon DEF NotifyTerminal
  <2> QED
    BY <1>0, <2>1, MarkReleasingKeeps, HeldFits, OnTaskTerminalFits, Zenon
<1>8. ASSUME NEW P \in Promotions(entry, slot, status), PromoteAndStart(entry, slot, P) PROVE BudgetStep
  <2>1. \E S : Reserve(entry, slot, P, S)
    BY <1>8, Zenon DEF PromoteAndStart
  <2> QED
    BY <1>0, <1>8, <2>1, PromotionsFit, Zenon
<1>9. ASSUME NEW t \in Tasks, OnTaskQueued(t) PROVE BudgetStep
  BY <1>8, <1>9, Zenon DEF OnTaskQueued
<1>10. ASSUME NEW k \in tails, FinishTerminal(k) PROVE BudgetStep
  BY <1>8, <1>10, Zenon DEF FinishTerminal, PromoteAvailable
<1>11. ASSUME SweepPromote PROVE BudgetStep
  BY <1>8, <1>11, Zenon DEF SweepPromote
<1>12. ASSUME SweepStart \/ SweepEnd \/ Restart PROVE UNCHANGED slot
  BY <1>12, Zenon DEF SweepStart, SweepEnd, Restart, rows
<1> QED
  BY <1>0, <1>1, <1>2, <1>3, <1>4, <1>5, <1>6, <1>7, <1>9, <1>10, <1>11, <1>12, AdmitFits,
     PromotedFailsFits, SweepVisitFits, Zenon DEF Next, ExecStep, SweepStep

----------------------------------------------------------------------------
(* Types, the sweep and the inductive step.                                *)

SweepType ==
    [phase : {"idle", "slots", "promoted"}, left : SUBSET Conversations,
     seen : [Conversations -> Tasks \cup {None}],
     fresh : SUBSET Conversations, awaits : SUBSET Conversations]

RestTypes ==
    /\ status \in [Tasks -> TaskStatus]
    /\ residue \subseteq Tasks /\ resumed \subseteq Tasks
    /\ plan \in [Tasks -> Plans]
    /\ budget \in [again : 0..MaxAgain, failures : 0..MaxFailures, crashes : 0..MaxCrashes]

LEMMA TypeParts == TypeOK <=> RowTypes /\ ProcessTypes /\ RestTypes /\ sweep \in SweepType
BY Zenon DEF TypeOK, RowTypes, ProcessTypes, RestTypes, SweepType

LEMMA TypePartsNext == TypeOK' <=> RowTypes' /\ ProcessTypes' /\ RestTypes' /\ sweep' \in SweepType
BY Zenon DEF TypeOK, RowTypes, ProcessTypes, RestTypes, SweepType

\* What a step does to a sweep that goes on meanwhile.
Watched ==
    /\ sweep' \in SweepType
    /\ sweep'.fresh = {c \in sweep.fresh : slot'[c].active = slot[c].active}
    /\ sweep'.left = sweep.left /\ sweep'.seen = sweep.seen

Fresher == sweep'.fresh \subseteq {c \in sweep.fresh : slot'[c].active = slot[c].active}

LEMMA ObservedWatches ==
    ASSUME sweep \in SweepType, NEW A \in SUBSET Conversations,
           sweep' \in {Observed(sweep), [Observed(sweep) EXCEPT !.awaits = @ \ A]}
    PROVE  Watched
BY ZenonT(30) DEF SweepType, Observed, Watched

LEMMA StillWatched ==
    ASSUME sweep \in SweepType, UNCHANGED sweep,
           \A c \in Conversations : slot'[c].active = slot[c].active
    PROVE  Watched
BY DEF SweepType, Watched

LEMMA WatchedKeeps ==
    ASSUME SweepInv, Watched
    PROVE  SweepInv' /\ sweep' \in SweepType /\ Fresher
BY Zenon DEF SweepInv, Watched, Fresher

\* A step that moves slots while no Task becomes queued or running, the released
\* Task least of all.
LEMMA MovesKeep ==
    ASSUME SchedulerAssumption, RowTypes, EntryInv, SlotsInv, Fresher,
           NEW r \in Tasks \cup {None}, NEW st, Moves(r, st), resumed' = resumed,
           \A t \in Tasks : status'[t] \in Live => status[t] = status'[t] /\ st[t] = status'[t],
           r # None => st[r] \notin Live /\ status'[r] \notin Live /\ r \notin residue
    PROVE  /\ SlotsInv' /\ EntryInv' /\ SlotStep
           /\ \A t \in exec' : t \in exec \/ (t \in Tasks /\ st[t] \in Live)
<1>1. PICK P \in SUBSET Tasks : \E S \in SUBSET P : Shift(r, P, S, st) /\ exec' \subseteq exec \cup S
  BY Zenon DEF Moves
<1>2. PICK S \in SUBSET P : Shift(r, P, S, st) /\ exec' \subseteq exec \cup S
  BY <1>1, Zenon
<1>3. SlotStep
  <2>1. r = None \/ (status'[r] # "running" /\ r \notin residue)
    BY Zenon DEF Live
  <2> QED
    BY <1>2, <2>1, ShiftTakesOnlyFrom, Zenon
<1>4. r \notin P
  <2>1. CASE r = None
    BY <2>1, <1>1, Zenon DEF SchedulerAssumption
  <2>2. CASE r # None
    BY <1>2, <2>2, ShiftPutsLive, Zenon
  <2> QED
    BY <2>1, <2>2, Zenon
<1>5. \A c \in sweep.fresh' : /\ c \in sweep.fresh /\ slot'[c].active = slot[c].active
                              /\ r \in P => c # ConvOf[r]
  BY <1>4, Zenon DEF Fresher
<1>6. SlotsInv' /\ EntryInv'
  <2>1. r \in Tasks /\ status'[r] \in Live => r \in P \/ entry'[r] = entry[r]
    BY Zenon DEF SchedulerAssumption
  <2>2. r \in (Tasks \cap exec) \ resumed /\ status'[r] = "queued" /\ Holds(r)
             /\ Roomy(ConvOf[r]) => entry[r] = "queued"
    BY Zenon DEF SchedulerAssumption, Live
  <2> QED
    BY <1>2, <1>3, <1>5, <2>1, <2>2, ShiftKeeps, Zenon
<1>7. \A t \in exec' : t \in exec \/ (t \in Tasks /\ st[t] \in Live)
  <2>1. \A t \in P : st[t] \in Live
    BY <1>2, Zenon DEF Shift
  <2>2. exec' \subseteq exec \cup P
    BY <1>2, Zenon
  <2> QED
    BY <2>1, <2>2, Zenon
<1> QED
  BY <1>3, <1>6, <1>7, Zenon

\* A step of one Task x that takes no slot away: at most x claims a free one.
LEMMA OwnStepKeeps ==
    ASSUME SchedulerAssumption, RowTypes, EntryInv, SlotsInv, Fresher, NEW x \in Tasks,
           \A c \in Conversations :
              \/ slot'[c].active = slot[c].active
              \/ c = ConvOf[x] /\ slot[c].active = None,
           \A t \in Tasks \ {x} : entry'[t] = entry[t] /\ status'[t] = status[t],
           exec' \subseteq exec \cup {x}, resumed \subseteq resumed',
           x \notin resumed' => /\ status'[x] \in Live => entry'[x] \in {"queued", "reserved", "running"}
                                /\ Roomy(ConvOf[x]) => SlotInv(x)'
    PROVE  SlotsInv' /\ EntryInv' /\ SlotStep
<1>1. SlotStep
  BY Zenon DEF SlotStep
<1>2. EntryInv'
  BY Zenon DEF EntryInv, Live
<1>3. ASSUME NEW t \in Tasks \ resumed', Roomy(ConvOf[t]), t # x PROVE SlotInv(t)'
  <2>1. SlotInv(t) /\ ConvOf[t] \in Conversations /\ t # None
    BY <1>3, Zenon DEF SlotsInv, SchedulerAssumption
  <2>2. entry'[t] = entry[t] /\ status'[t] = status[t] /\ (t \in exec' => t \in exec)
    BY <1>3, Zenon
  <2>3. CASE slot'[ConvOf[t]].active = slot[ConvOf[t]].active
    BY <2>1, <2>2, <2>3, Zenon DEF SlotInv, Holds, Fresher
  <2>4. CASE slot[ConvOf[t]].active = None
    BY <2>1, <2>2, <2>4, Zenon DEF SlotInv, Holds
  <2> QED
    BY <2>1, <2>3, <2>4, Zenon
<1>4. SlotsInv'
  BY <1>3, ZenonT(30) DEF SlotsInv, Roomy
<1> QED
  BY <1>1, <1>2, <1>4, Zenon

LEMMA PlanKeeps ==
    ASSUME PlanInv, exec \subseteq Tasks, UNCHANGED plan,
           \A t \in Tasks : status[t] # "absent" => status'[t] # "absent",
           \A t \in Tasks : plan[t] # "none" => status'[t] = status[t],
           \A t \in exec' : t \in exec \/ status'[t] # "absent"
    PROVE  PlanInv'
BY DEF PlanInv

\* What every step must leave behind.
Kept == TypeOK' /\ SweepInv' /\ PlanInv' /\ EntryInv' /\ SlotsInv' /\ SlotStep

\* A step that moves no slot and starts nothing.
LEMMA QuietKeeps ==
    ASSUME SchedulerAssumption, IInv, Fresher, UNCHANGED <<entry, resumed>>, exec' \subseteq exec,
           \A c \in Conversations : slot'[c].active = slot[c].active,
           \A t \in Tasks : status'[t] \in Live => status[t] = status'[t]
    PROVE  SlotsInv' /\ EntryInv' /\ SlotStep
<1>1. Moves(None, status)
  BY NothingMoves, Zenon
<1>2. RowTypes /\ EntryInv /\ SlotsInv
  BY TypeParts DEF IInv
<1> QED
  BY <1>1, <1>2, MovesKeep, Zenon

\* The end of an execution's promise.
LEMMA SettledTypes ==
    ASSUME SchedulerAssumption, ProcessTypes, sweep \in SweepType, NEW t \in Tasks,
           Settled(t), UNCHANGED tails
    PROVE  ProcessTypes' /\ Watched /\ exec' = exec \ {t}
<1>1. ConvOf[t] \in Conversations
  BY DEF SchedulerAssumption
<1>2. Watched
  <2>1. CASE flight[ConvOf[t]] = t
    <3>1. sweep' = [Observed(sweep) EXCEPT !.awaits = @ \ {ConvOf[t]}]
      BY <2>1 DEF Settled
    <3>2. {ConvOf[t]} \in SUBSET Conversations
      BY <1>1
    <3> QED
      BY <3>1, <3>2, ObservedWatches, Zenon
  <2>2. CASE flight[ConvOf[t]] # t
    <3>1. sweep' = Observed(sweep)
      BY <2>2 DEF Settled
    <3> QED
      BY <3>1, <1>1, ObservedWatches
  <2> QED
    BY <2>1, <2>2
<1>3. ProcessTypes' /\ exec' = exec \ {t}
  BY <1>1 DEF Settled, ProcessTypes
<1> QED
  BY <1>2, <1>3

LEMMA DecideKeeps ==
    ASSUME SchedulerAssumption, IInv, NEW t \in Tasks, Decide(t)
    PROVE  Kept
<1>1. RowTypes /\ ProcessTypes /\ RestTypes /\ sweep \in SweepType
  BY TypeParts DEF IInv
<1>2. UNCHANGED <<rows, process, sweep, budget, resumed>> /\ status[t] = "absent" /\ t \notin Remaining
  BY Zenon DEF Decide
<1>3. plan' \in [Tasks -> Plans] /\ \A u \in Tasks \ {t} : plan'[u] = plan[u]
  BY <1>1, Zenon DEF Decide, RestTypes, Plans
<1>4. TypeOK'
  BY <1>1, <1>2, <1>3, TypePartsNext, Zenon DEF RowTypes, ProcessTypes, RestTypes, rows, process
<1>5. Watched
  BY <1>1, <1>2, StillWatched DEF rows
<1>6. SweepInv' /\ Fresher
  BY <1>5, WatchedKeeps DEF IInv
<1>7. PlanInv'
  BY <1>2, <1>3, Zenon DEF IInv, PlanInv, rows, process
<1>8. SlotsInv' /\ EntryInv' /\ SlotStep
  BY <1>2, <1>6, QuietKeeps, Zenon DEF rows, process
<1> QED
  BY <1>4, <1>6, <1>7, <1>8 DEF Kept

LEMMA AdmitKeeps ==
    ASSUME SchedulerAssumption, IInv, NEW t \in Tasks, Admit(t)
    PROVE  Kept
<1> DEFINE c == ConvOf[t]
<1>1. RowTypes /\ ProcessTypes /\ RestTypes /\ sweep \in SweepType /\ c \in Conversations /\ t # None
  BY TypeParts DEF IInv, SchedulerAssumption
<1>2. /\ plan[t] # "none" /\ plan' = [plan EXCEPT ![t] = "none"]
      /\ status' = [status EXCEPT ![t] = "queued"]
      /\ sweep' = Observed(sweep) /\ UNCHANGED <<residue, flight, awaits, tails, budget, resumed>>
  BY Zenon DEF Admit
<1>3. status[t] = "absent" /\ t \notin exec
  BY <1>1, <1>2, Zenon DEF IInv, PlanInv, ProcessTypes
<1>4. Watched
  BY <1>1, <1>2, ObservedWatches
<1>5. SweepInv' /\ Fresher /\ sweep' \in SweepType
  BY <1>4, WatchedKeeps DEF IInv
<1>6. RestTypes'
  BY <1>1, <1>2, Zenon DEF RestTypes, TaskStatus, Plans
<1>7. CASE /\ slot[c] = Free /\ slot' = [slot EXCEPT ![c] = [state |-> "occupied", active |-> t]]
           /\ entry' = [entry EXCEPT ![t] = "running"] /\ exec' = exec \cup {t}
  <2>1. RowTypes' /\ ProcessTypes'
    BY <1>1, <1>2, <1>7, Zenon DEF RowTypes, ProcessTypes, SlotState, EntryState
  <2>2. slot[c].active = None /\ slot'[c].active = t /\ \A d \in Conversations \ {c} : slot'[d] = slot[d]
    BY <1>1, <1>7 DEF RowTypes, Free
  <2>3. c \notin sweep'.fresh
    BY <1>1, <1>4, <2>2, Zenon DEF Watched
  <2>4. SlotInv(t)'
    BY <1>1, <1>2, <2>2, <2>3, Zenon DEF SlotInv, Holds, RestTypes
  <2>5. entry'[t] = "running" /\ \A u \in Tasks \ {t} : entry'[u] = entry[u] /\ status'[u] = status[u]
    BY <1>1, <1>2, <1>7, Zenon DEF RowTypes, RestTypes
  <2>6. SlotsInv' /\ EntryInv' /\ SlotStep
    BY <1>1, <1>2, <1>5, <1>7, <2>2, <2>4, <2>5, OwnStepKeeps, Zenon DEF IInv
  <2>7. PlanInv'
    BY <1>1, <1>2, <1>3, <1>7 DEF IInv, PlanInv, RestTypes
  <2>8. TypeOK'
    BY <1>5, <1>6, <2>1, TypePartsNext, Zenon
  <2> QED
    BY <1>5, <2>6, <2>7, <2>8 DEF Kept
<1>8. CASE entry' = [entry EXCEPT ![t] = "queued"] /\ UNCHANGED <<slot, exec>>
  <2>1. RowTypes' /\ ProcessTypes'
    BY <1>1, <1>2, <1>8, Zenon DEF RowTypes, ProcessTypes, EntryState
  <2>2. SlotInv(t)'
    BY <1>1, <1>2, <1>3, <1>8, Zenon DEF SlotInv, RestTypes
  <2>3. entry'[t] = "queued" /\ \A u \in Tasks \ {t} : entry'[u] = entry[u] /\ status'[u] = status[u]
    BY <1>1, <1>2, <1>8, Zenon DEF RowTypes, RestTypes
  <2>4. SlotsInv' /\ EntryInv' /\ SlotStep
    BY <1>1, <1>2, <1>5, <1>8, <2>2, <2>3, OwnStepKeeps, Zenon DEF IInv
  <2>5. PlanInv'
    BY <1>1, <1>2, <1>3, <1>8 DEF IInv, PlanInv, RestTypes
  <2>6. TypeOK'
    BY <1>5, <1>6, <2>1, TypePartsNext
  <2> QED
    BY <1>5, <2>4, <2>5, <2>6 DEF Kept
<1> QED
  BY <1>7, <1>8, Zenon DEF Admit

\* A step that moves slots, given what it does to the rest.
LEMMA MovesKept ==
    ASSUME SchedulerAssumption, IInv, Watched, NEW r \in Tasks \cup {None}, NEW st, Moves(r, st),
           RowTypes', ProcessTypes', RestTypes', UNCHANGED <<plan, resumed>>,
           \A t \in Tasks : /\ status'[t] \in Live => status[t] = status'[t] /\ st[t] = status'[t]
                            /\ status[t] = "absent" <=> status'[t] = "absent"
                            /\ st[t] \in Live => status'[t] # "absent",
           r # None => st[r] \notin Live /\ status'[r] \notin Live /\ r \notin residue
    PROVE  Kept
<1>1. SweepInv' /\ sweep' \in SweepType /\ Fresher
  BY WatchedKeeps, Zenon DEF IInv
<1>2. RowTypes /\ EntryInv /\ SlotsInv /\ ProcessTypes /\ PlanInv
  BY TypeParts, Zenon DEF IInv
<1>3. /\ SlotsInv' /\ EntryInv' /\ SlotStep
      /\ \A t \in exec' : t \in exec \/ (t \in Tasks /\ st[t] \in Live)
  BY <1>1, <1>2, MovesKeep, Zenon
<1>4. PlanInv'
  <2>1. \A t \in Tasks : plan[t] # "none" => status'[t] = status[t]
    BY <1>2, Zenon DEF PlanInv
  <2>2. exec \subseteq Tasks
    BY <1>2, Zenon DEF ProcessTypes
  <2> QED
    BY <1>2, <1>3, <2>1, <2>2, PlanKeeps, Zenon
<1>5. TypeOK'
  BY <1>1, TypePartsNext, Zenon
<1> QED
  BY <1>1, <1>3, <1>4, <1>5, Zenon DEF Kept

\* A step that moves no slot and starts nothing, given what it does to the rest.
LEMMA QuietKept ==
    ASSUME SchedulerAssumption, IInv, SweepInv', sweep' \in SweepType, Fresher,
           RowTypes', ProcessTypes', RestTypes', UNCHANGED <<entry, plan, resumed>>, exec' \subseteq exec,
           \A c \in Conversations : slot'[c].active = slot[c].active,
           \A t \in Tasks : /\ status'[t] \in Live => status[t] = status'[t]
                            /\ status[t] = "absent" <=> status'[t] = "absent"
    PROVE  Kept
<1>1. SlotsInv' /\ EntryInv' /\ SlotStep
  BY QuietKeeps, Zenon
<1>2. ProcessTypes /\ PlanInv
  BY TypeParts, Zenon DEF IInv
<1>3. PlanInv'
  <2>1. \A t \in Tasks : plan[t] # "none" => status'[t] = status[t]
    BY <1>2, Zenon DEF PlanInv
  <2>2. exec \subseteq Tasks
    BY <1>2, Zenon DEF ProcessTypes
  <2> QED
    BY <1>2, <2>1, <2>2, PlanKeeps, Zenon
<1>4. TypeOK'
  BY TypePartsNext, Zenon
<1> QED
  BY <1>1, <1>3, <1>4, Zenon DEF Kept

\* A Task's own step that at most claims a free slot, given what it does to the rest.
LEMMA OwnStepKept ==
    ASSUME SchedulerAssumption, IInv, Watched, NEW x \in Tasks,
           RowTypes', ProcessTypes', RestTypes', UNCHANGED <<slot, plan>>, plan[x] = "none",
           \A t \in Tasks \ {x} : entry'[t] = entry[t] /\ status'[t] = status[t],
           status'[x] # "absent", exec' \subseteq exec \cup {x}, resumed \subseteq resumed',
           x \notin resumed' => /\ status'[x] \in Live => entry'[x] \in {"queued", "reserved", "running"}
                                /\ Roomy(ConvOf[x]) => SlotInv(x)'
    PROVE  Kept
<1>1. SweepInv' /\ sweep' \in SweepType /\ Fresher
  BY WatchedKeeps, Zenon DEF IInv
<1>2. RowTypes /\ EntryInv /\ SlotsInv /\ ProcessTypes /\ PlanInv
  BY TypeParts, Zenon DEF IInv
<1>3. SlotsInv' /\ EntryInv' /\ SlotStep
  BY <1>1, <1>2, OwnStepKeeps, Zenon
<1>4. PlanInv'
  BY <1>2, Zenon DEF PlanInv, ProcessTypes
<1>5. TypeOK'
  BY <1>1, TypePartsNext, Zenon
<1> QED
  BY <1>1, <1>3, <1>4, <1>5, Zenon DEF Kept

LEMMA Parts ==
    ASSUME SchedulerAssumption, IInv
    PROVE  /\ RowTypes /\ ProcessTypes /\ RestTypes /\ sweep \in SweepType
           /\ SweepInv /\ PlanInv /\ EntryInv /\ SlotsInv
           /\ sweep' = Observed(sweep) => Watched
           /\ sweep' = sweep /\ (\A c \in Conversations : slot'[c].active = slot[c].active) => Watched
<1>1. RowTypes /\ ProcessTypes /\ RestTypes /\ sweep \in SweepType
  BY TypeParts DEF IInv
<1>2. {} \in SUBSET Conversations
  OBVIOUS
<1>3. sweep' = Observed(sweep) => Watched
  BY <1>1, <1>2, ObservedWatches
<1>4. sweep' = sweep /\ (\A c \in Conversations : slot'[c].active = slot[c].active) => Watched
  BY <1>1, StillWatched, Zenon
<1> QED
  BY <1>1, <1>3, <1>4, Zenon DEF IInv

----------------------------------------------------------------------------
(* A Task's own steps *)

LEMMA RetryRemainingKeeps ==
    ASSUME SchedulerAssumption, IInv, NEW t \in Tasks, RetryRemaining(t)
    PROVE  Kept
<1>1. /\ t \in Remaining /\ status[t] = "absent" /\ status' = [status EXCEPT ![t] = "queued"]
      /\ entry' = [entry EXCEPT ![t] = "queued"]
      /\ UNCHANGED <<slot, residue, exec, flight, awaits, tails, plan, sweep, budget, resumed>>
  BY Zenon DEF RetryRemaining, process
<1>2. RowTypes /\ ProcessTypes /\ RestTypes /\ PlanInv /\ Watched
  BY <1>1, Parts, Zenon
<1>3. RowTypes' /\ ProcessTypes' /\ RestTypes'
  BY <1>1, <1>2, Zenon DEF RowTypes, ProcessTypes, RestTypes, EntryState, TaskStatus
<1>4. plan[t] = "none" /\ t \notin exec'
  BY <1>1, <1>2 DEF PlanInv
<1>5. entry'[t] = "queued" /\ status'[t] = "queued"
      /\ \A u \in Tasks \ {t} : entry'[u] = entry[u] /\ status'[u] = status[u]
  BY <1>1, <1>2, Zenon DEF RowTypes, RestTypes
<1>6. SlotInv(t)'
  BY <1>4, <1>5, Zenon DEF SlotInv
<1> QED
  BY <1>1, <1>2, <1>3, <1>4, <1>5, <1>6, OwnStepKept, Zenon

LEMMA StartRemainingKeeps ==
    ASSUME SchedulerAssumption, IInv, NEW t \in Tasks, StartRemaining(t)
    PROVE  Kept
<1>1. /\ status[t] = "queued" /\ status' = [status EXCEPT ![t] = "running"]
      /\ slot[ConvOf[t]] = [state |-> "occupied", active |-> t]
      /\ entry' = [entry EXCEPT ![t] = IF @ \in {"queued", "reserved"} THEN "running" ELSE @]
      /\ UNCHANGED <<slot, residue, exec, flight, awaits, tails, plan, sweep, budget, resumed>>
  BY Zenon DEF StartRemaining, process
<1>2. RowTypes /\ ProcessTypes /\ RestTypes /\ PlanInv /\ EntryInv /\ Watched
  BY <1>1, Parts, Zenon
<1>3. RowTypes' /\ ProcessTypes' /\ RestTypes'
  BY <1>1, <1>2, Zenon DEF RowTypes, ProcessTypes, RestTypes, EntryState, TaskStatus
<1>4. plan[t] = "none"
  BY <1>1, <1>2, Zenon DEF PlanInv
<1>5. status'[t] = "running" /\ (t \notin resumed => entry'[t] \in {"queued", "reserved", "running"})
      /\ \A u \in Tasks \ {t} : entry'[u] = entry[u] /\ status'[u] = status[u]
  BY <1>1, <1>2, Zenon DEF RowTypes, RestTypes, EntryInv
<1>6. SlotInv(t)'
  <2>1. slot'[ConvOf[t]].active = t
    BY <1>1
  <2> QED
    BY <1>5, <2>1, Zenon DEF SlotInv, Holds
<1> QED
  BY <1>1, <1>2, <1>3, <1>4, <1>5, <1>6, OwnStepKept, Zenon

LEMMA YieldKeeps ==
    ASSUME SchedulerAssumption, IInv, NEW t \in Tasks, Yield(t)
    PROVE  Kept
<1>1. /\ status[t] = "running" /\ status' = [status EXCEPT ![t] = "queued"] /\ budget.again < MaxAgain
      /\ budget' = [budget EXCEPT !.again = @ + 1]
      /\ UNCHANGED <<entry, slot, residue, tails, plan, resumed>> /\ Settled(t)
  BY Zenon DEF Yield, Spend
<1>2. RowTypes /\ ProcessTypes /\ RestTypes /\ PlanInv /\ EntryInv /\ sweep \in SweepType
  BY Parts, Zenon
<1>3. ProcessTypes' /\ Watched /\ exec' = exec \ {t}
  BY <1>1, <1>2, SettledTypes
<1>4. RowTypes' /\ RestTypes'
  BY <1>1, <1>2 DEF RowTypes, RestTypes, TaskStatus, SchedulerAssumption
<1>5. plan[t] = "none"
  BY <1>1, <1>2 DEF PlanInv
<1>6. status'[t] = "queued" /\ (t \notin resumed => entry'[t] \in {"queued", "reserved", "running"})
      /\ \A u \in Tasks \ {t} : entry'[u] = entry[u] /\ status'[u] = status[u]
  BY <1>1, <1>2 DEF RowTypes, RestTypes, EntryInv
<1>7. SlotInv(t)'
  BY <1>3, <1>6, Zenon DEF SlotInv
<1> QED
  BY <1>1, <1>3, <1>4, <1>5, <1>6, <1>7, OwnStepKept

LEMMA ResumeKeeps ==
    ASSUME SchedulerAssumption, IInv, NEW t \in Tasks, Resume(t)
    PROVE  Kept
<1>1. /\ status[t] = "needs_action" /\ status' = [status EXCEPT ![t] = "queued"] /\ budget.again < MaxAgain
      /\ budget' = [budget EXCEPT !.again = @ + 1] /\ exec' = exec \cup {t} /\ resumed' = resumed \cup {t}
      /\ UNCHANGED <<entry, slot, residue, flight, awaits, tails, plan, sweep>>
  BY Zenon DEF Resume, Spend
<1>2. RowTypes /\ ProcessTypes /\ RestTypes /\ PlanInv /\ Watched
  BY <1>1, Parts
<1>3. RowTypes' /\ ProcessTypes' /\ RestTypes'
  <2>1. RowTypes' /\ ProcessTypes'
    BY <1>1, <1>2, Zenon DEF RowTypes, ProcessTypes
  <2>2. budget' \in [again : 0..MaxAgain, failures : 0..MaxFailures, crashes : 0..MaxCrashes]
    BY <1>1, <1>2 DEF RestTypes, SchedulerAssumption
  <2>3. status' \in [Tasks -> TaskStatus] /\ resumed' \subseteq Tasks
    BY <1>1, <1>2, Zenon DEF RestTypes, TaskStatus
  <2> QED
    BY <1>1, <1>2, <2>1, <2>2, <2>3, Zenon DEF RestTypes
<1>4. plan[t] = "none"
  BY <1>1, <1>2 DEF PlanInv
<1>5. status'[t] = "queued" /\ \A u \in Tasks \ {t} : entry'[u] = entry[u] /\ status'[u] = status[u]
  BY <1>1, <1>2 DEF RestTypes
<1> QED
  BY <1>1, <1>2, <1>3, <1>4, <1>5, OwnStepKept

LEMMA AcceptResultKeeps ==
    ASSUME SchedulerAssumption, IInv, NEW t \in Tasks, AcceptResult(t)
    PROVE  Kept
<1>1. /\ status[t] = "needs_action" /\ status' = [status EXCEPT ![t] = "queued"] /\ budget.again < MaxAgain
      /\ budget' = [budget EXCEPT !.again = @ + 1] /\ t \notin exec
      /\ entry' = [entry EXCEPT ![t] = "queued"]
      /\ UNCHANGED <<slot, residue, exec, flight, awaits, tails, plan, sweep, resumed>>
  BY Zenon DEF AcceptResult, Spend, process
<1>2. RowTypes /\ ProcessTypes /\ RestTypes /\ PlanInv /\ Watched
  BY <1>1, Parts
<1>3. RowTypes' /\ ProcessTypes' /\ RestTypes'
  BY <1>1, <1>2 DEF RowTypes, ProcessTypes, RestTypes, TaskStatus, EntryState, SchedulerAssumption
<1>4. plan[t] = "none"
  BY <1>1, <1>2 DEF PlanInv
<1>5. status'[t] = "queued" /\ entry'[t] = "queued"
      /\ \A u \in Tasks \ {t} : entry'[u] = entry[u] /\ status'[u] = status[u]
  BY <1>1, <1>2 DEF RowTypes, RestTypes
<1>6. SlotInv(t)'
  BY <1>1, <1>5 DEF SlotInv
<1> QED
  BY <1>1, <1>2, <1>3, <1>4, <1>5, <1>6, OwnStepKept

LEMMA RecoverTaskKeeps ==
    ASSUME SchedulerAssumption, IInv, NEW t \in Tasks, RecoverTask(t)
    PROVE  Kept
<1>1. /\ status[t] = "running" /\ exec' = exec \cup {t}
      /\ UNCHANGED <<status, entry, slot, residue, flight, awaits, tails, plan, sweep, budget, resumed>>
  BY Zenon DEF RecoverTask, rows
<1>2. RowTypes /\ ProcessTypes /\ RestTypes /\ PlanInv /\ EntryInv /\ SlotsInv /\ Watched
  BY <1>1, Parts, Zenon
<1>3. RowTypes' /\ ProcessTypes' /\ RestTypes'
  BY <1>1, <1>2, Zenon DEF RowTypes, ProcessTypes, RestTypes
<1>4. plan[t] = "none"
  BY <1>1, <1>2, Zenon DEF PlanInv
<1>5. t \notin resumed => /\ entry'[t] \in {"queued", "reserved", "running"}
                          /\ Roomy(ConvOf[t]) => SlotInv(t)'
  BY <1>1, <1>2, Zenon DEF EntryInv, SlotsInv, SlotInv, Holds
<1> QED
  BY <1>1, <1>2, <1>3, <1>4, <1>5, OwnStepKept, Zenon

LEMMA DispatchKeeps ==
    ASSUME SchedulerAssumption, IInv, NEW t \in Tasks, Dispatch(t)
    PROVE  Kept
<1> DEFINE c == ConvOf[t]
<1>1. /\ t \in exec /\ status[t] = "queued" /\ sweep' = Observed(sweep)
      /\ UNCHANGED <<awaits, tails, plan, budget, resumed>>
  BY Zenon DEF Dispatch
<1>2. RowTypes /\ ProcessTypes /\ RestTypes /\ PlanInv /\ EntryInv /\ SlotsInv /\ Watched
  BY <1>1, Parts, Zenon
<1>3. plan[t] = "none"
  BY <1>1, <1>2, Zenon DEF PlanInv
<1>4. CASE slot[c].active \in {None, t}
  <2>1. /\ status' = [status EXCEPT ![t] = "running"] /\ residue' = residue \cup {t}
        /\ UNCHANGED <<entry, slot, exec, flight>>
    BY <1>4, Zenon DEF Dispatch
  <2>2. RowTypes' /\ ProcessTypes' /\ RestTypes'
    BY <1>1, <1>2, <2>1, Zenon DEF RowTypes, ProcessTypes, RestTypes, TaskStatus
  <2>3. status'[t] = "running" /\ \A u \in Tasks \ {t} : entry'[u] = entry[u] /\ status'[u] = status[u]
    BY <1>2, <2>1 DEF RestTypes
  <2>4. t \notin resumed => /\ entry'[t] \in {"queued", "reserved", "running"}
                            /\ Roomy(c) => SlotInv(t)'
    <3>1. t \notin resumed /\ Roomy(c) => Holds(t)
      BY <1>1, <1>2, <1>4, Zenon DEF SlotsInv, SlotInv, Holds
    <3> QED
      BY <1>1, <1>2, <2>1, <2>3, <3>1, Zenon DEF EntryInv, SlotInv, Holds
  <2> QED
    BY <1>1, <1>2, <1>3, <2>1, <2>2, <2>3, <2>4, OwnStepKept, Zenon
<1>5. CASE slot[c].active \notin {None, t}
  <2>1. /\ status' = [status EXCEPT ![t] = "needs_action"] /\ entry' = Closed(entry, t)
        /\ UNCHANGED <<residue, slot, exec, flight>>
    BY <1>5, Zenon DEF Dispatch, OnWaitingForUser
  <2>2. RowTypes' /\ ProcessTypes' /\ RestTypes'
    BY <1>1, <1>2, <2>1, ClosedEntry, Zenon DEF RowTypes, ProcessTypes, RestTypes, TaskStatus
  <2>3. status'[t] = "needs_action" /\ \A u \in Tasks \ {t} : entry'[u] = entry[u] /\ status'[u] = status[u]
    BY <1>2, <2>1, ClosedEntry, Zenon DEF RestTypes
  <2>4. SlotInv(t)'
    BY <2>3, Zenon DEF SlotInv
  <2> QED
    BY <1>1, <1>2, <1>3, <2>1, <2>2, <2>3, <2>4, OwnStepKept, Zenon DEF Live
<1> QED
  BY <1>4, <1>5

LEMMA PauseKeeps ==
    ASSUME SchedulerAssumption, IInv, NEW t \in Tasks, Pause(t)
    PROVE  Kept
<1>1. /\ t \in exec /\ status[t] = "running" /\ status' = [status EXCEPT ![t] = "needs_action"]
      /\ residue' \in {residue, residue \cup {t}} /\ OnWaitingForUser(t, residue')
      /\ sweep' = Observed(sweep) /\ UNCHANGED <<awaits, tails, plan, budget, resumed>>
  BY DEF Pause
<1>2. RowTypes /\ ProcessTypes /\ RestTypes /\ PlanInv /\ EntryInv /\ SlotsInv /\ Watched
  BY <1>1, Parts, Zenon
<1>3. plan[t] = "none"
  BY <1>1, <1>2 DEF PlanInv
<1>4. Moves(t, status') /\ RowTypes' /\ ProcessTypes'
  BY <1>1, <1>2, OnWaitingForUserMoves, Zenon
<1>5. RestTypes'
  BY <1>1, <1>2, Zenon DEF RestTypes, TaskStatus
<1>6. status'[t] = "needs_action" /\ \A u \in Tasks \ {t} : status'[u] = status[u]
  BY <1>1, <1>2, Zenon DEF RestTypes
<1>7. CASE slot[ConvOf[t]].active # t
  <2>1. entry' = Closed(entry, t) /\ UNCHANGED <<slot, exec, flight>>
    BY <1>1, <1>7, Zenon DEF OnWaitingForUser
  <2>2. \A u \in Tasks \ {t} : entry'[u] = entry[u]
    BY <1>2, <2>1, ClosedEntry
  <2>3. SlotInv(t)'
    BY <1>6, Zenon DEF SlotInv
  <2> QED
    BY <1>1, <1>2, <1>3, <1>4, <1>5, <1>6, <2>1, <2>2, <2>3, OwnStepKept, Zenon DEF Live
<1>8. CASE slot[ConvOf[t]].active = t /\ t \in residue'
  <2>1. MarkReleasing(t) /\ UNCHANGED <<entry, exec, flight>>
    BY <1>1, <1>8, Zenon DEF OnWaitingForUser
  <2>2. \A c \in Conversations : slot'[c].active = slot[c].active
    BY <1>2, <2>1, MarkReleasingKeeps, Zenon
  <2>3. SweepInv' /\ sweep' \in SweepType /\ Fresher
    BY <1>2, WatchedKeeps DEF IInv
  <2>4. \A u \in Tasks : /\ status'[u] \in Live => status[u] = status'[u]
                         /\ status[u] = "absent" <=> status'[u] = "absent"
    BY <1>1, <1>6 DEF Live
  <2> QED
    BY <1>1, <1>4, <1>5, <2>1, <2>2, <2>3, <2>4, QuietKept, Zenon
<1>9. CASE t \notin residue'
  <2>1. t \notin residue /\ t # None
    BY <1>1, <1>9 DEF SchedulerAssumption
  <2>2. \A u \in Tasks : /\ status'[u] \in Live => status[u] = status'[u]
                         /\ status[u] = "absent" <=> status'[u] = "absent"
    BY <1>1, <1>6 DEF Live
  <2>3. "absent" \notin Live /\ "needs_action" \notin Live
    BY DEF Live
  <2> QED
    BY ZenonT(60), <1>1, <1>2, <1>4, <1>5, <1>6, <2>1, <2>2, <2>3, MovesKept
<1> QED
  BY <1>7, <1>8, <1>9

LEMMA CompleteKeeps ==
    ASSUME SchedulerAssumption, IInv, NEW t \in Tasks, Complete(t)
    PROVE  Kept
<1>1. /\ status[t] = "running" /\ status' = [status EXCEPT ![t] = "done"]
      /\ residue' = residue \cup {t} /\ MarkReleasing(t) /\ sweep' = Observed(sweep)
      /\ UNCHANGED <<entry, exec, flight, awaits, tails, plan, budget, resumed>>
  BY DEF Complete, process
<1>2. RowTypes /\ ProcessTypes /\ RestTypes /\ SweepInv /\ Watched
  BY <1>1, Parts, Zenon
<1>3. RowTypes' /\ \A c \in Conversations : slot'[c].active = slot[c].active
  BY <1>1, <1>2, MarkReleasingKeeps, Zenon
<1>4. ProcessTypes' /\ RestTypes'
  BY <1>1, <1>2, Zenon DEF ProcessTypes, RestTypes, TaskStatus
<1>5. SweepInv' /\ sweep' \in SweepType /\ Fresher
  BY <1>2, WatchedKeeps
<1>6. \A u \in Tasks : /\ status'[u] \in Live => status[u] = status'[u]
                       /\ status[u] = "absent" <=> status'[u] = "absent"
  BY <1>1, <1>2, Zenon DEF Live, RestTypes
<1> QED
  BY <1>1, <1>3, <1>4, <1>5, <1>6, QuietKept, Zenon

LEMMA FinishRemainingKeeps ==
    ASSUME SchedulerAssumption, IInv, NEW t \in Tasks, FinishRemaining(t)
    PROVE  Kept
<1>1. /\ status[t] = "running" /\ t \notin residue /\ status' = [status EXCEPT ![t] = "done"]
      /\ OnTaskTerminal(t, status', t) /\ sweep' = Observed(sweep)
      /\ UNCHANGED <<residue, plan, budget, resumed>>
  BY Zenon DEF FinishRemaining
<1>2. RowTypes /\ ProcessTypes /\ RestTypes /\ Watched
  BY <1>1, Parts, Zenon
<1>3. Moves(t, status') /\ RowTypes' /\ ProcessTypes'
  BY <1>1, <1>2, OnTaskTerminalMoves, Zenon
<1>4. RestTypes'
  BY <1>1, <1>2, Zenon DEF RestTypes, TaskStatus
<1>5. status'[t] \notin Live /\ \A u \in Tasks :
         /\ status'[u] \in Live => status[u] = status'[u] /\ status'[u] # "absent"
         /\ status[u] = "absent" <=> status'[u] = "absent"
  BY <1>1, <1>2, Zenon DEF Live, RestTypes
<1> QED
  BY <1>1, <1>2, <1>3, <1>4, <1>5, MovesKept, Zenon

LEMMA ResidueClearsKeeps ==
    ASSUME SchedulerAssumption, IInv, NEW t \in Tasks, ResidueClears(t)
    PROVE  Kept
<1>1. /\ residue' = residue \ {t}
      /\ UNCHANGED <<status, entry, slot, exec, flight, awaits, tails, plan, sweep, budget, resumed>>
  BY Zenon DEF ResidueClears, process
<1>2. RowTypes /\ ProcessTypes /\ RestTypes /\ SweepInv /\ Watched
  BY <1>1, Parts, Zenon
<1>3. RowTypes' /\ ProcessTypes' /\ RestTypes'
  BY <1>1, <1>2, Zenon DEF RowTypes, ProcessTypes, RestTypes
<1>4. SweepInv' /\ sweep' \in SweepType /\ Fresher
  BY <1>2, WatchedKeeps
<1> QED
  BY <1>1, <1>3, <1>4, QuietKept, Zenon

(* The ends of executions, the callbacks and the user *)

LEMMA SettleKeeps ==
    ASSUME SchedulerAssumption, IInv, NEW t \in Tasks, Settle(t)
    PROVE  Kept
<1>1. /\ ReleaseAdmission(t) /\ Settled(t)
      /\ UNCHANGED <<status, residue, tails, plan, budget, resumed>>
  BY DEF Settle
<1>2. RowTypes /\ ProcessTypes /\ RestTypes /\ SweepInv /\ sweep \in SweepType
  BY Parts, Zenon
<1>3. ProcessTypes' /\ Watched /\ exec' = exec \ {t}
  BY <1>1, <1>2, SettledTypes, Zenon
<1>4. /\ RowTypes'
      /\ \/ Moves(t, status) /\ status[t] \in {"needs_action", "done", "cancelled"} /\ t \notin residue
         \/ UNCHANGED <<slot, entry>>
  BY <1>1, <1>2, <1>3, ReleaseAdmissionMoves, Zenon
<1>5. RestTypes' /\ "absent" \notin Live
  BY <1>1, <1>2, Zenon DEF RestTypes, Live
<1>6. CASE Moves(t, status) /\ status[t] \in {"needs_action", "done", "cancelled"} /\ t \notin residue
  <2>1. status[t] \notin Live
    BY <1>6, Zenon DEF Live
  <2> QED
    BY <1>1, <1>3, <1>4, <1>5, <1>6, <2>1, MovesKept, Zenon
<1>7. CASE UNCHANGED <<slot, entry>>
  <2>1. SweepInv' /\ sweep' \in SweepType /\ Fresher
    BY <1>2, <1>3, WatchedKeeps
  <2> QED
    BY <1>1, <1>3, <1>4, <1>5, <1>7, <2>1, QuietKept, Zenon
<1> QED
  BY <1>4, <1>6, <1>7, Zenon

LEMMA DrainCancellationKeeps ==
    ASSUME SchedulerAssumption, IInv, NEW t \in Tasks, DrainCancellation(t)
    PROVE  Kept
<1>1. /\ ReleaseAdmission(t) /\ sweep' = Observed(sweep)
      /\ UNCHANGED <<status, residue, exec, flight, awaits, tails, plan, budget, resumed>>
  BY Zenon DEF DrainCancellation, process
<1>2. RowTypes /\ ProcessTypes /\ RestTypes /\ SweepInv /\ Watched
  BY <1>1, Parts, Zenon
<1>3. /\ RowTypes'
      /\ \/ Moves(t, status) /\ status[t] \in {"needs_action", "done", "cancelled"} /\ t \notin residue
         \/ UNCHANGED <<slot, entry>>
  BY <1>1, <1>2, ReleaseAdmissionMoves, Zenon
<1>4. ProcessTypes' /\ RestTypes' /\ "absent" \notin Live
  BY <1>1, <1>2, Zenon DEF ProcessTypes, RestTypes, Live
<1>5. CASE Moves(t, status) /\ status[t] \in {"needs_action", "done", "cancelled"} /\ t \notin residue
  <2>1. status[t] \notin Live
    BY <1>5 DEF Live
  <2> QED
    BY <1>1, <1>2, <1>3, <1>4, <1>5, <2>1, MovesKept, Zenon
<1>6. CASE UNCHANGED <<slot, entry>>
  <2>1. SweepInv' /\ sweep' \in SweepType /\ Fresher
    BY <1>2, WatchedKeeps
  <2> QED
    BY <1>1, <1>3, <1>4, <1>6, <2>1, QuietKept, Zenon
<1> QED
  BY <1>3, <1>5, <1>6

LEMMA SettleRemainingKeeps ==
    ASSUME SchedulerAssumption, IInv, NEW t \in Tasks, SettleRemaining(t)
    PROVE  Kept
<1>1. Settled(t) /\ UNCHANGED <<status, entry, slot, residue, tails, plan, budget, resumed>>
  BY Zenon DEF SettleRemaining, rows
<1>2. RowTypes /\ ProcessTypes /\ RestTypes /\ SweepInv /\ sweep \in SweepType
  BY Parts, Zenon
<1>3. ProcessTypes' /\ Watched /\ exec' = exec \ {t}
  BY <1>1, <1>2, SettledTypes, Zenon
<1>4. RowTypes' /\ RestTypes'
  BY <1>1, <1>2, Zenon DEF RowTypes, RestTypes
<1>5. SweepInv' /\ sweep' \in SweepType /\ Fresher
  BY <1>2, <1>3, WatchedKeeps
<1> QED
  BY <1>1, <1>3, <1>4, <1>5, QuietKept, Zenon

LEMMA PromotedFailsKeeps ==
    ASSUME SchedulerAssumption, IInv, NEW t \in Tasks, PromotedFails(t)
    PROVE  Kept
<1> DEFINE c == ConvOf[t]
<1>1. /\ slot' = IF slot[c].active = t THEN [slot EXCEPT ![c].state = "recovery_blocked"] ELSE slot
      /\ Settled(t) /\ budget.failures < MaxFailures /\ budget' = [budget EXCEPT !.failures = @ + 1]
      /\ UNCHANGED <<status, entry, residue, tails, plan, resumed>>
  BY Zenon DEF PromotedFails, Spend
<1>2. RowTypes /\ ProcessTypes /\ RestTypes /\ SweepInv /\ sweep \in SweepType
  BY Parts, Zenon
<1>3. ProcessTypes' /\ Watched /\ exec' = exec \ {t}
  BY <1>1, <1>2, SettledTypes
<1>4. c \in Conversations /\ t # None
  BY DEF SchedulerAssumption
<1>5. RowTypes' /\ \A d \in Conversations : slot'[d].active = slot[d].active
  BY <1>1, <1>2, <1>4 DEF RowTypes, SlotState
<1>6. RestTypes'
  BY <1>1, <1>2 DEF RestTypes, SchedulerAssumption
<1>7. SweepInv' /\ sweep' \in SweepType /\ Fresher
  BY <1>2, <1>3, WatchedKeeps
<1> QED
  BY <1>1, <1>3, <1>5, <1>6, <1>7, QuietKept

LEMMA CancelKeeps ==
    ASSUME SchedulerAssumption, IInv, NEW t \in Tasks, Cancel(t)
    PROVE  Kept
<1>1. /\ status[t] \in {"queued", "running", "needs_action"}
      /\ status' = [status EXCEPT ![t] = "cancelled"]
      /\ UNCHANGED <<entry, slot, residue, exec, flight, awaits, tails, plan, sweep, budget, resumed>>
  BY Zenon DEF Cancel, process
<1>2. RowTypes /\ ProcessTypes /\ RestTypes /\ SweepInv /\ Watched
  BY <1>1, Parts, Zenon
<1>3. RowTypes' /\ ProcessTypes' /\ RestTypes'
  BY <1>1, <1>2, Zenon DEF RowTypes, ProcessTypes, RestTypes, TaskStatus
<1>4. SweepInv' /\ sweep' \in SweepType /\ Fresher
  BY <1>2, WatchedKeeps
<1>5. \A u \in Tasks : /\ status'[u] \in Live => status[u] = status'[u]
                       /\ status[u] = "absent" <=> status'[u] = "absent"
  BY <1>1, <1>2, Zenon DEF Live, RestTypes
<1> QED
  BY <1>1, <1>3, <1>4, <1>5, QuietKept, Zenon

LEMMA NotifyTerminalKeeps ==
    ASSUME SchedulerAssumption, IInv, NEW t \in Tasks, NotifyTerminal(t)
    PROVE  Kept
<1>1. /\ status[t] \in {"done", "cancelled"} /\ sweep' = Observed(sweep)
      /\ UNCHANGED <<status, residue, plan, budget, resumed>>
  BY Zenon DEF NotifyTerminal, Terminal
<1>2. RowTypes /\ ProcessTypes /\ RestTypes /\ SweepInv /\ Watched
  BY <1>1, Parts, Zenon
<1>3. RestTypes' /\ "absent" \notin Live /\ status[t] \notin Live
  BY <1>1, <1>2, Zenon DEF RestTypes, Live
<1>4. CASE t \in residue
  <2>1. MarkReleasing(t) /\ UNCHANGED <<entry, exec, flight, awaits, tails>>
    BY <1>4, Zenon DEF NotifyTerminal, process
  <2>2. RowTypes' /\ \A c \in Conversations : slot'[c].active = slot[c].active
    BY <1>2, <2>1, MarkReleasingKeeps, Zenon
  <2>3. SweepInv' /\ sweep' \in SweepType /\ Fresher
    BY <1>2, WatchedKeeps
  <2>4. ProcessTypes'
    BY <1>2, <2>1, Zenon DEF ProcessTypes
  <2> QED
    BY <1>1, <1>3, <2>1, <2>2, <2>3, <2>4, QuietKept, Zenon
<1>5. CASE t \notin residue
  <2>1. OnTaskTerminal(t, status, None)
    BY <1>5, Zenon DEF NotifyTerminal
  <2>2. Moves(t, status) /\ RowTypes' /\ ProcessTypes'
    BY <1>2, <2>1, OnTaskTerminalMoves, Zenon
  <2> QED
    BY <1>1, <1>2, <1>3, <1>5, <2>2, MovesKept, Zenon
<1> QED
  BY <1>4, <1>5

LEMMA PromoteAvailableKeeps ==
    ASSUME SchedulerAssumption, IInv, NEW by \in Tasks \cup {None}, PromoteAvailable(slot, status, by),
           Watched, tails' \subseteq tails, UNCHANGED <<status, residue, plan, budget, resumed>>
    PROVE  Kept
<1>1. RowTypes /\ ProcessTypes /\ RestTypes
  BY Parts, Zenon
<1>2. /\ Moves(None, status) /\ RowTypes'
      /\ exec' \subseteq Tasks /\ flight' \in [Conversations -> Tasks \cup {None}]
      /\ awaits' \in [Tasks -> SUBSET Conversations]
  BY <1>1, PromoteAvailableMoves, Zenon DEF SchedulerAssumption
<1>3. ProcessTypes' /\ RestTypes' /\ "absent" \notin Live
  BY <1>1, <1>2, Zenon DEF ProcessTypes, RestTypes, Live
<1>4. \A t \in Tasks : /\ status'[t] \in Live => status[t] = status'[t]
                       /\ status[t] = "absent" <=> status'[t] = "absent"
                       /\ status[t] \in Live => status'[t] # "absent"
  BY <1>3, Zenon
<1>5. None \in Tasks \cup {None}
  BY Zenon
<1> QED
  BY <1>2, <1>3, <1>4, <1>5, MovesKept, ZenonT(30)

LEMMA OnTaskQueuedKeeps ==
    ASSUME SchedulerAssumption, IInv, NEW t \in Tasks, OnTaskQueued(t)
    PROVE  Kept
<1>1. PromoteAvailable(slot, status, None)
  BY Zenon DEF OnTaskQueued, PromoteAvailable
<1>2. sweep' = Observed(sweep) /\ UNCHANGED <<status, residue, tails, plan, budget, resumed>>
  BY Zenon DEF OnTaskQueued
<1>3. Watched
  BY <1>2, Parts, Zenon
<1> QED
  BY <1>1, <1>2, <1>3, PromoteAvailableKeeps, Zenon

LEMMA FinishTerminalKeeps ==
    ASSUME SchedulerAssumption, IInv, NEW k \in tails, FinishTerminal(k)
    PROVE  Kept
<1>1. /\ PromoteAvailable(slot, status, k.by) /\ tails' = tails \ {k} /\ sweep' = Observed(sweep)
      /\ UNCHANGED <<status, residue, plan, budget, resumed>>
  BY Zenon DEF FinishTerminal
<1>2. ProcessTypes /\ Watched
  BY <1>1, Parts, Zenon
<1>3. k.by \in Tasks \cup {None}
  BY <1>2 DEF ProcessTypes
<1> QED
  BY <1>1, <1>2, <1>3, PromoteAvailableKeeps, Zenon

----------------------------------------------------------------------------
(* The sweep and the process *)

LEMMA SweepPromoteKeeps ==
    ASSUME SchedulerAssumption, IInv, SweepPromote
    PROVE  Kept
<1>1. PICK P \in Promotions(entry, slot, status) :
         /\ PromoteAndStart(entry, slot, P)
         /\ sweep' = [sweep EXCEPT !.phase = "promoted", !.awaits = {ConvOf[u] : u \in P}]
  BY Zenon DEF SweepPromote
<1> DEFINE A == {ConvOf[u] : u \in P}
<1>2. /\ sweep.left = {} /\ UNCHANGED <<status, residue, awaits, tails, plan, budget, resumed>>
  BY DEF SweepPromote
<1>3. PromoteAvailable(slot, status, None)
  BY <1>1, <1>2 DEF PromoteAvailable
<1>4. A \subseteq Conversations
  BY AvailablePicks DEF Promotable, SchedulerAssumption
<1>5. sweep' = [sweep EXCEPT !.phase = "promoted", !.awaits = A]
  BY <1>1
<1>6. sweep \in SweepType /\ SweepInv
  BY Parts, Zenon
<1> HIDE DEF A
<1>7. Watched
  BY <1>2, <1>4, <1>5, <1>6, Zenon DEF Watched, SweepType, SweepInv
<1> QED
  BY <1>2, <1>3, <1>7, PromoteAvailableKeeps, Zenon

LEMMA IdleFits ==
    ASSUME sweep' = Idle
    PROVE  SweepInv' /\ sweep' \in SweepType /\ Fresher
BY Zenon DEF Idle, SweepInv, SweepType, Fresher

LEMMA SweepEndKeeps ==
    ASSUME SchedulerAssumption, IInv, SweepEnd
    PROVE  Kept
<1>1. /\ sweep' = Idle
      /\ UNCHANGED <<status, entry, slot, residue, exec, flight, awaits, tails, plan, budget, resumed>>
  BY Zenon DEF SweepEnd, rows, process
<1>2. RowTypes /\ ProcessTypes /\ RestTypes
  BY Parts, Zenon
<1>3. RowTypes' /\ ProcessTypes' /\ RestTypes'
  BY <1>1, <1>2, Zenon DEF RowTypes, ProcessTypes, RestTypes
<1> QED
  BY <1>1, <1>3, IdleFits, QuietKept, Zenon

LEMMA RestartKeeps ==
    ASSUME SchedulerAssumption, IInv, Restart
    PROVE  Kept
<1>1. /\ sweep' = Idle /\ exec' = {} /\ flight' = [c \in Conversations |-> None]
      /\ awaits' = [t \in Tasks |-> {}] /\ tails' = {}
      /\ budget.crashes < MaxCrashes /\ budget' = [budget EXCEPT !.crashes = @ + 1]
      /\ UNCHANGED <<status, entry, slot, residue, plan, resumed>>
  BY Zenon DEF Restart, rows, Spend
<1>2. RowTypes /\ ProcessTypes /\ RestTypes
  BY Parts, Zenon
<1>3. RowTypes' /\ ProcessTypes' /\ RestTypes'
  <2>1. RowTypes' /\ ProcessTypes'
    BY <1>1, <1>2, Zenon DEF RowTypes, ProcessTypes
  <2>2. budget' \in [again : 0..MaxAgain, failures : 0..MaxFailures, crashes : 0..MaxCrashes]
    BY <1>1, <1>2 DEF RestTypes, SchedulerAssumption
  <2> QED
    BY <1>1, <1>2, <2>1, <2>2, Zenon DEF RestTypes
<1> QED
  BY <1>1, <1>3, IdleFits, QuietKept

LEMMA SweepStartKeeps ==
    ASSUME SchedulerAssumption, IInv, SweepStart
    PROVE  Kept
<1> DEFINE held == {c \in Conversations : slot[c].active # None}
<1>1. /\ entry' = [t \in Tasks |-> IF status[t] = "queued" /\ entry[t] \in {"running", "reserved"}
                                   THEN "queued" ELSE entry[t]]
      /\ sweep' = [Idle EXCEPT !.phase = "slots", !.left = held, !.fresh = held,
                               !.seen = [c \in Conversations |-> slot[c].active]]
      /\ UNCHANGED <<status, slot, residue, exec, flight, awaits, tails, plan, budget, resumed>>
  BY DEF SweepStart, process
<1>2. RowTypes /\ ProcessTypes /\ RestTypes /\ PlanInv /\ EntryInv /\ SlotsInv
  BY Parts, Zenon
<1>3. RowTypes' /\ ProcessTypes' /\ RestTypes'
  BY <1>1, <1>2 DEF RowTypes, ProcessTypes, RestTypes, EntryState
<1>4. SweepInv' /\ sweep' \in SweepType
  <2>1. /\ sweep'.left = held /\ sweep'.fresh = held
        /\ \A c \in held : sweep'.seen[c] = slot[c].active
        /\ sweep' = [phase |-> "slots", left |-> held, seen |-> [c \in Conversations |-> slot[c].active],
                     fresh |-> held, awaits |-> {}]
    BY <1>1, Zenon DEF Idle
  <2>2. [c \in Conversations |-> slot[c].active] \in [Conversations -> Tasks \cup {None}]
    BY <1>2 DEF RowTypes
  <2>3. sweep' \in SweepType
    BY <2>1, <2>2, ZenonT(30) DEF SweepType
  <2>4. \A c \in held : slot[c].active \in Tasks /\ ConvOf[slot[c].active] = c
    BY <1>2, <2>2 DEF RowTypes
  <2> QED
    BY <2>1, <2>3, <2>4, ZenonT(30) DEF SweepInv
<1>5. TypeOK'
  BY <1>3, <1>4, TypePartsNext, Zenon
<1>6. PlanInv'
  BY <1>1, <1>2 DEF PlanInv
<1>7. SlotStep
  BY <1>1 DEF SlotStep
<1>8. EntryInv'
  BY <1>1, <1>2 DEF EntryInv
<1>9. SlotsInv'
  <2> SUFFICES ASSUME NEW t \in Tasks \ resumed, Roomy(ConvOf[t]) PROVE SlotInv(t)'
    BY <1>1 DEF SlotsInv, Roomy
  <2>1. SlotInv(t)
    BY <1>2, Zenon DEF SlotsInv
  <2>2. status[t] = "queued" => entry'[t] = "queued"
    BY <1>1, <1>2 DEF EntryInv
  <2> QED
    BY <1>1, <2>1, <2>2 DEF SlotInv, Holds
<1> QED
  BY <1>4, <1>5, <1>6, <1>7, <1>8, <1>9, Zenon DEF Kept

LEMMA VisitedFits ==
    ASSUME sweep \in SweepType, SweepInv, NEW c \in Conversations, NEW A \in SUBSET Conversations,
           sweep' \in {Visited(c), [Visited(c) EXCEPT !.awaits = A]}
    PROVE  /\ SweepInv' /\ sweep' \in SweepType
           /\ sweep'.fresh = sweep.fresh \ {c}
<1>1. PICK B \in SUBSET Conversations :
         sweep' = [phase |-> sweep.phase, left |-> sweep.left \ {c},
                   seen |-> [sweep.seen EXCEPT ![c] = None], fresh |-> sweep.fresh \ {c}, awaits |-> B]
  BY Zenon DEF Visited, SweepType
<1>2. [sweep.seen EXCEPT ![c] = None] \in [Conversations -> Tasks \cup {None}]
  BY DEF SweepType
<1>3. sweep' \in SweepType
  BY <1>1, <1>2 DEF SweepType
<1>4. sweep'.fresh = sweep.fresh \ {c} /\ sweep'.left = sweep.left \ {c}
  BY <1>1
<1>5. \A d \in sweep'.left : sweep'.seen[d] = sweep.seen[d]
  BY <1>1, <1>4 DEF SweepType
<1> QED
  BY <1>3, <1>4, <1>5 DEF SweepInv

\* The slot the sweep gives away may belong to a Task that is queued and even
\* launched again; its entry is then queued, because the sweep itself reopened it.
LEMMA SweepVisitKeeps ==
    ASSUME SchedulerAssumption, IInv, NEW c \in Conversations, SweepVisit(c)
    PROVE  Kept
<1> DEFINE t == sweep.seen[c]
<1>1. c \in sweep.left /\ UNCHANGED <<status, residue, awaits, tails, plan, budget, resumed>>
  BY DEF SweepVisit
<1>2. /\ RowTypes /\ ProcessTypes /\ RestTypes /\ sweep \in SweepType
      /\ SweepInv /\ PlanInv /\ EntryInv /\ SlotsInv
  BY Parts, Zenon
<1>3. t \in Tasks /\ ConvOf[t] = c
  BY <1>1, <1>2, Zenon DEF SweepInv
<1>4. RestTypes'
  BY <1>1, <1>2, Zenon DEF RestTypes
<1>5. CASE sweep' = Visited(c) /\ UNCHANGED <<entry, slot, exec, flight>>
  <2>1. SweepInv' /\ sweep' \in SweepType /\ sweep'.fresh = sweep.fresh \ {c}
    BY <1>2, <1>5, VisitedFits
  <2>2. Fresher
    BY <1>5, <2>1, Zenon DEF Fresher
  <2>3. RowTypes' /\ ProcessTypes'
    BY <1>1, <1>2, <1>5, Zenon DEF RowTypes, ProcessTypes
  <2> QED
    BY <1>1, <1>4, <1>5, <2>1, <2>2, <2>3, QuietKept, Zenon
<1>6. CASE MarkReleasing(t) /\ sweep' = Visited(c) /\ UNCHANGED <<entry, exec, flight>>
  <2>1. SweepInv' /\ sweep' \in SweepType /\ sweep'.fresh = sweep.fresh \ {c}
    BY <1>2, <1>6, VisitedFits
  <2>2. RowTypes' /\ \A d \in Conversations : slot'[d].active = slot[d].active
    BY <1>2, <1>3, <1>6, MarkReleasingKeeps, Zenon
  <2>3. Fresher
    BY <1>2, <2>1, <2>2, Zenon DEF Fresher, SweepType
  <2>4. ProcessTypes'
    BY <1>1, <1>2, <1>6, Zenon DEF ProcessTypes
  <2> QED
    BY <1>1, <1>4, <1>6, <2>1, <2>2, <2>3, <2>4, QuietKept, Zenon
<1>7. ASSUME NEW P \in Successors(t, entry, status, TRUE), PromoteAndStart(entry, Released(t), P),
             sweep' = [Visited(c) EXCEPT !.awaits = {ConvOf[u] : u \in P}],
             status[t] # "running", t \notin residue, c \in sweep.fresh
      PROVE  Kept
  <2> DEFINE S == Startable(P)
  <2>1. Reserve(entry, Released(t), P, S) /\ Start(S) /\ S \in SUBSET P
    BY <1>7 DEF PromoteAndStart, Startable
  <2>2. entry \in [Tasks -> EntryState]
    BY <1>2, Zenon DEF RowTypes
  <2>3. Shift(t, P, S, status) /\ RowTypes' /\ P \subseteq Tasks /\ \A u \in P : ConvOf[u] = c
    <3> HIDE DEF t, S
    <3> QED
      BY <1>2, <1>3, <1>7, <2>1, <2>2, SuccessorsShift, Zenon
  <2>4. /\ exec' = exec \cup S /\ exec' \subseteq Tasks
        /\ flight' \in [Conversations -> Tasks \cup {None}]
    BY <1>2, <2>1, <2>3, StartTypes, Zenon
  <2>5. ProcessTypes'
    BY <1>1, <1>2, <2>4, Zenon DEF ProcessTypes
  <2>6. {ConvOf[u] : u \in P} \in SUBSET Conversations
    BY <2>3, Zenon
  <2>7. SweepInv' /\ sweep' \in SweepType /\ sweep'.fresh = sweep.fresh \ {c}
    BY <1>2, <1>7, <2>6, VisitedFits, Zenon
  <2>8. SlotStep
    <3>1. t = None \/ (status'[t] # "running" /\ t \notin residue)
      BY <1>1, <1>7
    <3> QED
      BY <2>3, <3>1, ShiftTakesOnlyFrom, Zenon
  <2>9. \A d \in Conversations \ {c} : slot'[d].active = slot[d].active
    <3> HIDE DEF t, S
    <3>1. ConvOf[t] = c
      BY <1>3, Zenon
    <3> QED
      BY <2>3, <3>1, ShiftElsewhere
  <2>10. SlotsInv' /\ EntryInv'
    <3>1. t \in P \/ entry'[t] = entry[t]
      BY <1>3, <2>1, Zenon DEF Reserve
    <3>2. t \in exec \ resumed /\ status'[t] = "queued" /\ Holds(t) /\ Roomy(ConvOf[t])
            => entry[t] = "queued"
      BY <1>1, <1>2, <1>3, <1>7 DEF SlotsInv, SlotInv
    <3>3. \A d \in sweep.fresh' : /\ d \in sweep.fresh /\ slot'[d].active = slot[d].active
                                  /\ t \in P => d # ConvOf[t]
      BY <1>2, <1>3, <2>7, <2>9, Zenon DEF SweepType
    <3>4. exec' \subseteq exec \cup S /\ resumed' = resumed /\ status' = status /\ t \in Tasks \cup {None}
      BY <1>1, <1>3, <2>4, Zenon
    <3> HIDE DEF t, S
    <3> QED
      BY <1>2, <2>3, <2>8, <3>1, <3>2, <3>3, <3>4, ShiftKeeps, Zenon
  <2>11. PlanInv'
    <3>1. \A u \in P : status[u] # "absent"
      BY <2>3, Zenon DEF Shift, Live
    <3>2. exec \subseteq Tasks /\ \A u \in exec' : u \in exec \/ status'[u] # "absent"
      BY <1>1, <1>2, <2>1, <2>4, <3>1, Zenon DEF ProcessTypes
    <3> QED
      BY <1>1, <1>2, <3>2, PlanKeeps, Zenon
  <2>12. TypeOK'
    BY <1>4, <2>3, <2>5, <2>7, TypePartsNext, Zenon
  <2> QED
    BY <2>7, <2>8, <2>10, <2>11, <2>12, Zenon DEF Kept
<1> QED
  BY <1>5, <1>6, <1>7, Zenon DEF SweepVisit

----------------------------------------------------------------------------
(* The theorems *)

\* Every step keeps the inductive invariant and takes no slot from live work.
LEMMA StepKeeps ==
    ASSUME SchedulerAssumption, IInv, [Next]_vars
    PROVE  IInv' /\ (SlotStep \/ UNCHANGED vars)
<1>1. CASE UNCHANGED vars
  <2>1. /\ TypeOK' /\ SweepInv' /\ PlanInv' /\ EntryInv'
    BY <1>1, Zenon DEF IInv, TypeOK, SweepInv, PlanInv, EntryInv, vars
  <2>2. SlotsInv'
    BY <1>1, Zenon DEF IInv, SlotsInv, SlotInv, Holds, Roomy, vars
  <2> QED
    BY <1>1, <2>1, <2>2, Zenon DEF IInv
<1>2. CASE Next
  <2>1. ASSUME NEW t \in Tasks, Decide(t) \/ Admit(t) \/ RetryRemaining(t) \/ ExecStep(t)
                 \/ Pause(t) \/ Yield(t) \/ ResidueClears(t) \/ PromotedFails(t) \/ RecoverTask(t)
        PROVE  Kept
    BY <2>1, DecideKeeps, AdmitKeeps, RetryRemainingKeeps, DispatchKeeps, CompleteKeeps, Zenon,
       StartRemainingKeeps, FinishRemainingKeeps, SettleKeeps, SettleRemainingKeeps, PauseKeeps,
       YieldKeeps, ResidueClearsKeeps, PromotedFailsKeeps, RecoverTaskKeeps DEF ExecStep
  <2>2. ASSUME NEW t \in Tasks, Resume(t) \/ AcceptResult(t) \/ OnTaskQueued(t) \/ Cancel(t)
                 \/ DrainCancellation(t) \/ NotifyTerminal(t)
        PROVE  Kept
    BY <2>2, ResumeKeeps, AcceptResultKeeps, OnTaskQueuedKeeps, CancelKeeps, Zenon,
       DrainCancellationKeeps, NotifyTerminalKeeps
  <2>3. ASSUME NEW k \in tails, FinishTerminal(k) PROVE Kept
    BY <2>3, FinishTerminalKeeps, Zenon
  <2>4. ASSUME NEW c \in Conversations, SweepVisit(c) PROVE Kept
    BY <2>4, SweepVisitKeeps, Zenon
  <2>5. ASSUME SweepStart \/ SweepPromote \/ SweepEnd \/ Restart PROVE Kept
    BY <2>5, SweepStartKeeps, SweepPromoteKeeps, SweepEndKeeps, RestartKeeps, Zenon
  <2>6. \/ \E t \in Tasks :
              \/ Decide(t) \/ Admit(t) \/ RetryRemaining(t) \/ ExecStep(t)
              \/ Pause(t) \/ Yield(t) \/ ResidueClears(t) \/ PromotedFails(t) \/ RecoverTask(t)
        \/ \E t \in Tasks :
              \/ Resume(t) \/ AcceptResult(t) \/ OnTaskQueued(t) \/ Cancel(t)
              \/ DrainCancellation(t) \/ NotifyTerminal(t)
        \/ \E k \in tails : FinishTerminal(k)
        \/ \E c \in Conversations : SweepVisit(c)
        \/ SweepStart \/ SweepPromote \/ SweepEnd \/ Restart
    BY <1>2, Zenon DEF Next, SweepStep
  <2>7. Kept
    BY <2>1, <2>2, <2>3, <2>4, <2>5, <2>6, Zenon
  <2> QED
    BY <2>7 DEF Kept, IInv
<1> QED
  BY <1>1, <1>2

LEMMA InitKeeps ==
    ASSUME SchedulerAssumption, Init
    PROVE  IInv
<1>1. sweep = [phase |-> "idle", left |-> {}, seen |-> [c \in Conversations |-> None],
               fresh |-> {}, awaits |-> {}]
  BY Zenon DEF Init, Idle
<1>2. sweep \in SweepType /\ SweepInv
  BY <1>1, Zenon DEF SweepType, SweepInv
<1>3. RowTypes /\ ProcessTypes /\ RestTypes
  <2>1. RowTypes
    BY DEF Init, RowTypes, Free, SlotState, EntryState
  <2>2. ProcessTypes
    BY Zenon DEF Init, ProcessTypes
  <2>3. RestTypes
    BY DEF Init, RestTypes, TaskStatus, Plans, SchedulerAssumption
  <2> QED
    BY <2>1, <2>2, <2>3, Zenon
<1>4. PlanInv /\ EntryInv /\ SlotsInv
  BY Zenon DEF Init, PlanInv, EntryInv, SlotsInv, SlotInv
<1> QED
  BY <1>2, <1>3, <1>4, TypeParts DEF IInv

LEMMA Invariance == Spec => []IInv
<1>1. Init => IInv
  BY InitKeeps, SchedulerAssumption, Zenon
<1>2. IInv /\ [Next]_vars => IInv'
  BY StepKeeps, SchedulerAssumption, Zenon
<1> QED
  BY <1>1, <1>2, PTL DEF Spec

\* Rows and process state stay well typed, a slot is free exactly when no Task
\* holds it, and a slot is only ever held by a Task of its own Conversation.
THEOREM TypeCorrect == Spec => []TypeOK
<1>1. IInv => TypeOK
  BY DEF IInv
<1> QED
  BY <1>1, Invariance, PTL

\* No release path (terminal and pause callbacks, coordinator, sweep) takes a
\* slot from a Task that runs or still has residue.
THEOREM SlotNotTakenHolds == Spec => SlotNotTaken
<1>1. IInv /\ [Next]_vars => [SlotStep]_vars
  BY StepKeeps, SchedulerAssumption, Zenon
<1> QED
  BY <1>1, Invariance, PTL DEF Spec, SlotNotTaken

\* However many slots one callback or sweep hands out, and however
\* compareCandidates orders the Tasks, only a first admission pushes a Workspace
\* over its limit.
THEOREM WorkspaceBudgetHolds == Spec => WorkspaceBudget
<1>1. IInv /\ [Next]_vars => [BudgetStep]_vars
  BY StepFits, SchedulerAssumption, Zenon DEF IInv
<1> QED
  BY <1>1, Invariance, PTL DEF Spec, WorkspaceBudget

\* In a Workspace with a place for each of its Conversations, two Tasks of a
\* Conversation never run at once unless one of them was resumed.
THEOREM OneRunningHolds == Spec => []OneRunningUnlessResumed
<1>1. IInv => OneRunningUnlessResumed
  BY Zenon DEF IInv, SlotsInv, SlotInv, Holds, OneRunningUnlessResumed
<1> QED
  BY <1>1, Invariance, PTL
=============================================================================
