-------------------- MODULE MCConversationTaskScheduler --------------------
(***************************************************************************)
(* Instances of ConversationTaskScheduler for TLC.                         *)
(***************************************************************************)
EXTENDS ConversationTaskScheduler, TLC

CONSTANTS t1, t2, r2, u1, u2, c1, c2, c3, w1, w2

\* t1, t2 and the remaining-work retry r2 share a Conversation; u1 and u2 have
\* one each.
ConvMap == [t \in Tasks |-> IF t = u1 THEN c2 ELSE IF t = u2 THEN c3 ELSE c1]

\* c1 has a Workspace of its own, c2 and c3 share one.
TwoWorkspaces == [c \in Conversations |-> IF c = c1 THEN w1 ELSE w2]

EqualPriority == [t \in Tasks |-> 0]

Only(scenario) == \A t \in Tasks \ scenario : status[t] = "absent" /\ plan[t] = "none"

\* Two Tasks of a Conversation, or a Task and a retry, with a failure, a crash or a
\* Task that runs again; one Task with a crash that runs again; or a Task in each of
\* two Conversations of a Workspace, one of which runs again.
OneScenario ==
    /\ \/ Only({t1, t2}) \/ Only({t1, r2})
       \/ Only({u1, u2}) /\ budget.crashes = 0 /\ budget.failures = 0
    /\ \/ budget.failures + budget.crashes + budget.again <= 1
       \/ Only({t1}) /\ budget.failures = 0

\* One Task that re-enters scheduling; two Tasks with a crash or a failure; or, with
\* neither, the retry of a Task that is over with another Task behind it, none of which
\* is paused or cancelled.
OnceOrAgain ==
    \/ Only({t1}) /\ budget.failures = 0
    \/ /\ Only({t1, t2})
       /\ budget.again = 0 /\ budget.crashes + budget.failures <= 1
    \/ /\ budget.again + budget.crashes + budget.failures = 0
       /\ status[t1] = "done" /\ t1 \notin exec \cup residue
       /\ \A t \in Tasks : status[t] \notin {"needs_action", "cancelled"}
=============================================================================
