---------------------------- MODULE MCRetryWakes ----------------------------
(***************************************************************************)
(* An instance of RetryWakes: the wakes of two Subtasks of the Task, and   *)
(* one whose decision names no session.                                    *)
(***************************************************************************)
EXTENDS RetryWakes

CONSTANTS w1, w2, x, k1, k2

\* The wakes whose decision was taken.
Armed == {w \in Wakes : parent[w] # "none"}

\* Two wakes with the account's worker, or one wake with both workers.
OneScenario ==
    \/ Armed \subseteq {w1} /\ moves = 0
    \/ Cardinality(Armed) <= 2 /\ w1 \in Armed /\ todo[k2] = {} /\ at[k2] = None
=============================================================================
