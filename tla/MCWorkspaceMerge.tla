-------------------------- MODULE MCWorkspaceMerge --------------------------
(***************************************************************************)
(* Instances of WorkspaceMerge for TLC.                                    *)
(***************************************************************************)
EXTENDS WorkspaceMerge, FiniteSets, TLC

\* The first job changes both files, the second one of them.
MCChanges == (1 :> {1, 2}) @@ (2 :> {1})

\* At most two of: edits of the user, a crash, a failure; with two edits only one job.
Scenario ==
    /\ Cardinality(made) + crashes + faults <= 2 /\ crashes + faults <= 1
    /\ Cardinality(made) = 2 => job[2].state = "none"
=============================================================================
