-------------------------- MODULE MCAttemptLifecycle --------------------------
(***************************************************************************)
(* Instances of AttemptLifecycle: one Subtask, with an Attempt and its     *)
(* successor.                                                              *)
(***************************************************************************)
EXTENDS AttemptLifecycle

Both == {{}, Subtasks}

Uncertified == \E a \in Attempts : receipt[a] = "uncertified"
Repairing == \/ \E a \in Attempts : plan[a].kind = "repair"
             \/ \E e \in inbox : e.type = "repair"

\* The Attempts write, and there may be a crash; or they read, without.  A result
\* that is not certified is one of a host process, with a crash once the User has
\* answered; a service repair is one of a container.
OneScenario ==
    /\ readers # {} => crashes = 0 /\ backend = "native" /\ ~ Uncertified
    /\ Uncertified => /\ backend = "native"
                      /\ crashes = 0 \/ \E a \in Attempts : answer[a] # "none"
    /\ Repairing => backend = "docker"
=============================================================================
