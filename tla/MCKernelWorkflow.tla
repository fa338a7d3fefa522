-------------------------- MODULE MCKernelWorkflow --------------------------
(***************************************************************************)
(* Instance of KernelWorkflow for TLC.  A behaviour takes one of three     *)
(* scenarios, the events that occur in it, so that every recovery family   *)
(* meets every crash, sign-out and recovery pass without the product of    *)
(* unrelated events.                                                       *)
(***************************************************************************)
EXTENDS KernelWorkflow, TLC

CONSTANTS e1, o1, e2, o2, e3, e4, o4, w1, w2

\* A managed decision that observes a delayed probe, under a root workflow and
\* a nested one that shares its task; a service operation that observes a
\* cancellation; and two decisions of which the first is marked applied by its own
\* handler and retried by the user only, and the second observes a third, one more
\* than a drain handles.
Probe == {e1, o1}
Families == {e2, o2}
Pair == {e3, e4, o4}

MCEvents == Probe \cup Families \cup Pair
MCTakes == (w1 :> MCEvents) @@ (w2 :> {e1})
MCEmits == (e1 :> {o1}) @@ (e2 :> {o2}) @@ (e4 :> {o4})
             @@ [e \in {o1, o2, e3, o4} |-> {None}]
MCKind == (e1 :> "managed") @@ (o1 :> "effect_free") @@ (e2 :> "service")
             @@ (o2 :> "cancellation") @@ (e3 :> "explicit") @@ (e4 :> "reapply")
             @@ (o4 :> "effect_free")

\* The events of one scenario only, and the nested workflow only where it has
\* something to take.
OneScenario ==
    \E scenario \in {Probe, Families, Pair} :
        /\ \A e \in Events \ scenario : inbox[e] = "absent"
        /\ pc[w2] # "idle" => scenario = Probe

\* The two workflows that share a task, by themselves.
ProbeTakes == (w1 :> Probe) @@ (w2 :> {e1})
ProbeEmits == (e1 :> {o1}) @@ (o1 :> {None})
ProbeKind == (e1 :> "managed") @@ (o1 :> "effect_free")
=============================================================================
