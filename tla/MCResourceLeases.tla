--------------------------- MODULE MCResourceLeases ---------------------------
(***************************************************************************)
(* Instances of ResourceLeases for TLC.                                    *)
(***************************************************************************)
EXTENDS ResourceLeases, TLC

CONSTANTS a1, a2, b1, c1, d1, e1, f1, g1, h1, sA, sB, sC, sD, sE, sF, sG, sH,
          t1, t2, t3, t4, t5, cA, cB, cC, cD, cE, root, root2, root3, grant

Read(p) == [partition |-> p, access |-> "read"]
Write(p) == [partition |-> p, access |-> "write"]
Same == {<<p, p>> : p \in {root, root2, root3, grant}}

\* sA and sB write the root of one Conversation, sA with two Attempts; sC and sD,
\* of two other Conversations, share a grant with sE, which has no Conversation
\* workspace; sF writes the root of a fourth Conversation that sG and sH read.
MCSubtaskOf == (a1 :> sA) @@ (a2 :> sA) @@ (b1 :> sB) @@ (c1 :> sC) @@ (d1 :> sD) @@ (e1 :> sE)
                  @@ (f1 :> sF) @@ (g1 :> sG) @@ (h1 :> sH)
MCTaskOf == (sA :> t1) @@ (sB :> t1) @@ (sC :> t2) @@ (sD :> t3) @@ (sE :> t4)
               @@ [s \in {sF, sG, sH} |-> t5]
MCConvOf == (sA :> cA) @@ (sB :> cA) @@ (sC :> cB) @@ (sD :> cC) @@ (sE :> cD)
               @@ [s \in {sF, sG, sH} |-> cE]
MCAccess == [s \in Subtasks |-> IF s \in {sA, sB, sC, sF} THEN "write" ELSE "read"]
MCClaims == (sA :> {Write(root)}) @@ (sB :> {Write(root)})
               @@ (sC :> {Write(root2), Read(grant)}) @@ (sD :> {Write(grant)})
               @@ (sE :> {Read(grant)})
               @@ (sF :> {Write(root3)}) @@ (sG :> {Read(root3)}) @@ (sH :> {Read(root3)})

\* One of the three groups has work left, and only the first meets a second crash.
MCInit ==
    /\ Init
    /\ {s \in Subtasks : subtask[s] = "ready"} \in {{sA, sB}, {sC, sD, sE}, {sF, sG, sH}}
OneGroup == crashes > 1 => subtask[sC] = "done" /\ subtask[sF] = "done"
\* Fairness for the group without stalls and lost terminals.
MCSpec ==
    /\ MCInit /\ [][Next]_vars
    /\ \A a \in {f1, g1, h1} : RunnerFairness(a)
    /\ \A s \in Steady : WF_vars(Dispatch(s))
    /\ WF_vars(ClearBlock(t5)) /\ WF_vars(Recovered)

\* Two writers of one root.
PairSubtaskOf == (a1 :> sA) @@ (b1 :> sB)
WriteRoot == [s \in Subtasks |-> {Write(root)}]

OneTask == [s \in Subtasks |-> t1]
OneConv == [s \in Subtasks |-> cA]
AllWrite == [s \in Subtasks |-> "write"]
=============================================================================
