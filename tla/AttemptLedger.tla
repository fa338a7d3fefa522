----------------------------- MODULE AttemptLedger -----------------------------
(***************************************************************************)
(* What the tables of the Attempt lifecycle promise together, without the  *)
(* Server that writes them: an Attempt is opened once and closed once, one *)
(* Attempt of a Subtask is live at a time, a receipt is stored with the    *)
(* close and never again.  A Subtask becomes done by one Attempt, which is *)
(* credited with it as its receipt is stored, or whose uncertified result  *)
(* the user accepted; it is reopened only under the permit of a repair     *)
(* that is not open yet, and nothing completes a Subtask that is done or   *)
(* was cancelled.                                                          *)
(*                                                                         *)
(* A step may move any number of Attempts at once: a cancellation and a    *)
(* restart do.                                                             *)
(***************************************************************************)
CONSTANTS Subtasks, Attempts

VARIABLES
    phase,      \* how far each Attempt is
    aim,        \* the Subtask each Attempt is for
    receipted,  \* Attempts with a receipt
    credited,   \* Attempts whose completion made their Subtask done
    accepted,   \* Attempts whose uncertified result was accepted and delivered
    permits,    \* Attempts authorized to repair a Subtask, and not opened yet
    done,       \* Subtasks that are done
    fenced      \* Subtasks that were cancelled

ledger == <<phase, aim, receipted, credited, accepted, permits, done, fenced>>

Phases == {"absent", "open", "doubtful", "stopping", "closed"}
Live == {"open", "stopping"}

\* Where an Attempt may go; closed is final.
Moves(p) ==
    CASE p = "absent" -> {"absent", "open", "closed"}
      [] p = "open" -> Phases \ {"absent"}
      [] p = "doubtful" -> {"doubtful", "stopping", "closed"}
      [] p = "stopping" -> {"stopping", "closed"}
      [] p = "closed" -> {"closed"}

OneLive ==
    \A a, b \in Attempts :
        phase[a] \in Live /\ phase[b] \in Live /\ aim[a] = aim[b] => a = b

Init ==
    /\ phase = [a \in Attempts |-> "absent"]
    /\ aim \in [Attempts -> Subtasks]
    /\ receipted = {} /\ credited = {} /\ accepted = {} /\ permits = {}
    /\ done = {} /\ fenced = {}

Advance(a) ==
    /\ phase'[a] \in Moves(phase[a])
    /\ phase[a] # "absent" => aim'[a] = aim[a]
    /\ a \in receipted => a \in receipted'
    /\ a \in receipted' \ receipted => phase[a] # "absent" /\ phase'[a] = "closed"
    /\ a \in credited => a \in credited'
    /\ a \in credited' \ credited =>
          a \in receipted' \ receipted /\ aim[a] \in done' \ done
    /\ a \in accepted => a \in accepted'
    /\ a \in accepted' \ accepted => a \in receipted \ credited /\ aim[a] \in done'
    /\ a \in permits' => phase'[a] = "absent"

Complete(s) ==
    /\ s \in done' \ done =>
          /\ s \notin fenced
          /\ \E a \in (credited' \ credited) \cup (accepted' \ accepted) : aim[a] = s
    /\ s \in done \ done' => \E a \in permits : aim[a] = s

Next ==
    /\ \A a \in Attempts : Advance(a)
    /\ \A s \in Subtasks : Complete(s)
    /\ OneLive'
    /\ fenced \subseteq fenced'
    /\ \A a, b \in credited' \ credited : a = b

Spec == Init /\ [][Next]_ledger
=============================================================================
