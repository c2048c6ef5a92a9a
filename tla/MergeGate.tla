------------------------------ MODULE MergeGate ------------------------------
(***************************************************************************)
(* What the repo-maintenance workflow promises of the Live repository: an  *)
(* agent's change gets into it only after a reviewer has approved the task *)
(* and a human, asked after that approval, has confirmed the merge.        *)
(***************************************************************************)
CONSTANT Tasks

VARIABLES
    approved,           \* tasks a reviewer has approved
    asked,              \* tasks a human has been asked about
    answer,             \* task -> the human's answer
    merged              \* tasks with a change in the Live or the remote repository

gateVars == <<approved, asked, answer, merged>>

Init ==
    /\ approved = {}
    /\ asked = {}
    /\ answer = [t \in Tasks |-> "none"]
    /\ merged = {}

Approve(t) ==
    /\ approved' = approved \cup {t}
    /\ UNCHANGED <<asked, answer, merged>>

\* The verdict may be read and the human asked in one step.
Ask(t) ==
    /\ approved' \in {approved, approved \cup {t}}
    /\ t \in approved'
    /\ asked' = asked \cup {t}
    /\ UNCHANGED <<answer, merged>>

Answer(t, a) ==
    /\ t \in asked
    /\ answer[t] = "none"
    /\ answer' = [answer EXCEPT ![t] = a]
    /\ UNCHANGED <<approved, asked, merged>>

Merge(t) ==
    /\ answer[t] = "confirm"
    /\ merged' = merged \cup {t}
    /\ UNCHANGED <<approved, asked, answer>>

Next ==
    \E t \in Tasks :
        \/ Approve(t) \/ Ask(t) \/ Merge(t)
        \/ \E a \in {"confirm", "decline"} : Answer(t, a)

Spec == Init /\ [][Next]_gateVars
=============================================================================
