------------------------------ MODULE LiveSlot ------------------------------
(***************************************************************************)
(* What the blue-green deployment promises to a client of the Live port.   *)
(* At any time the port is down or is served by one version; a version     *)
(* comes up only on a free port, and only if it is the version the system  *)
(* was installed with or one whose staging server has answered its health  *)
(* check.  The promise is not zero downtime: between two versions the port *)
(* is always down for a while.                                             *)
(***************************************************************************)
EXTENDS Integers

CONSTANT MaxVersion     \* versions are 0 (installed) .. MaxVersion

VARIABLES
    serving,            \* the version answering on the Live port, or NoVersion
    approved            \* versions that may be served

slotVars == <<serving, approved>>

Version == 0..MaxVersion
NoVersion == -1

Init == serving = 0 /\ approved = {0}

Approve(v) == approved' = approved \cup {v} /\ UNCHANGED serving

GoDown == serving' = NoVersion /\ UNCHANGED approved

ComeUp(v) ==
    /\ serving = NoVersion
    /\ v \in approved
    /\ serving' = v
    /\ UNCHANGED approved

Next == GoDown \/ \E v \in Version : Approve(v) \/ ComeUp(v)

Spec == Init /\ [][Next]_slotVars
=============================================================================
