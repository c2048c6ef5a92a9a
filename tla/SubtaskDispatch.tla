--------------------------- MODULE SubtaskDispatch ---------------------------
(***************************************************************************)
(* services/parallel-dispatch.ts and services/subtask-executor.ts: the     *)
(* subtasks of a diagnostic plan are put into groups by their dependencies *)
(* (smart-router.ts), the groups run one after another, the subtasks of a  *)
(* group side by side.  What came out badly is then tried again, one       *)
(* subtask after another: with the same model, and with a stronger one.    *)
(* Before each group and each further attempt the dispatch takes the       *)
(* task's pending messages, and an urgent one stops the group, or the      *)
(* subtask.  Which model runs a subtask, and whether another is there to   *)
(* fall back on, or a stronger one, is the matter of RoutedDispatch.       *)
(***************************************************************************)
EXTENDS PendingMessages

CONSTANTS
    Subtasks,
    Plans,          \* dependencies the plan may have: subtask -> ids
    Critical,       \* subtasks with priority 1
    Loop,           \* the taker the dispatch is
    MaxTroubles     \* bound: restarts and failing calls of the database

ASSUME DispatchAssumption ==
    /\ IsFiniteSet(Subtasks)
    /\ Subtasks # {}
    /\ \A plan \in Plans : DOMAIN plan = Subtasks
    /\ Critical \subseteq Subtasks
    /\ Takers = {Loop}
    /\ MaxTroubles \in Nat

VARIABLES
    needs,          \* subtask -> its dependencies
    loop,           \* step of dispatchSubtasks between and in groups
    group,          \* the group at work
    routed,         \* subtasks of the groups before
    sub,            \* subtask -> step, attempt and result
    shown,          \* history: messages put into a prompt or into a result
    troubles

planVars == <<needs, group, routed>>
dispatchVars == <<planVars, loop, sub, shown>>
vars == <<dispatchVars, troubles, msgVars>>

Record == [at : {"waiting", "take", "prompt", "call", "ran", "done"},
           attempt : 1..3,          \* first run, retry, escalation
           fell : BOOLEAN,          \* _fallbackAttempt of the call
           status : {"none", "success", "partial", "failed", "needs_human"},
           context : SUBSET Msgs,   \* context.pendingMessages
           stopped : BOOLEAN]       \* by an urgent message

NotBegun == [at |-> "waiting", attempt |-> 1, fell |-> FALSE, status |-> "none",
             context |-> {}, stopped |-> FALSE]

TypeOK ==
    /\ MessagesOK
    /\ needs \in Plans
    /\ loop \in {"check", "run", "done", "lost"}
    /\ group \subseteq Subtasks
    /\ routed \subseteq Subtasks
    /\ sub \in [Subtasks -> Record]
    /\ shown \subseteq Msgs
    /\ troubles \in 0..MaxTroubles

Init ==
    /\ InitMessages
    /\ needs \in Plans
    /\ loop = "check"
    /\ group = {}
    /\ routed = {}
    /\ sub = [s \in Subtasks |-> NotBegun]
    /\ shown = {}
    /\ troubles = 0

Trouble == troubles < MaxTroubles /\ troubles' = troubles + 1

-----------------------------------------------------------------------------
(* takePendingMessages, as the dispatch calls it                            *)

AtTakePoint == loop = "check" \/ (loop = "run" /\ \E s \in group : sub[s].at = "take")

LookForMessages ==
    /\ AtTakePoint
    /\ Find(Loop) \/ Mark(Loop)
    /\ UNCHANGED <<dispatchVars, troubles>>

\* There are none, or these, or the database has failed and there seem to be none.
Taken(found) ==
    \/ /\ Pending = {} /\ taker[Loop].step = "find" /\ found = {}
       /\ UNCHANGED <<msgVars, troubles>>
    \/ /\ Return(Loop) /\ found = taker[Loop].found
       /\ UNCHANGED troubles
    \/ TakeFails(Loop) /\ found = {} /\ Trouble

Urgent(found) == found \cap urgent # {}

-----------------------------------------------------------------------------
(* dispatchSubtasks: the groups                                             *)

\* Mutant: all that is left goes into the next group.
GroupOfTheRest(before) == Subtasks \ before

\* buildParallelGroups: what depends on nothing but earlier groups; and all that is
\* left if that is nothing, as in a circle.
GroupAfter(before) ==
    LET free == {s \in Subtasks \ before : needs[s] \subseteq before}
    IN IF free # {} THEN free ELSE Subtasks \ before

NextGroup == GroupAfter(routed)

BeginGroup ==
    /\ loop = "check"
    /\ \E found \in SUBSET Msgs :
        /\ Taken(found)
        /\ ~Urgent(found)
        /\ sub' = [s \in Subtasks |-> IF s \in NextGroup
                                      THEN [sub[s] EXCEPT !.at = "prompt", !.context = found]
                                      ELSE sub[s]]
    /\ group' = NextGroup
    /\ loop' = "run"
    /\ UNCHANGED <<needs, routed, shown>>

Interrupted(r) == [r EXCEPT !.at = "done", !.status = "needs_human", !.stopped = TRUE]

\* buildInterruptedGroupResult for this group and all that follow.
InterruptGroups ==
    /\ loop = "check"
    /\ \E found \in SUBSET Msgs :
        /\ Taken(found)
        /\ Urgent(found)
        /\ sub' = [s \in Subtasks |-> IF s \in routed THEN sub[s] ELSE Interrupted(sub[s])]
        /\ shown' = shown \cup found
    /\ loop' = "done"
    /\ UNCHANGED planVars

\* deriveGroupStatus, and "abort if critical subtask failed": isCriticalSubtask looks
\* into the first group only.
Aborts ==
    /\ \A s \in group : sub[s].status \in {"failed", "needs_human"}
    /\ routed = {}
    /\ \E s \in group \cap Critical : sub[s].status = "failed"

EndGroup ==
    /\ loop = "run"
    /\ \A s \in group : sub[s].at = "done"
    /\ routed' = routed \cup group
    /\ group' = {}
    /\ loop' = IF Aborts \/ routed' = Subtasks THEN "done" ELSE "check"
    /\ UNCHANGED <<needs, sub, shown, troubles, msgVars>>

-----------------------------------------------------------------------------
(* executeSubtask                                                           *)

Executes(s, step, r) ==
    /\ loop = "run"
    /\ s \in group
    /\ sub[s].at = step
    /\ sub' = [sub EXCEPT ![s] = r]
    /\ UNCHANGED <<planVars, loop, troubles, msgVars>>

Prompt(s) ==
    /\ Executes(s, "prompt", [sub[s] EXCEPT !.at = "call"])
    /\ shown' = shown \cup sub[s].context

Result(r, status) ==
    [r EXCEPT !.at = "ran", !.status = status, !.fell = FALSE, !.context = {}]

\* generateCoding returns; with errors of tsc in the artifact the result is partial.
Answers(s) ==
    /\ \E status \in {"success", "partial"} : Executes(s, "call", Result(sub[s], status))
    /\ UNCHANGED shown

\* Mutant: the fallback may fall back.
FallsBackAgain(s) ==
    /\ Executes(s, "call", [sub[s] EXCEPT !.at = "prompt"])
    /\ UNCHANGED shown

\* An infrastructure error, the timeout included, and there is another model.
FallsBack(s) ==
    /\ ~sub[s].fell
    /\ Executes(s, "call", [sub[s] EXCEPT !.at = "prompt", !.fell = TRUE])
    /\ UNCHANGED shown

Throws(s) ==
    /\ Executes(s, "call", Result(sub[s], "failed"))
    /\ UNCHANGED shown

-----------------------------------------------------------------------------
(* retryFailedSubtasks: one result after another                            *)

Turn(s) ==
    \A o \in group \ {s} :
        sub[o].at = "done" \/ (sub[o].at = "ran" /\ sub[o].attempt = 1)

Judges(s, r) ==
    /\ Turn(s)
    /\ Executes(s, "ran", r)
    /\ UNCHANGED shown

\* "Status OK": the quality of such a result is not looked at.
PassesThrough(r) == r.attempt = 1 /\ r.status = "success"

\* What validateSubtaskQuality may say; a failed result has no diagnostics.
MayPass(r) == r.status # "failed"
MayFail(r) == ~PassesThrough(r)

Keep(s) ==
    /\ MayPass(sub[s])
    /\ Judges(s, [sub[s] EXCEPT !.at = "done", !.status = "success"])

\* Again with the same model, then with a stronger one.
TryAgain(s) ==
    /\ MayFail(sub[s])
    /\ sub[s].attempt < 3
    /\ Judges(s, [sub[s] EXCEPT !.at = "take", !.attempt = @ + 1, !.status = "none"])

\* Mutant: the result of the last attempt is kept as it is.
GiveUpAsItIs(s) ==
    /\ MayFail(sub[s])
    /\ sub[s].attempt > 1
    /\ Judges(s, [sub[s] EXCEPT !.at = "done"])

\* The stronger model has not done it either, or there is none.
GiveUp(s) ==
    /\ MayFail(sub[s])
    /\ sub[s].attempt > 1
    /\ Judges(s, [sub[s] EXCEPT !.at = "done", !.status = "needs_human"])

\* Mutant: the attempt is made with the messages the group began with.
AttemptWithOldContext(s) ==
    /\ loop = "run"
    /\ s \in group
    /\ sub[s].at = "take"
    /\ \E found \in SUBSET Msgs :
        /\ Taken(found)
        /\ ~Urgent(found)
        /\ sub' = [sub EXCEPT ![s] = [@ EXCEPT !.at = "prompt", !.fell = FALSE]]
    /\ UNCHANGED <<planVars, loop, shown>>

Attempt(s) ==
    /\ loop = "run"
    /\ s \in group
    /\ sub[s].at = "take"
    /\ \E found \in SUBSET Msgs :
        /\ Taken(found)
        /\ ~Urgent(found)
        /\ sub' = [sub EXCEPT ![s] = [@ EXCEPT !.at = "prompt", !.fell = FALSE,
                                               !.context = found]]
    /\ UNCHANGED <<planVars, loop, shown>>

\* buildInterruptedSubtaskResult; the loop goes on with the next result.
InterruptSubtask(s) ==
    /\ loop = "run"
    /\ s \in group
    /\ sub[s].at = "take"
    /\ \E found \in SUBSET Msgs :
        /\ Taken(found)
        /\ Urgent(found)
        /\ sub' = [sub EXCEPT ![s] = Interrupted(@)]
        /\ shown' = shown \cup found
    /\ UNCHANGED <<planVars, loop>>

-----------------------------------------------------------------------------
(* The others, and the whole                                                *)

\* File warnings, background tasks and the user.
QueueOne(m) ==
    /\ \E isUrgent \in BOOLEAN : Queue(m, isUrgent)
    /\ UNCHANGED <<dispatchVars, troubles>>

ExpireOne(m) == ExpireMessage(m) /\ UNCHANGED <<dispatchVars, troubles>>

Restart ==
    /\ loop \in {"check", "run"}
    /\ Trouble
    /\ loop' = "lost"
    /\ LoseTakers
    /\ UNCHANGED <<planVars, sub, shown>>

SubtaskStep(s) ==
    \/ Prompt(s) \/ Answers(s) \/ FallsBack(s) \/ Throws(s)
    \/ Keep(s) \/ TryAgain(s) \/ GiveUp(s)
    \/ Attempt(s) \/ InterruptSubtask(s)

DispatchStep ==
    \/ LookForMessages \/ BeginGroup \/ InterruptGroups \/ EndGroup
    \/ \E s \in Subtasks : SubtaskStep(s)

Next ==
    \/ DispatchStep
    \/ Restart
    \/ \E m \in Msgs : QueueOne(m) \/ ExpireOne(m)

Spec == Init /\ [][Next]_vars

-----------------------------------------------------------------------------
(* Properties                                                               *)

\* A dispatch that is over has one final answer for every subtask of the plan,
\* whichever of them went wrong and was interrupted on the way; on it the overall
\* status is built.  None of the answers is "failed", because the retries have made
\* every such result one for a human before the group's status is derived: so the
\* subtasks of later groups are answered even when a critical one has come to nothing,
\* and the abort written for that case (parallel-dispatch.ts:205, "abort if critical
\* subtask failed") is never taken.
EverySubtaskIsAnswered ==
    loop = "done" =>
        \A s \in Subtasks :
            sub[s].at = "done" /\ sub[s].status \in {"success", "needs_human"}

\* The dependencies name subtasks, and are no circle: of any subtasks there is one that
\* needs none of the others.
Sound ==
    \A S \in (SUBSET Subtasks) \ {{}} : \E s \in S : needs[s] \subseteq Subtasks \ S

\* An agent has been asked for it, or will be without another look at the messages.
Begun(s) == sub[s].at # "waiting" /\ ~(sub[s].stopped /\ sub[s].attempt = 1)

\* No agent is called for a subtask before what it depends on is answered, retries
\* and escalations included.
DependenciesFirst ==
    Sound => \A s \in Subtasks : Begun(s) => \A d \in needs[s] : sub[d].at = "done"

\* What an urgent message has stopped is not gone on with: a subtask stopped before
\* an attempt, and those of the groups stopped before they began.
InterruptStops ==
    [][\A s \in Subtasks : sub[s].stopped => sub'[s] = sub[s]]_vars

\* The text of the dispatch's messages is never lost: unless the server went or the
\* database failed, a consumed one is on its way, or in a prompt or a result.
ConsumedIsShown ==
    troubles = 0 =>
        \A m \in Msgs :
            msg[m] = "consumed" =>
                \/ m \in shown
                \/ taker[Loop].step = "return" /\ m \in taker[Loop].found
                \/ \E s \in group : sub[s].at = "prompt" /\ m \in sub[s].context
=============================================================================
