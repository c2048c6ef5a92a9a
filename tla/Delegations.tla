----------------------------- MODULE Delegations -----------------------------
(***************************************************************************)
(* tools/system/delegate-task.ts and services/async-delegation.ts over the *)
(* harness and the queue: an agent hands a task to another one and waits   *)
(* for the answer, or goes on and finds the answer among the pending       *)
(* messages of its thread.  A delegation, its turn and its message have    *)
(* one name.  The background tasks of SoftInterrupts use the same queue;   *)
(* a behaviour is about them or about delegations, which share nothing     *)
(* else.                                                                   *)
(***************************************************************************)
EXTENDS SoftInterrupts, HarnessTurns

CONSTANTS
    Delegs          \* delegations, each of them also its turn and its message

ASSUME DelegationAssumption == Turns = Delegs /\ Delegs \subseteq Msgs \ Tasks

VARIABLES
    world,          \* what this behaviour is about
    deleg,          \* delegation -> step
    record,         \* async_delegations: delegation -> status
    told            \* delegation -> what delegate-task returned

delegVars == <<deleg, record, told>>
allVars == <<vars, harnessVars, world, delegVars>>

InitDelegations ==
    /\ Init
    /\ InitHarness
    /\ world \in {"tasks", "delegations"}
    /\ ~asyncMemory
    /\ deleg = [d \in Delegs |-> "none"]
    /\ record = [d \in Delegs |-> "none"]
    /\ told = [d \in Delegs |-> "none"]

Moves(d, from, to) ==
    /\ deleg[d] = from
    /\ deleg' = [deleg EXCEPT ![d] = to]

\* The variables of the background tasks, their troubles apart.
quiet == <<start, proc, rec, file, exit, poll, cancel, termed>>

OnlyDelegation == UNCHANGED <<quiet, msgVars, harnessVars>>

-----------------------------------------------------------------------------
(* delegate-task                                                            *)

\* An agent that is not there, or the architect or the knowledge agent asking itself.
Refuse(d) ==
    /\ Moves(d, "none", "over")
    /\ told' = [told EXCEPT ![d] = "failure"]
    /\ UNCHANGED record /\ OnlyDelegation

\* async for one of the three agents with a harness.
AskAsync(d) ==
    /\ Moves(d, "none", "insert")
    /\ UNCHANGED <<record, told>> /\ OnlyDelegation

\* The agents with a harness that take delegations.
Delegated == {"coding", "automation", "knowledge"}

\* The blocking call of one of the three.
AskSync(d, kind) ==
    /\ Moves(d, "none", "wait")
    /\ StartTurn(d, kind)
    /\ UNCHANGED <<record, told, quiet, msgVars>>

\* The others are called without a harness, and without a timeout.
AskDirect(d) ==
    /\ Moves(d, "none", "direct")
    /\ UNCHANGED <<record, told>> /\ OnlyDelegation

DirectAnswers(d, answer) ==
    /\ Moves(d, "direct", "over")
    /\ told' = [told EXCEPT ![d] = answer]
    /\ UNCHANGED record /\ OnlyDelegation

\* An architect's answer is a success if it has the status and the identifiers the
\* contract asks for.
AnswerSync(d) ==
    /\ turn[d].step = "over"
    /\ Moves(d, "wait", "over")
    /\ \E complete \in IF turn[d].kind = "automation" THEN BOOLEAN ELSE {TRUE} :
        told' = [told EXCEPT ![d] =
            IF turn[d].result = "answer" /\ complete THEN "success" ELSE "failure"]
    /\ UNCHANGED record /\ OnlyDelegation

-----------------------------------------------------------------------------
(* startAsyncDelegation and executeDelegation                               *)

InsertDelegation(d) ==
    /\ Moves(d, "insert", "connect")
    /\ record' = [record EXCEPT ![d] = "running"]
    /\ told' = [told EXCEPT ![d] = "started"]
    /\ OnlyDelegation

\* The exception is delegate-task's, also when the record was written.
InsertDelegationFails(d) ==
    /\ Moves(d, "insert", "over")
    /\ record' \in {record, [record EXCEPT ![d] = "running"]}
    /\ told' = [told EXCEPT ![d] = "failure"]
    /\ OnlyDelegation

Connect(d, kind) ==
    /\ Moves(d, "connect", "work")
    /\ StartTurn(d, kind)
    /\ UNCHANGED <<record, told, quiet, msgVars>>

\* getDb is asked outside the try: a rejection nobody handles.
ConnectFails(d) ==
    /\ Moves(d, "connect", "lost")
    /\ UNCHANGED <<record, told>> /\ OnlyDelegation

HarnessReturns(d) ==
    /\ turn[d].step = "over"
    /\ Moves(d, "work", IF turn[d].result = "answer" THEN "complete" ELSE "fail")
    /\ UNCHANGED <<record, told>> /\ OnlyDelegation

Recorded(d, from, to, status) ==
    /\ Moves(d, from, to)
    /\ record' = [record EXCEPT ![d] = status]
    /\ UNCHANGED told /\ OnlyDelegation

RecordCompleted(d) == Recorded(d, "complete", "queue", "completed")

\* The update throws, before or after the fact: the delegation is treated as failed.
RecordCompletedFails(d) ==
    \/ Recorded(d, "complete", "fail", record[d])
    \/ Recorded(d, "complete", "fail", "completed")

RecordFailed(d) == Recorded(d, "fail", "queueFailure", "failed")

\* The catch has no catch.
RecordFailedFails(d) ==
    \/ Recorded(d, "fail", "lost", record[d])
    \/ Recorded(d, "fail", "lost", "failed")

QueueResult(d) ==
    /\ Moves(d, "queue", "over")
    /\ Queue(d, FALSE)
    /\ UNCHANGED <<record, told, quiet, harnessVars>>

QueueFailure(d) ==
    /\ Moves(d, "queueFailure", "over")
    /\ Queue(d, TRUE)
    /\ UNCHANGED <<record, told, quiet, harnessVars>>

\* queuePendingMessage swallows its errors, and nobody looks at what it returns.
QueueFails(d) ==
    /\ Moves(d, "queue", "over") \/ Moves(d, "queueFailure", "over")
    /\ UNCHANGED <<record, told>> /\ OnlyDelegation

Ask(d) ==
    \/ Refuse(d)
    \/ AskAsync(d)
    \/ \E kind \in Delegated : AskSync(d, kind)
    \/ AskDirect(d)

DelegationStep(d) ==
    \/ AnswerSync(d)
    \/ InsertDelegation(d)
    \/ \E kind \in Delegated : Connect(d, kind)
    \/ HarnessReturns(d)
    \/ RecordCompleted(d)
    \/ RecordFailed(d)
    \/ QueueResult(d)
    \/ QueueFailure(d)

DelegationTroubles(d) ==
    \/ InsertDelegationFails(d)
    \/ ConnectFails(d)
    \/ RecordCompletedFails(d)
    \/ RecordFailedFails(d)
    \/ QueueFails(d)

-----------------------------------------------------------------------------
(* The worlds                                                               *)

DelegationsWait == {"insert", "connect", "wait", "direct", "work", "complete", "fail",
                    "queue", "queueFailure"}

LoseDelegations ==
    /\ deleg' = [d \in Delegs |-> IF deleg[d] \in DelegationsWait THEN "lost" ELSE deleg[d]]
    /\ UNCHANGED <<record, told>>

RestartServer ==
    /\ Restart
    /\ LoseTurns
    /\ LoseDelegations

\* Bound: the other messages beside a background task are urgent ones.
TasksWorld ==
    /\ Next
    /\ \A d \in Delegs : msg'[d] = msg[d]
    /\ \A m \in Msgs \ Tasks : msg'[m] # "none" => m \in urgent'
    /\ UNCHANGED <<harnessVars, delegVars>>

HarnessOnly == UNCHANGED <<quiet, msgVars, delegVars>>
QueueOnly == UNCHANGED <<quiet, harnessVars, delegVars>>

DelegationWorks(d) == Ask(d) \/ DelegationStep(d)

TurnWorks(t) == TurnStep(t) /\ HarnessOnly
AgentWorks(t) == AgentStep(t) /\ HarnessOnly

DelegationsWorld ==
    \/ \E d \in Delegs :
        \/ DelegationWorks(d)
        \/ \E answer \in {"success", "failure"} : DirectAnswers(d, answer)
        \/ TurnWorks(d)
        \/ AgentWorks(d)
        \/ TimesOut(d) /\ HarnessOnly
    \/ \E m \in Msgs \ Tasks : ExpireMessage(m) /\ QueueOnly
    \/ \E m \in Msgs \ (Tasks \cup Delegs), isUrgent \in BOOLEAN :
        Queue(m, isUrgent) /\ QueueOnly
    \/ \E k \in Takers : Take(k) /\ QueueOnly

DelegationsFail ==
    \/ \E d \in Delegs : DelegationTroubles(d) \/ (TurnTroubles(d) /\ HarnessOnly)
    \/ \E k \in Takers : TakeFails(k) /\ QueueOnly

Delegating == world = "delegations" /\ UNCHANGED <<world, troubles>>

DelegationsNext ==
    /\ \/ world = "tasks" /\ TasksWorld
       \/ world = "delegations" /\ DelegationsWorld /\ UNCHANGED troubles
       \/ world = "delegations" /\ DelegationsFail /\ Trouble
       \/ world = "delegations" /\ RestartServer
    /\ UNCHANGED world

DelegationsSpec == InitDelegations /\ [][DelegationsNext]_allVars

\* The calls of the database return and timers fire; an agent owes nothing.
DelegationsFairness ==
    /\ Fairness
    /\ \A d \in Delegs :
        /\ WF_allVars(Delegating /\ (TurnWorks(d) \/ (TimesOut(d) /\ HarnessOnly)))
        /\ WF_allVars(Delegating /\ DelegationStep(d))

FairDelegations == DelegationsSpec /\ DelegationsFairness

-----------------------------------------------------------------------------
(* Properties                                                               *)

\* A delegation that has begun its work has an end, also if the agent never comes back,
\* and whoever asked for it learns of the end: a caller that waits gets an answer, one
\* that does not finds a message, unless the message expires first or the server goes.
\* Once the work has begun nothing must fail: what fails in the queue, or in the catch,
\* is told to nobody.
DelegationReachesCaller ==
    \A d \in Delegs :
        deleg[d] = "wait" \/ (deleg[d] = "work" /\ troubles = MaxTroubles)
            ~> \/ d \in delivered
               \/ msg[d] = "gone"
               \/ told[d] \in {"success", "failure"}
               \/ deleg[d] = "lost" /\ told[d] = "none"
=============================================================================
