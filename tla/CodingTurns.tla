------------------------------ MODULE CodingTurns ------------------------------
(***************************************************************************)
(* The turns a task is made of.  A workflow, repo-maintenance for one, has *)
(* its agents work in turns of the harness; every turn is given memories   *)
(* and calls tools.  The three meet in the arguments of calls only, so     *)
(* that a behaviour is about one of them: the workflow, the memory of the  *)
(* turns of a task, or the tool calls of a turn.                           *)
(***************************************************************************)
EXTENDS RepoMaintenance, HarnessTurns, ToolEnvelope

CONSTANT
    MaxFailures     \* bound: restarts and calls of the database that throw

ASSUME FailureAssumption == MaxFailures \in Nat

VARIABLES
    world,          \* what this behaviour is about
    failures

allVars == <<vars, harnessVars, toolVars, world, failures>>

InitCoding ==
    /\ Init
    /\ InitHarness
    /\ InitTools
    /\ world \in {"workflow", "memory", "tools"}
    /\ asyncMemory <=> world = "memory"
    /\ world # "tools" => mode = "off" /\ scope = "no_task"
    /\ failures = 0

OnlyWorkflow == UNCHANGED <<harnessVars, toolVars>>
OnlyTurns == UNCHANGED <<vars, toolVars>>
OnlyTools == UNCHANGED <<vars, harnessVars>>

\* A tool is called by an agent that works, be its turn over or not.
CallsTool(t, c) ==
    /\ agent[t] = "running"
    /\ \E kind \in {"bare", "enveloped", "workspace"}, requests \in ToolRequests :
        /\ kind = "bare" => requests = {}
        /\ BeginCall(c, t, kind, requests)
    /\ OnlyTools

CallsInProgress(t) ==
    {c \in ToolCalls : toolCall[c].by = t /\ toolCall[c].step \notin {"over", "lost"}}

AgentWorks(t) == CallsInProgress(t) = {} /\ AgentStep(t) /\ OnlyTurns

TurnsBefore == {t \in Turns : turn[t].step # "none"}

\* Bound: where the memory is at stake no output is long, every agent comes back, and one
\* at most has failed; a review comes after the turns that it reviews.
MemoryWorld ==
    \E t \in Turns :
        \/ StartTurn(t, "coding") /\ OnlyTurns
        \/ (\A u \in TurnsBefore : turn[u].step = "over") /\ TurnsBefore # {}
            /\ StartTurn(t, "review") /\ OnlyTurns
        \/ TurnStep(t) /\ artifacts' = artifacts /\ OnlyTurns
        \/ AgentEnds(t, "answer") /\ OnlyTurns
        \/ (\A u \in Turns : turn[u].result # "error") /\ AgentEnds(t, "error") /\ OnlyTurns
        \/ MemoryStep(t) /\ OnlyTurns

\* Bound: one turn, of a coding agent, which recalls nothing.
ToolsWorld ==
    \/ \E t \in Turns :
        \/ (\A u \in Turns : turn[u].step = "none") /\ StartTurn(t, "coding") /\ OnlyTurns
        \/ TurnStep(t) /\ inPrompt' = inPrompt /\ OnlyTurns
        \/ AgentWorks(t)
        \/ TimesOut(t) /\ OnlyTurns
        \/ \E c \in ToolCalls : CallsTool(t, c)
    \/ (\E c \in ToolCalls : EnvelopeStep(c)) /\ OnlyTools
    \/ MoveScope /\ OnlyTools

Works ==
    \/ world = "workflow" /\ Next /\ OnlyWorkflow
    \/ world = "memory" /\ MemoryWorld
    \/ world = "tools" /\ ToolsWorld

Fails ==
    \/ \E t \in Turns : (TurnTroubles(t) \/ MemoryTroubles(t)) /\ OnlyTurns
    \/ (\E c \in ToolCalls : EnvelopeTroubles(c)) /\ OnlyTools
    \/ LoseTurns /\ LoseCalls /\ UNCHANGED vars

NextCoding ==
    /\ \/ Works /\ UNCHANGED failures
       \/ world # "workflow" /\ Fails /\ failures < MaxFailures /\ failures' = failures + 1
    /\ UNCHANGED world

SpecCoding == InitCoding /\ [][NextCoding]_allVars

-----------------------------------------------------------------------------
(* Properties                                                               *)

\* Unless the database threw, a memory is shown twice in a thread or a task only to
\* turns of a coding agent whose contexts were built at the same time, however the
\* workers run beside them.
MemoryShownOnce ==
    failures = 0 =>
        \A t, u \in Turns :
            /\ t # u /\ SameScope(t, u)
            /\ inPrompt[t] \cap inPrompt[u] # {}
            => {t, u} \in overlap

\* The record of a call tells what became of the tool: completed only if it ran and said
\* so, failed only if it ran and did not, blocked only if it did not run or said that it
\* may not. No call that ran under the envelope is without a record, whichever one call
\* of the database failed, and under enforcement none ran that the policy refused.
ToolRecordIsTrue ==
    \A c \in ToolCalls :
        /\ execution[c] = "completed" => ran[c] = "good" \/ toolCall[c].kind = "workspace"
        /\ execution[c] = "failed" => ran[c] \in {"bad", "throws"}
        /\ execution[c] = "blocked" => ran[c] # "good"
        /\ toolCall[c].kind = "enveloped" /\ toolCall[c].step = "over" /\ failures <= 1
            => execution[c] # "none"
        /\ toolCall[c].kind = "enveloped" /\ ran[c] # "no" /\ mode = "enforce"
            => \A decision \in toolCall[c].decisions : decision.allow

=============================================================================
