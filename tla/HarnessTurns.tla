----------------------------- MODULE HarnessTurns -----------------------------
(***************************************************************************)
(* services/generate-with-harness.ts and harness-run-state.ts: a turn of   *)
(* an agent.  Its context is built, the run it belongs to becomes active,  *)
(* the agent is called and raced against a timeout, what it said is        *)
(* stored, the run gets its state back and a memory worker is sent off.    *)
(* The timeout does not stop the agent, which goes on calling tools behind *)
(* a turn that has failed.  Turns may share a run: the run is that of the  *)
(* task.                                                                   *)
(***************************************************************************)
EXTENDS SemanticMemory

CONSTANTS
    Run,            \* turn -> run
    Timed           \* turns with a timeoutMs

VARIABLES
    asyncMemory,    \* FEATURE_ASYNC_SEMANTIC_MEMORY
    turn,           \* turn -> step, kind of harness and result
    agent,          \* turn -> the promise of agent.generate
    agentRun,       \* agent_runs: run -> status and safeInterruptPoint
    artifacts       \* harness_artifacts: turns whose whole output is kept

turnVars == <<asyncMemory, turn, agent, agentRun, artifacts>>
harnessVars == <<memVars, turnVars>>

Kinds == {"coding", "automation", "knowledge", "review"}

InitTurns ==
    /\ asyncMemory \in BOOLEAN
    /\ turn = [t \in Turns |-> [step |-> "none", kind |-> "none", result |-> "none"]]
    /\ agent = [t \in Turns |-> "none"]
    /\ agentRun = [r \in {Run[t] : t \in Turns} |-> [status |-> "none", safe |-> FALSE]]
    /\ artifacts = {}

InitHarness == InitMemory /\ InitTurns

Goes(t, from, to) ==
    /\ turn[t].step = from
    /\ turn' = [turn EXCEPT ![t].step = to]

\* generateCoding, generateAutomation, generateKnowledge, generateReview
StartTurn(t, kind) ==
    /\ turn[t].step = "none"
    /\ turn' = [turn EXCEPT ![t].step = "context", ![t].kind = kind]
    /\ StartContext(t, asyncMemory /\ kind = "coding")
    /\ UNCHANGED <<asyncMemory, agent, agentRun, artifacts>>

\* buildCodingPrecontext; whatever fails in it, a context comes out.
CodingContext(t) ==
    /\ turn[t].step = "context" /\ turn[t].kind = "coding"
    /\ ContextStep(t, asyncMemory)
    /\ UNCHANGED turnVars

CodingContextFails(t) ==
    /\ turn[t].step = "context" /\ turn[t].kind = "coding"
    /\ ContextFails(t)
    /\ UNCHANGED turnVars

\* buildAutomationPrecontext: failure cases are recalled and pending updates looked at,
\* which stay pending; neither the ledger nor the pending context is asked.
AutomationContext(t) ==
    /\ turn[t].step = "context" /\ turn[t].kind = "automation"
    /\ RecallMemory(t, FALSE)
    /\ UNCHANGED turnVars

\* buildKnowledgePrecontext
KnowledgeContext(t) ==
    /\ turn[t].step = "context" /\ turn[t].kind = "knowledge"
    /\ RecallMemory(t, FALSE)
    /\ UNCHANGED turnVars

\* buildReviewPrecontext reads the artifact of the task.
ReviewContext(t) ==
    /\ turn[t].step = "context" /\ turn[t].kind = "review"
    /\ NoMemory(t)
    /\ UNCHANGED turnVars

RunBecomes(t, status, safe) ==
    agentRun' = [agentRun EXCEPT ![Run[t]] = [status |-> status, safe |-> safe]]

\* beginHarnessTurn and the call of the agent.
Begun(t) ==
    /\ ctx[t].step = "ready"
    /\ Goes(t, "context", "generate")
    /\ agent' = [agent EXCEPT ![t] = "running"]
    /\ UNCHANGED <<memVars, asyncMemory, artifacts>>

BeginTurn(t) == Begun(t) /\ RunBecomes(t, "active", FALSE)

BeginTurnFails(t) == Begun(t) /\ UNCHANGED agentRun

AgentEnds(t, result) ==
    /\ agent[t] = "running"
    /\ agent' = [agent EXCEPT ![t] = "over"]
    /\ IF turn[t].step = "generate"
       THEN turn' = [turn EXCEPT
                        ![t].step = IF result = "answer" THEN "compact" ELSE "fail",
                        ![t].result = result]
       ELSE UNCHANGED turn
    /\ UNCHANGED <<memVars, asyncMemory, agentRun, artifacts>>

\* An agent, its model or a tool of it may never come back.
AgentHangs(t) ==
    /\ agent[t] = "running"
    /\ agent' = [agent EXCEPT ![t] = "hung"]
    /\ UNCHANGED <<memVars, asyncMemory, turn, agentRun, artifacts>>

\* Mutant: the timeout waits for an agent that still works.
PatientTimeout(t) ==
    /\ t \in Timed
    /\ agent[t] = "running"
    /\ Goes(t, "generate", "fail")
    /\ UNCHANGED <<memVars, asyncMemory, agent, agentRun, artifacts>>

\* withTimeout: the race is lost, the agent is not told.
TimesOut(t) ==
    /\ t \in Timed
    /\ turn[t].step = "generate"
    /\ turn' = [turn EXCEPT ![t].step = "fail", ![t].result = "error"]
    /\ UNCHANGED <<memVars, asyncMemory, agent, agentRun, artifacts>>

\* compactHarnessOutput: an output that is too long for the preview is stored whole.
CompactOutput(t) ==
    /\ Goes(t, "compact", "complete")
    /\ artifacts' \in {artifacts, artifacts \cup {t}}
    /\ UNCHANGED <<memVars, asyncMemory, agent, agentRun>>

\* schedulePostTurnMemory
Schedules(t) ==
    /\ worker' = IF asyncMemory THEN [worker EXCEPT ![t].step = "score"] ELSE worker
    /\ UNCHANGED <<doc, computed, ledger, ctx, inPrompt, overlap>>

Ended(t, from) ==
    /\ Goes(t, from, "over")
    /\ Schedules(t)
    /\ UNCHANGED <<asyncMemory, agent, artifacts>>

CompleteTurn(t) == Ended(t, "complete") /\ RunBecomes(t, "waiting", TRUE)

FailTurn(t) == Ended(t, "fail") /\ RunBecomes(t, "failed", TRUE)

EndTurnFails(t) ==
    /\ Ended(t, "complete") \/ Ended(t, "fail")
    /\ UNCHANGED agentRun

TurnStep(t) ==
    \/ CodingContext(t)
    \/ AutomationContext(t)
    \/ KnowledgeContext(t)
    \/ ReviewContext(t)
    \/ BeginTurn(t)
    \/ CompactOutput(t)
    \/ CompleteTurn(t)
    \/ FailTurn(t)

AgentStep(t) == AgentHangs(t) \/ \E result \in {"answer", "error"} : AgentEnds(t, result)

TurnTroubles(t) == CodingContextFails(t) \/ BeginTurnFails(t) \/ EndTurnFails(t)

MemoryStep(t) == WorkerStep(t) /\ UNCHANGED turnVars

MemoryTroubles(t) == WorkerFails(t) /\ UNCHANGED turnVars

\* The server goes. The turns in progress have no end and their runs stay as they are.
LoseTurns ==
    /\ LoseMemory
    /\ turn' = [t \in Turns |->
            IF turn[t].step \in {"none", "over"} THEN turn[t]
            ELSE [turn[t] EXCEPT !.step = "lost"]]
    /\ agent' = [t \in Turns |-> IF agent[t] = "none" THEN "none" ELSE "over"]
    /\ UNCHANGED <<asyncMemory, agentRun, artifacts>>
=============================================================================
