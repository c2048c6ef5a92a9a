----------------------------- MODULE ToolEnvelope -----------------------------
(***************************************************************************)
(* services/harness-tool-envelope.ts: what happens around one call of a    *)
(* tool.  The policy is asked, the call is recorded as started, the tool   *)
(* runs unless the policy is enforced against it, and the record gets its  *)
(* end.  Records are best-effort: a database that fails is not an error of *)
(* the tool.  A tool of the workspace bypasses the envelope and is         *)
(* recorded, and held against the policy, when it has run.                 *)
(***************************************************************************)
EXTENDS HarnessPolicy

CONSTANTS
    ToolCalls,      \* tool calls
    ToolRequests,   \* what a tool may ask the policy, a set of requests per call
    Outputs         \* how a tool ends, and what its output says in fields and words

\* A tool returns or throws; what it returns says success: false, or it does not.
ASSUME OutputAssumption == \A output \in Outputs : output.ends \in {"good", "bad", "throws"}

VARIABLES
    mode,           \* mode of the policy, fixed by the environment of the process
    scope,          \* what is known of the calls' task
    toolCall,       \* call -> step, turn, kind, requests, decisions and output
    execution,      \* tool_executions: call -> status, "none" without a record
    ran             \* history: what became of the tool itself, "no" if it did not run

toolVars == <<mode, scope, toolCall, execution, ran>>

NotCalled ==
    [step |-> "none", by |-> "nobody", kind |-> "none", requests |-> {}, decisions |-> {},
     output |-> "none"]

InitTools ==
    /\ \E feature \in BOOLEAN, requested \in {"off", "log_only", "enforce"} :
        mode = PolicyMode(feature, requested)
    /\ scope \in TaskScopes
    /\ toolCall = [c \in ToolCalls |-> NotCalled]
    /\ execution = [c \in ToolCalls |-> "none"]
    /\ ran = [c \in ToolCalls |-> "no"]

\* FEATURE_TOOL_ENVELOPE off: the tool is called with nothing around it.
BeginCall(c, by, kind, requests) ==
    /\ toolCall[c].step = "none"
    /\ toolCall' = [toolCall EXCEPT ![c] = [NotCalled EXCEPT
                    !.step = IF kind = "enveloped" THEN "evaluate" ELSE "execute",
                    !.by = by,
                    !.kind = kind,
                    !.requests = requests]]
    /\ UNCHANGED <<mode, scope, execution, ran>>

Decision(request) == IF mode = "off" THEN Disabled ELSE EvaluatePolicy(request, scope)

Decided(c, decisions) ==
    /\ toolCall[c].step \in {"evaluate", "judge"}
    /\ toolCall' = [toolCall EXCEPT
                    ![c].step = IF @ = "evaluate" THEN "start" ELSE "finish",
                    ![c].decisions = decisions]
    /\ UNCHANGED <<mode, scope, execution, ran>>

\* evaluateToolPolicy: all requests of a call; in the mode off nobody asks the database.
Evaluate(c) == Decided(c, {Decision(request) : request \in toolCall[c].requests})

\* The database throws under one of the evaluations.
EvaluateFails(c) ==
    /\ mode # "off" /\ scope # "no_task"
    /\ \E failed \in toolCall[c].requests :
        /\ failed.action \in {"read_file", "write_file"} /\ failed.target # "missing"
        /\ Decided(c, {EvaluationFailed} \cup
                {Decision(request) : request \in toolCall[c].requests \ {failed}})

\* The insert, or its failure, which is swallowed.
Started(c, status) ==
    /\ toolCall[c].step = "start"
    /\ toolCall' = [toolCall EXCEPT ![c].step = "execute"]
    /\ execution' = [execution EXCEPT ![c] = status]
    /\ UNCHANGED <<mode, scope, ran>>

RecordStarted(c) == Started(c, "started")
RecordStartedFails(c) == Started(c, "none")

HasEnforcedBlock(c) ==
    /\ toolCall[c].kind = "enveloped"
    /\ \E decision \in toolCall[c].decisions : ~EffectiveAllow(decision, mode)

PolicyBlocked == [ends |-> "throws", fields |-> {}, texts |-> {"policy"}]

\* firstBlockedPolicyDecision: the error is thrown before the tool is reached.
RefuseCall(c) ==
    /\ toolCall[c].step = "execute"
    /\ HasEnforcedBlock(c)
    /\ toolCall' = [toolCall EXCEPT ![c].step = "finish", ![c].output = PolicyBlocked]
    /\ UNCHANGED <<mode, scope, execution, ran>>

AfterTool(kind) ==
    CASE kind = "bare" -> "over"
      [] kind = "enveloped" -> "finish"
      [] kind = "workspace" -> "judge"

Execute(c) ==
    /\ toolCall[c].step = "execute"
    /\ ~HasEnforcedBlock(c)
    /\ \E output \in Outputs :
        /\ toolCall' = [toolCall EXCEPT ![c].step = AfterTool(toolCall[c].kind), ![c].output = output]
        /\ ran' = [ran EXCEPT ![c] = output.ends]
    /\ UNCHANGED <<mode, scope, execution>>

-----------------------------------------------------------------------------
(* The class of an error and the status of the record.                      *)

\* Patterns an error's text is tried against, in order, with the class each stands for.
TextPatterns == <<"workflow", "contract", "preflight", "risk", "approval", "policy",
                  "timeout", "validation", "command", "conflict">>

\* What an output says in its fields, in the order in which they are looked at: the class
\* it names for itself, what its validation and its risk say, the step that failed last.
FieldOrder == <<"class_policy", "class_approval", "class_other", "security_issues",
                "validation_errors", "risk_block", "risk_review", "missing_config",
                "failed_check", "failed_risk", "failed_validation">>

FieldClass(field) ==
    CASE field = "class_policy" -> "policy"
      [] field \in {"class_approval", "risk_review"} -> "approval"
      [] field = "class_other" -> "other"
      [] field = "security_issues" -> "security"
      [] field \in {"validation_errors", "failed_validation"} -> "workflow"
      [] field \in {"risk_block", "failed_risk"} -> "risk"
      [] field \in {"missing_config", "failed_check"} -> "preflight"

ClassifyText(texts) ==
    LET first == SelectInSeq(TextPatterns, LAMBDA pattern : pattern \in texts)
    IN  IF first = 0 THEN "unknown" ELSE TextPatterns[first]

ClassifyToolError(output) ==
    LET first == SelectInSeq(FieldOrder, LAMBDA field : field \in output.fields)
    IN  IF first = 0 THEN ClassifyText(output.texts) ELSE FieldClass(FieldOrder[first])

\* An output that does not say success: false is a success, whatever else it says.
FinalStatus(c) ==
    LET output == toolCall[c].output IN
    CASE output.ends = "good" -> "completed"
      [] output.ends = "bad" ->
            IF ClassifyToolError(output) \in {"policy", "approval"} THEN "blocked" ELSE "failed"
      [] output.ends = "throws" ->
            IF HasEnforcedBlock(c) \/ ClassifyText(output.texts) = "approval"
            THEN "blocked" ELSE "failed"

\* Mutant: the update without upsert.
FinishWithoutUpsert(c) ==
    /\ toolCall[c].step = "finish"
    /\ toolCall' = [toolCall EXCEPT ![c].step = "over"]
    /\ execution' = [execution EXCEPT ![c] = IF @ = "none" THEN @ ELSE FinalStatus(c)]
    /\ UNCHANGED <<mode, scope, ran>>

\* recordToolFinished with its upsert; for a tool of the workspace the one insert of
\* logPostHocToolExecution, whose status is isError alone.
RecordFinished(c) ==
    /\ toolCall[c].step = "finish"
    /\ toolCall' = [toolCall EXCEPT ![c].step = "over"]
    /\ execution' = [execution EXCEPT ![c] =
            CASE toolCall[c].kind = "enveloped" -> FinalStatus(c)
              [] toolCall[c].kind = "workspace" ->
                    IF toolCall[c].output.ends = "throws" THEN "failed" ELSE "completed"]
    /\ UNCHANGED <<mode, scope, ran>>

RecordFinishedFails(c) ==
    /\ toolCall[c].step = "finish"
    /\ toolCall' = [toolCall EXCEPT ![c].step = "over"]
    /\ UNCHANGED <<mode, scope, execution, ran>>

EnvelopeStep(c) ==
    \/ Evaluate(c)
    \/ RecordStarted(c)
    \/ RefuseCall(c)
    \/ Execute(c)
    \/ RecordFinished(c)

EnvelopeTroubles(c) == EvaluateFails(c) \/ RecordStartedFails(c) \/ RecordFinishedFails(c)

\* coding_init_worktree, coding_remove_worktree, or another agent at the same task.
MoveScope ==
    /\ \/ scope = "artifact" /\ scope' = "worktree"
       \/ scope = "worktree" /\ scope' = "artifact"
    /\ UNCHANGED <<mode, toolCall, execution, ran>>

\* The server goes: a call in progress has neither an end nor a record of it.
LoseCalls ==
    /\ toolCall' = [c \in ToolCalls |->
            IF toolCall[c].step \in {"none", "over"} THEN toolCall[c]
            ELSE [toolCall[c] EXCEPT !.step = "lost"]]
    /\ UNCHANGED <<mode, scope, execution, ran>>
=============================================================================
