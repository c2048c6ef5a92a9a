---------------------------- MODULE HarnessPolicy ----------------------------
(***************************************************************************)
(* services/harness-policy.ts: what the policy says of one request of a    *)
(* tool.  A path is the place it leads to, a command the classes of        *)
(* patterns it matches; the worktrees lie beside the live repository, so   *)
(* that no place is inside both.                                           *)
(***************************************************************************)
EXTENDS SequencesExt

Modes == {"off", "log_only", "enforce"}

\* What FEATURE_HARNESS_POLICY and HARNESS_POLICY_MODE make of the mode.
PolicyMode(feature, requested) ==
    CASE ~feature \/ requested \in {"off", "disabled"} -> "off"
      [] feature /\ requested \in {"enforce", "enforced"} -> "enforce"
      [] OTHER -> "log_only"

Allow(rule) == [allow |-> TRUE, requiresApproval |-> FALSE, rule |-> rule]
RequireApproval(rule) == [allow |-> FALSE, requiresApproval |-> TRUE, rule |-> rule]
BlockRequest(rule) == [allow |-> FALSE, requiresApproval |-> FALSE, rule |-> rule]

\* "protected" is the root itself, .git, node_modules or .env below it; "below" any
\* other relative path; the others are absolute.
Paths == {"missing", "below", "protected", "live", "worktree", "elsewhere"}

InsideRoot(path, root) == path \in {"below", "protected", root}

BlockedPath(path) == path = "protected"

\* What is known of the task: no taskId, no artifact, one without a worktree, one with it.
TaskScopes == {"no_task", "none", "artifact", "worktree"}

EvaluateRead(path, scope) ==
    LET root == IF scope = "worktree" THEN "worktree" ELSE "live" IN
    CASE path = "missing" -> BlockRequest("read_target_missing")
      [] path # "missing" /\ ~InsideRoot(path, root) -> BlockRequest("read_outside_workspace")
      [] BlockedPath(path) -> BlockRequest("read_blocked_path")
      [] OTHER -> Allow("read_workspace_file")

EvaluateWrite(path, scope) ==
    CASE path = "missing" -> BlockRequest("write_target_missing")
      [] path # "missing" /\ scope = "no_task" -> BlockRequest("write_missing_task")
      [] path # "missing" /\ scope = "none" -> BlockRequest("write_missing_artifact")
      [] path # "missing" /\ scope = "artifact" -> BlockRequest("write_without_worktree")
      [] path # "missing" /\ scope = "worktree" /\ ~InsideRoot(path, "worktree") ->
            BlockRequest("write_outside_worktree")
      [] scope = "worktree" /\ BlockedPath(path) -> BlockRequest("write_blocked_path")
      [] OTHER -> Allow("write_task_worktree")

\* The classes in the order in which their patterns are tried.
ApprovalClasses == <<"destructive", "git_mutation", "package_install", "network">>
AllowedClasses == {"readonly", "verification"}

\* A command is the set of the classes it matches, {} for one that matches none, and
\* {"missing"} for an empty one.
EvaluateCommand(classes) ==
    LET first == SelectInSeq(ApprovalClasses, LAMBDA class : class \in classes) IN
    CASE classes = {"missing"} -> BlockRequest("command_missing")
      [] first # 0 -> RequireApproval(ApprovalClasses[first])
      [] classes # {"missing"} /\ first = 0 /\ classes \cap AllowedClasses # {} -> Allow("command_allowed")
      [] OTHER -> RequireApproval("unknown_command")

EvaluatePolicy(request, scope) ==
    CASE request.action = "read_file" -> EvaluateRead(request.target, scope)
      [] request.action = "write_file" -> EvaluateWrite(request.target, scope)
      [] request.action = "run_command" -> EvaluateCommand(request.classes)
      [] request.action \in {"apply_patch", "network", "git", "deploy_automation",
                             "activate_automation"} -> RequireApproval(request.action)
      [] request.action \in {"approval", "memory_write", "test_automation",
                             "compose_automation"} -> Allow(request.action)

\* An evaluation that throws is an allowance, in every mode.
EvaluationFailed == Allow("policy_evaluation_failed")

Disabled == Allow("policy_disabled")

\* Only in the mode enforce is a refusal one.
EffectiveAllow(decision, mode) == mode = "enforce" => decision.allow
=============================================================================
