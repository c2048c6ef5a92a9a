--------------------------- MODULE RepoMaintenance ---------------------------
(***************************************************************************)
(* workflows/repo-maintenance.ts: a coding agent patches a worktree, a     *)
(* review agent gives a verdict, the decision gate suspends the run until  *)
(* a human answers, and what is merged is built and checked.  Resuming the *)
(* run executes the step it is suspended in again, from its first line.    *)
(* The agents are external: they may do less than they are asked, and one  *)
(* that timed out goes on behind the back of the run (generate-with-       *)
(* harness.ts races it against a timer and does not abort it).             *)
(***************************************************************************)
EXTENDS Integers, FiniteSets

CONSTANTS
    Tasks,                  \* runs of the workflow, each with its task
    MaxReviewIterations,    \* MAX_REVIEW_ITERATIONS
    PRMode,                 \* GITHUB_PR_MODE
    AutoSwap,               \* values DEPLOY_AUTO_SWAP may have
    MaxRestarts             \* bound: restarts of the server

ASSUME WorkflowAssumption ==
    /\ MaxReviewIterations \in Nat \ {0}
    /\ PRMode \in BOOLEAN
    /\ AutoSwap \subseteq BOOLEAN
    /\ MaxRestarts \in Nat

VARIABLES
    step,           \* task -> where its run is
    answer,         \* task -> resumeData
    verdict,        \* task -> verdict execute-review-agent hands to the gate
    artVerdict,     \* task -> artifact.reviewVerdict
    code,           \* task -> version of the sources in its worktree
    worktree,       \* tasks that have a worktree and a branch
    pr,             \* task -> version pushed with its pull request, or 0
    late,           \* task -> what a timed out agent may still do, or has done
    action,         \* task -> action the gate returned
    deploy,         \* task -> deployStatus
    live, remote,   \* <<task, version>> merged into LIVE_DIR and on GitHub
    approvedVer,    \* history: task -> versions a review approved
    shown,          \* history: task -> version the human was asked about
    restarts

runVars == <<step, answer, verdict, action, deploy>>
artVars == <<artVerdict, code, worktree, pr>>
repoVars == <<live, remote>>
history == <<approvedVer, shown>>
vars == <<runVars, artVars, repoVars, history, late, restarts>>

Verdict == {"approve", "needs_changes", "block"}

\* The patch, a rework before and one after the suspension, a late agent's edit.
Version == 0..4

NotShown == -1

Settled == {"suspended", "over", "failed", "lost"}

TypeOK ==
    /\ step \in [Tasks -> Settled \cup {"idle", "diagnose", "patch", "review", "gate",
                                        "rereview", "cleanup", "merge", "deploy"}]
    /\ answer \in [Tasks -> {"none", "confirm", "decline"}]
    /\ verdict \in [Tasks -> Verdict \cup {"none"}]
    /\ artVerdict \in [Tasks -> Verdict \cup {"none"}]
    /\ code \in [Tasks -> Version]
    /\ worktree \subseteq Tasks
    /\ pr \in [Tasks -> Version]
    /\ late \in [Tasks -> {"none", "edits", "merges", "done"}]
    /\ action \in [Tasks -> {"none", "approved_and_merged", "loop_back", "blocked",
                             "max_iterations_reached"}]
    /\ deploy \in [Tasks -> {"none", "deployed_and_verified", "deploy_failed", "skipped"}]
    /\ live \subseteq Tasks \X Version
    /\ remote \subseteq Tasks \X Version
    /\ approvedVer \in [Tasks -> SUBSET Version]
    /\ shown \in [Tasks -> Version \cup {NotShown}]
    /\ restarts \in 0..MaxRestarts

Init ==
    /\ step = [t \in Tasks |-> "idle"]
    /\ answer = [t \in Tasks |-> "none"]
    /\ verdict = [t \in Tasks |-> "none"]
    /\ artVerdict = [t \in Tasks |-> "none"]
    /\ code = [t \in Tasks |-> 0]
    /\ worktree = {}
    /\ pr = [t \in Tasks |-> 0]
    /\ late = [t \in Tasks |-> "none"]
    /\ action = [t \in Tasks |-> "none"]
    /\ deploy = [t \in Tasks |-> "none"]
    /\ live = {}
    /\ remote = {}
    /\ approvedVer = [t \in Tasks |-> {}]
    /\ shown = [t \in Tasks |-> NotShown]
    /\ restarts = 0

Goto(t, s) == step' = [step EXCEPT ![t] = s]

\* The gate returns: deploy-and-verify is next.
Return(t, a) == Goto(t, "deploy") /\ action' = [action EXCEPT ![t] = a]

\* An agent asked to edit the worktree makes a new version, or does nothing.
Edit(t) ==
    \/ /\ t \in worktree
       /\ code' = [code EXCEPT ![t] = @ + 1]
    \/ UNCHANGED code

\* Mutant: no verdict is taken for an approval.
ReadApproves(v) == IF v = "none" THEN "approve" ELSE v

\* The verdict an artifact without one stands for.
Read(v) == IF v = "none" THEN "needs_changes" ELSE v

\* A review submits a verdict on what is in the worktree, or none.
SubmitReview(t) ==
    \/ UNCHANGED <<artVerdict, approvedVer>>
    \/ \E v \in Verdict :
        /\ artVerdict' = [artVerdict EXCEPT ![t] = v]
        /\ approvedVer' = IF v = "approve"
                          THEN [approvedVer EXCEPT ![t] = @ \cup {code[t]}]
                          ELSE approvedVer

-----------------------------------------------------------------------------
(* diagnose-and-plan, execute-patch, execute-review-agent                   *)

Start(t) ==
    /\ step[t] = "idle"
    /\ Goto(t, "diagnose")
    /\ UNCHANGED <<answer, verdict, action, deploy, artVars, repoVars, history, late, restarts>>

Diagnose(t) ==
    /\ step[t] = "diagnose"
    /\ Goto(t, "patch")
    /\ UNCHANGED <<answer, verdict, action, deploy, artVars, repoVars, history, late, restarts>>

\* When the parallel dispatch throws, the single agent starts over in the same
\* worktree, and agents of the dispatch may still be at work there.
ExecutePatch(t) ==
    /\ step[t] = "patch"
    /\ \/ UNCHANGED <<worktree, code>>
       \/ worktree' = worktree \cup {t} /\ code' = [code EXCEPT ![t] = 1]
    /\ late' \in {late, [late EXCEPT ![t] = "edits"]}
    /\ Goto(t, "review")
    /\ UNCHANGED <<answer, verdict, action, deploy, artVerdict, pr, repoVars, history, restarts>>

ExecuteReview(t) ==
    /\ step[t] = "review"
    /\ SubmitReview(t)
    /\ verdict' = [verdict EXCEPT ![t] = Read(artVerdict'[t])]
    /\ Goto(t, "gate")
    /\ UNCHANGED <<answer, action, deploy, code, worktree, pr, repoVars, shown, late, restarts>>

-----------------------------------------------------------------------------
(* decision-gate                                                            *)

Suspend(t) ==
    /\ Goto(t, "suspended")
    /\ shown' = [shown EXCEPT ![t] = code[t]]

\* In PR mode the worktree is committed, pushed and proposed; whatever fails there
\* falls through to the plain suspension, with or without a stored prNumber.
AskToMerge(t) ==
    /\ step[t] = "gate"
    /\ verdict[t] = "approve"
    /\ answer[t] = "none"
    /\ pr' \in {pr, IF PRMode /\ t \in worktree THEN [pr EXCEPT ![t] = code[t]] ELSE pr}
    /\ Suspend(t)
    /\ UNCHANGED <<answer, verdict, action, deploy, artVerdict, code, worktree, repoVars,
                   approvedVer, late, restarts>>

\* The human resumes the run; the gate is executed again, now with resumeData.
Resume(t, a) ==
    /\ step[t] = "suspended"
    /\ answer' = [answer EXCEPT ![t] = a]
    /\ Goto(t, "gate")
    /\ UNCHANGED <<verdict, action, deploy, artVars, repoVars, history, late, restarts>>

\* Mutant: a refusal is taken for a fallback to the local merge.
DeclineMerges(t) ==
    /\ step[t] = "gate"
    /\ verdict[t] = "approve"
    /\ answer[t] = "decline"
    /\ Goto(t, "merge")
    /\ UNCHANGED <<answer, verdict, action, deploy, artVars, repoVars, history, late, restarts>>

Decline(t) ==
    /\ step[t] = "gate"
    /\ verdict[t] = "approve"
    /\ answer[t] = "decline"
    /\ Return(t, "blocked")
    /\ UNCHANGED <<answer, verdict, deploy, artVars, repoVars, history, late, restarts>>

Block(t) ==
    /\ step[t] = "gate"
    /\ verdict[t] = "block"
    /\ Return(t, "blocked")
    /\ UNCHANGED <<answer, verdict, deploy, artVars, repoVars, history, late, restarts>>

HasPR(t) == PRMode /\ pr[t] # 0

\* mergePR says no, also when GitHub has merged and only its answer is lost; or the
\* pull request is merged and git pull tried; or something throws before that.
MergePR(t) ==
    /\ step[t] = "gate"
    /\ verdict[t] = "approve"
    /\ answer[t] = "confirm"
    /\ HasPR(t)
    /\ LET merge == {<<t, pr[t]>>}
       IN  \/ remote' \in {remote, remote \cup merge} /\ Return(t, "blocked") /\ UNCHANGED live
           \/ /\ remote' = remote \cup merge
              /\ live' \in {live, live \cup merge}
              /\ Goto(t, "cleanup") /\ UNCHANGED action
           \/ Goto(t, "merge") /\ UNCHANGED <<live, remote, action>>
    /\ UNCHANGED <<answer, verdict, deploy, artVars, history, late, restarts>>

\* An agent removes the worktree; if its call throws, the handler of the merge's
\* exceptions falls through to the local merge.
Cleanup(t) ==
    /\ step[t] = "cleanup"
    /\ \/ worktree' \in {worktree, worktree \ {t}} /\ Return(t, "approved_and_merged")
       \/ Goto(t, "merge") /\ UNCHANGED <<worktree, action>>
    /\ UNCHANGED <<answer, verdict, deploy, artVerdict, code, pr, repoVars, history, late, restarts>>

AtLocalMerge(t) ==
    \/ step[t] = "merge"
    \/ step[t] = "gate" /\ verdict[t] = "approve" /\ answer[t] = "confirm" /\ ~HasPR(t)

\* The agent calls coding_apply_patch, which commits the worktree as it is now and
\* merges it.  A conflict is only told to the agent: the gate reports a merge.
LocalMerge(t) ==
    /\ AtLocalMerge(t)
    /\ live' \in {live} \cup {live \cup {<<u, code[u]>>} : u \in worktree \cap {t}}
    /\ worktree' \in {worktree, worktree \ {t}}
    /\ Return(t, "approved_and_merged")
    /\ UNCHANGED <<answer, verdict, deploy, artVerdict, code, pr, remote, history, late, restarts>>

\* iteration, as execute-patch hands it down.
Iteration == 1

\* Executed again, with an answer, when the run is resumed.
Rework(t) ==
    /\ step[t] = "gate"
    /\ verdict[t] = "needs_changes"
    /\ IF Iteration >= MaxReviewIterations
       THEN Return(t, "max_iterations_reached") /\ UNCHANGED code
       ELSE Goto(t, "rereview") /\ Edit(t) /\ UNCHANGED action
    /\ UNCHANGED <<answer, verdict, deploy, artVerdict, worktree, pr, repoVars, history,
                   late, restarts>>

AfterRereview(t, newVerdict) ==
    \/ /\ newVerdict = "approve" /\ answer[t] = "none"
       /\ Suspend(t) /\ UNCHANGED action
    \/ /\ newVerdict = "approve" /\ answer[t] = "confirm"
       /\ Goto(t, "merge") /\ UNCHANGED <<action, shown>>
    \/ /\ newVerdict # "approve" \/ answer[t] = "decline"
       /\ Return(t, IF Iteration + 1 >= MaxReviewIterations
                    THEN "max_iterations_reached" ELSE "loop_back")
       /\ UNCHANGED shown

\* The verdict is read from the artifact, where an earlier one may still be.
Rereview(t) ==
    /\ step[t] = "rereview"
    /\ SubmitReview(t)
    /\ AfterRereview(t, Read(artVerdict'[t]))
    /\ UNCHANGED <<answer, verdict, deploy, code, worktree, pr, repoVars, late, restarts>>

-----------------------------------------------------------------------------
(* deploy-and-verify                                                        *)

Running == {"diagnose", "patch", "review", "gate", "rereview", "cleanup", "merge", "deploy"}

\* What every run executing in the server comes to when the server goes.
LoseRuns ==
    /\ step' = [t \in Tasks |-> IF step[t] \in Running THEN "lost" ELSE step[t]]
    /\ late' = [t \in Tasks |-> IF late[t] = "none" THEN "none" ELSE "done"]

\* execSync blocks the event loop: no other run of this server takes a step.  With
\* AutoSwap the script gets to kill the server it was called from.
DeployAndVerify(t) ==
    /\ step[t] = "deploy"
    /\ IF action[t] # "approved_and_merged"
       THEN /\ deploy' = [deploy EXCEPT ![t] = "skipped"]
            /\ Goto(t, "over") /\ UNCHANGED late
       ELSE \E swap \in AutoSwap :
            \/ /\ deploy' = [deploy EXCEPT ![t] = "deploy_failed"]
               /\ Goto(t, "over") /\ UNCHANGED late
            \/ /\ ~swap
               /\ deploy' = [deploy EXCEPT ![t] = "deployed_and_verified"]
               /\ Goto(t, "over") /\ UNCHANGED late
            \/ swap /\ LoseRuns /\ UNCHANGED deploy
    /\ UNCHANGED <<answer, verdict, action, artVars, repoVars, history, restarts>>

-----------------------------------------------------------------------------
(* Agents that throw or time out, restarts                                  *)

\* A call of an agent throws outside any handler: the run has failed.  If the call
\* timed out, the agent goes on.
AgentFails(t) ==
    /\ step[t] \in {"diagnose", "patch", "review", "gate", "rereview", "merge"}
    /\ step[t] = "gate" => verdict[t] = "needs_changes" \/ AtLocalMerge(t)
    /\ \/ UNCHANGED late
       \/ step[t] \in {"patch", "gate"} /\ ~AtLocalMerge(t) /\ late' = [late EXCEPT ![t] = "edits"]
       \/ AtLocalMerge(t) /\ late' = [late EXCEPT ![t] = "merges"]
    /\ Goto(t, "failed")
    /\ UNCHANGED <<answer, verdict, action, deploy, artVars, repoVars, history, restarts>>

LateAgent(t) ==
    /\ t \in worktree
    /\ \/ late[t] = "edits" /\ code' = [code EXCEPT ![t] = @ + 1] /\ UNCHANGED live
       \/ late[t] = "merges" /\ live' = live \cup {<<t, code[t]>>} /\ UNCHANGED code
    /\ late' = [late EXCEPT ![t] = "done"]
    /\ UNCHANGED <<runVars, artVerdict, worktree, pr, remote, history, restarts>>

\* Suspended runs are in the store of the workflow engine; nobody restarts others.
Restart ==
    /\ restarts < MaxRestarts
    /\ restarts' = restarts + 1
    /\ LoseRuns
    /\ UNCHANGED <<answer, verdict, action, deploy, artVars, repoVars, history>>

RunStep(t) ==
    \/ Diagnose(t) \/ ExecutePatch(t) \/ ExecuteReview(t)
    \/ AskToMerge(t) \/ Decline(t) \/ Block(t) \/ MergePR(t) \/ Cleanup(t) \/ LocalMerge(t)
    \/ Rework(t) \/ Rereview(t)
    \/ DeployAndVerify(t) \/ AgentFails(t)

Next ==
    \/ \E t \in Tasks :
        \/ Start(t) \/ RunStep(t) \/ LateAgent(t)
        \/ \E a \in {"confirm", "decline"} : Resume(t, a)
    \/ Restart

Spec == Init /\ [][Next]_vars

-----------------------------------------------------------------------------
(* Properties                                                               *)

Merged == live \cup remote

Gate == INSTANCE MergeGate WITH
    approved <- {t \in Tasks : approvedVer[t] # {}},
    asked <- {t \in Tasks : shown[t] # NotShown},
    merged <- {m[1] : m \in Merged}

\* On every path, fallbacks, lost answers and late agents included, a task's change
\* is merged only after a review approved it and a human who was asked confirmed.
ImplementsMergeGate == Gate!Spec

\* When the first review approves and no agent is late, what is merged is a version
\* a review approved.
FirstApprovalIsMerged ==
    \A m \in Merged :
        verdict[m[1]] = "approve" /\ late[m[1]] = "none" => m[2] \in approvedVer[m[1]]

\* "Review APPROVED after iteration ${nextIteration}. Waiting for the approval of the
\* merge." (repo-maintenance.ts:661): what the human's answer merges is what the
\* human was asked about.
ConfirmedIsMerged ==
    \A m \in Merged : late[m[1]] = "none" => m[2] = shown[m[1]]
=============================================================================
