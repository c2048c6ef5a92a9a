-------------------------- MODULE CodingTurnsProofs --------------------------
(***************************************************************************)
(* Three things about the turns of a task, for any set of tasks, turns,    *)
(* memories and tool calls.  RepoMaintenance implements MergeGate, and     *)
(* merges what a first review approved; the records of tool calls tell     *)
(* what became of the tools; and a memory is shown once.                   *)
(***************************************************************************)
EXTENDS CodingTurns, TLAPS

-----------------------------------------------------------------------------
(* The merge gate.  The invariant relates where a run is to what the human   *)
(* has been asked and has answered.                                          *)

RunSteps == Settled \cup {"idle", "diagnose", "patch", "review", "gate",
                      "rereview", "cleanup", "merge", "deploy"}

\* The part of the type invariant the argument needs; versions are not bounded here.
Shapes ==
    /\ step \in [Tasks -> RunSteps]
    /\ answer \in [Tasks -> {"none", "confirm", "decline"}]
    /\ verdict \in [Tasks -> Verdict \cup {"none"}]
    /\ artVerdict \in [Tasks -> Verdict \cup {"none"}]
    /\ code \in [Tasks -> Nat]
    /\ pr \in [Tasks -> Nat]
    /\ late \in [Tasks -> {"none", "edits", "merges", "done"}]
    /\ approvedVer \in [Tasks -> SUBSET Nat]
    /\ shown \in [Tasks -> Nat \cup {NotShown}]

\* A verdict that says approve was submitted by a review.
ApprovalsAreReal ==
    \A t \in Tasks :
        verdict[t] = "approve" \/ artVerdict[t] = "approve" \/ shown[t] # NotShown
            => approvedVer[t] # {}

\* Only a suspended run is answered, and only a confirmed one gets to a merge.
AnswersAreAsked ==
    \A t \in Tasks :
        /\ step[t] = "suspended" => shown[t] # NotShown /\ answer[t] = "none"
        /\ answer[t] # "none" => shown[t] # NotShown
        /\ step[t] \in {"cleanup", "merge"} \/ late[t] = "merges" => answer[t] = "confirm"

IInv == Shapes /\ ApprovalsAreReal /\ AnswersAreAsked

Approved == {t \in Tasks : approvedVer[t] # {}}
Asked == {t \in Tasks : shown[t] # NotShown}
MergedTasks == {m[1] : m \in Merged}

\* A review leaves the approvals as they are or adds one, and does not lose any.
LEMMA ReviewFacts ==
    ASSUME IInv, NEW t \in Tasks, SubmitReview(t)
    PROVE  /\ artVerdict' \in [Tasks -> Verdict \cup {"none"}]
           /\ approvedVer' \in [Tasks -> SUBSET Nat]
           /\ Approved' \in {Approved, Approved \cup {t}}
           /\ \A u \in Tasks : approvedVer[u] # {} => approvedVer'[u] # {}
           /\ \A u \in Tasks : artVerdict'[u] = "approve" => approvedVer'[u] # {}
  <1> USE DEF IInv, Shapes, ApprovalsAreReal, Verdict, Approved
  <1>1. CASE UNCHANGED <<artVerdict, approvedVer>>
    BY <1>1
  <1>2. ASSUME NEW v \in Verdict,
               artVerdict' = [artVerdict EXCEPT ![t] = v],
               approvedVer' = IF v = "approve"
                              THEN [approvedVer EXCEPT ![t] = @ \cup {code[t]}]
                              ELSE approvedVer
        PROVE  /\ artVerdict' \in [Tasks -> Verdict \cup {"none"}]
               /\ approvedVer' \in [Tasks -> SUBSET Nat]
               /\ Approved' \in {Approved, Approved \cup {t}}
               /\ \A u \in Tasks : approvedVer[u] # {} => approvedVer'[u] # {}
               /\ \A u \in Tasks : artVerdict'[u] = "approve" => approvedVer'[u] # {}
    <2>1. CASE v = "approve"
      <3>1. /\ approvedVer' = [approvedVer EXCEPT ![t] = approvedVer[t] \cup {code[t]}]
            /\ code[t] \in Nat
        BY <1>2, <2>1
      <3>2. approvedVer'[t] # {} /\ \A u \in Tasks \ {t} : approvedVer'[u] = approvedVer[u]
        BY <3>1
      <3>3. approvedVer' \in [Tasks -> SUBSET Nat]
        BY <3>1
      <3>4. Approved' = Approved \cup {t}
        BY <3>2
      <3> QED BY <1>2, <3>2, <3>3, <3>4
    <2>2. CASE v # "approve"
      BY <1>2, <2>2
    <2> QED BY <2>1, <2>2
  <1> QED BY <1>1, <1>2 DEF SubmitReview

\* Merging one version of a task merges that task.
LEMMA MergeFacts ==
    ASSUME NEW t \in Tasks, NEW v \in Nat,
           Merged' = Merged \/ Merged' = Merged \cup {<<t, v>>}
    PROVE  MergedTasks' \in {MergedTasks, MergedTasks \cup {t}}
  <1>1. CASE Merged' = Merged
    BY <1>1 DEF MergedTasks
  <1>2. CASE Merged' = Merged \cup {<<t, v>>}
    <2>1. MergedTasks' = {m[1] : m \in Merged \cup {<<t, v>>}}
      BY <1>2 DEF MergedTasks
    <2> DEFINE new == <<t, v>>
    <2>3. new[1] = t
      OBVIOUS
    <2>2. {m[1] : m \in Merged \cup {new}} = {m[1] : m \in Merged} \cup {t}
      <3> HIDE DEF new
      <3> QED BY <2>3
    <2> QED BY <2>1, <2>2 DEF MergedTasks
  <1> QED BY <1>1, <1>2

\* What MergeGate sees of the state.
View == <<Approved, Asked, answer, MergedTasks>>

\* The instance's variables and steps, in terms of the view.
LEMMA GateSteps ==
    ASSUME NEW t \in Tasks
    PROVE  /\ UNCHANGED View => [Gate!Next]_(Gate!gateVars)
           /\ (/\ Approved' \in {Approved, Approved \cup {t}}
               /\ UNCHANGED <<Asked, answer, MergedTasks>>) => [Gate!Next]_(Gate!gateVars)
           /\ (/\ Approved' \in {Approved, Approved \cup {t}}
               /\ t \in Approved'
               /\ Asked' = Asked \cup {t}
               /\ UNCHANGED <<answer, MergedTasks>>) => [Gate!Next]_(Gate!gateVars)
           /\ (/\ answer[t] = "confirm"
               /\ MergedTasks' \in {MergedTasks, MergedTasks \cup {t}}
               /\ UNCHANGED <<Approved, Asked, answer>>) => [Gate!Next]_(Gate!gateVars)
           /\ \A a \in {"confirm", "decline"} :
               (/\ t \in Asked
                /\ answer[t] = "none"
                /\ answer' = [answer EXCEPT ![t] = a]
                /\ UNCHANGED <<Approved, Asked, MergedTasks>>) => [Gate!Next]_(Gate!gateVars)
  BY DEF View, Approved, Asked, MergedTasks, Gate!Next, Gate!gateVars, Gate!Approve, Gate!Ask,
         Gate!Answer, Gate!Merge

\* Steps that neither review, ask, answer nor merge.
Quiet(t) ==
    \/ Start(t) \/ Diagnose(t) \/ ExecutePatch(t) \/ Decline(t) \/ Block(t) \/ Cleanup(t)
    \/ Rework(t) \/ DeployAndVerify(t) \/ AgentFails(t)

\* A quiet step is invisible to MergeGate.
LEMMA QuietIsInvisible ==
    ASSUME NEW t \in Tasks, Quiet(t)
    PROVE  UNCHANGED <<answer, approvedVer, shown, repoVars, artVerdict, verdict>> /\ UNCHANGED View
  <1>1. UNCHANGED <<answer, approvedVer, shown, live, remote, artVerdict, verdict>>
    BY DEF Quiet, Start, Diagnose, ExecutePatch, Decline, Block, Cleanup, Rework, DeployAndVerify,
           AgentFails, artVars, repoVars, history
  <1> QED BY <1>1 DEF View, Approved, Asked, MergedTasks, Merged, repoVars

\* A quiet step keeps the invariant.
LEMMA QuietKeeps ==
    ASSUME IInv, NEW t \in Tasks, Quiet(t)
    PROVE  IInv'
  <1>1. UNCHANGED <<answer, approvedVer, shown, repoVars, artVerdict, verdict>>
    BY QuietIsInvisible
  <1>2. ApprovalsAreReal'
    BY <1>1 DEF IInv, ApprovalsAreReal
  <1>3. Shapes'
    <2> USE DEF IInv, Shapes, RunSteps, Settled
    <2>1. CASE Start(t) \/ Diagnose(t) \/ Decline(t) \/ Block(t)
      BY <2>1, <1>1 DEF Start, Diagnose, Decline, Block, Goto, Return, artVars
    <2>2. CASE ExecutePatch(t)
      BY <2>2, <1>1 DEF ExecutePatch, Goto
    <2>3. CASE Cleanup(t)
      BY <2>3, <1>1 DEF Cleanup, Goto, Return
    <2>4. CASE Rework(t)
      BY <2>4, <1>1 DEF Rework, Goto, Return, Edit
    <2>5. CASE DeployAndVerify(t)
      BY <2>5, <1>1 DEF DeployAndVerify, Goto, LoseRuns, artVars
    <2>6. CASE AgentFails(t)
      BY <2>6, <1>1 DEF AgentFails, Goto, artVars
    <2> QED BY <2>1, <2>2, <2>3, <2>4, <2>5, <2>6 DEF Quiet
  <1>4. AnswersAreAsked'
    <2> USE DEF IInv, Shapes, AnswersAreAsked
    <2>1. CASE Start(t) \/ Diagnose(t) \/ Decline(t) \/ Block(t)
      BY <2>1, <1>1 DEF Start, Diagnose, Decline, Block, Goto, Return
    <2>2. CASE ExecutePatch(t)
      BY <2>2, <1>1 DEF ExecutePatch, Goto
    <2>3. CASE Cleanup(t)
      BY <2>3, <1>1 DEF Cleanup, Goto, Return
    <2>4. CASE Rework(t)
      BY <2>4, <1>1 DEF Rework, Goto, Return
    <2>5. CASE DeployAndVerify(t)
      BY <2>5, <1>1 DEF DeployAndVerify, Goto, LoseRuns
    <2>6. CASE AgentFails(t)
      BY <2>6, <1>1 DEF AgentFails, AtLocalMerge, Goto
    <2> QED BY <2>1, <2>2, <2>3, <2>4, <2>5, <2>6 DEF Quiet
  <1> QED BY <1>2, <1>3, <1>4 DEF IInv

\* The first review only adds approvals.
LEMMA FirstReview ==
    ASSUME IInv, NEW t \in Tasks, ExecuteReview(t)
    PROVE  IInv' /\ [Gate!Next]_(Gate!gateVars)
  <1>1. /\ SubmitReview(t)
        /\ step[t] = "review"
        /\ step' = [step EXCEPT ![t] = "gate"]
        /\ verdict' = [verdict EXCEPT ![t] = Read(artVerdict'[t])]
        /\ UNCHANGED <<answer, code, pr, live, remote, shown, late>>
    BY DEF ExecuteReview, Goto, repoVars
  <1>2. /\ artVerdict' \in [Tasks -> Verdict \cup {"none"}]
        /\ approvedVer' \in [Tasks -> SUBSET Nat]
        /\ Approved' \in {Approved, Approved \cup {t}}
        /\ \A u \in Tasks : approvedVer[u] # {} => approvedVer'[u] # {}
        /\ \A u \in Tasks : artVerdict'[u] = "approve" => approvedVer'[u] # {}
    BY <1>1, ReviewFacts
  <1>3. /\ Read(artVerdict'[t]) \in Verdict
        /\ Read(artVerdict'[t]) = "approve" => artVerdict'[t] = "approve"
    BY <1>2 DEF Read, Verdict
  <1>4. Shapes'
    BY <1>1, <1>2, <1>3 DEF IInv, Shapes, RunSteps
  <1>5. ApprovalsAreReal'
    BY <1>1, <1>2, <1>3 DEF IInv, Shapes, ApprovalsAreReal
  <1>6. AnswersAreAsked'
    BY <1>1 DEF IInv, Shapes, AnswersAreAsked
  <1>7. UNCHANGED <<Asked, answer, MergedTasks>>
    BY <1>1 DEF Asked, MergedTasks, Merged
  <1> QED BY <1>2, <1>4, <1>5, <1>6, <1>7, GateSteps DEF IInv

\* The second review may add an approval and ask in one step.
LEMMA SecondReview ==
    ASSUME IInv, NEW t \in Tasks, Rereview(t)
    PROVE  IInv' /\ [Gate!Next]_(Gate!gateVars)
  <1>1. /\ SubmitReview(t)
        /\ step[t] = "rereview"
        /\ AfterRereview(t, Read(artVerdict'[t]))
        /\ UNCHANGED <<answer, verdict, code, pr, live, remote, late>>
    BY DEF Rereview, repoVars
  <1>2. /\ artVerdict' \in [Tasks -> Verdict \cup {"none"}]
        /\ approvedVer' \in [Tasks -> SUBSET Nat]
        /\ Approved' \in {Approved, Approved \cup {t}}
        /\ \A u \in Tasks : approvedVer[u] # {} => approvedVer'[u] # {}
        /\ \A u \in Tasks : artVerdict'[u] = "approve" => approvedVer'[u] # {}
    BY <1>1, ReviewFacts
  <1>3. Read(artVerdict'[t]) = "approve" => artVerdict'[t] = "approve"
    BY DEF Read
  <1>4. UNCHANGED <<answer, MergedTasks>>
    BY <1>1 DEF MergedTasks, Merged
  <1>5. CASE /\ Read(artVerdict'[t]) = "approve" /\ answer[t] = "none"
             /\ step' = [step EXCEPT ![t] = "suspended"]
             /\ shown' = [shown EXCEPT ![t] = code[t]]
    <2>1. Shapes' /\ shown'[t] # NotShown /\ \A u \in Tasks \ {t} : shown'[u] = shown[u]
      BY <1>1, <1>2, <1>5 DEF IInv, Shapes, RunSteps, Settled, NotShown
    <2>2. ApprovalsAreReal'
      BY <1>1, <1>2, <1>3, <1>5, <2>1 DEF IInv, ApprovalsAreReal
    <2>3. AnswersAreAsked'
      BY <1>1, <1>5, <2>1 DEF IInv, Shapes, AnswersAreAsked
    <2>4. Asked' = Asked \cup {t} /\ t \in Approved'
      BY <2>1, <1>2, <1>3, <1>5 DEF Asked, Approved
    <2> QED BY <1>2, <1>4, <2>1, <2>2, <2>3, <2>4, GateSteps DEF IInv
  <1>6. CASE /\ \/ answer[t] = "confirm" /\ step' = [step EXCEPT ![t] = "merge"]
                \/ step' = [step EXCEPT ![t] = "deploy"]
             /\ shown' = shown
    <2>1. Shapes'
      BY <1>1, <1>2, <1>6 DEF IInv, Shapes, RunSteps, Settled
    <2>2. ApprovalsAreReal'
      BY <1>1, <1>2, <1>6 DEF IInv, ApprovalsAreReal
    <2>3. AnswersAreAsked'
      BY <1>1, <1>6 DEF IInv, Shapes, AnswersAreAsked
    <2>4. Asked' = Asked
      BY <1>6 DEF Asked
    <2> QED BY <1>2, <1>4, <2>1, <2>2, <2>3, <2>4, GateSteps DEF IInv
  <1> QED BY <1>1, <1>5, <1>6 DEF AfterRereview, Suspend, Goto, Return

\* The human is asked about an approved task, and answers.
LEMMA AskAndAnswer ==
    ASSUME IInv, NEW t \in Tasks,
           AskToMerge(t) \/ \E a \in {"confirm", "decline"} : Resume(t, a)
    PROVE  IInv' /\ [Gate!Next]_(Gate!gateVars)
  <1>1. CASE AskToMerge(t)
    <2>1. /\ verdict[t] = "approve" /\ answer[t] = "none"
          /\ step' = [step EXCEPT ![t] = "suspended"]
          /\ shown' = [shown EXCEPT ![t] = code[t]]
          /\ pr' = pr \/ pr' = [pr EXCEPT ![t] = code[t]]
          /\ UNCHANGED <<answer, verdict, artVerdict, code, live, remote, approvedVer, late>>
      BY <1>1 DEF AskToMerge, Suspend, Goto, repoVars
    <2>2. Shapes'
      BY <2>1 DEF IInv, Shapes, RunSteps, Settled
    <2>3. shown'[t] # NotShown /\ \A u \in Tasks \ {t} : shown'[u] = shown[u]
      BY <2>1 DEF IInv, Shapes, NotShown
    <2>4. approvedVer[t] # {}
      BY <2>1 DEF IInv, ApprovalsAreReal
    <2>5. ApprovalsAreReal'
      BY <2>1, <2>3, <2>4 DEF IInv, ApprovalsAreReal
    <2>6. AnswersAreAsked'
      BY <2>1, <2>3 DEF IInv, Shapes, AnswersAreAsked
    <2>7. /\ Approved' = Approved /\ t \in Approved'
          /\ Asked' = Asked \cup {t}
          /\ UNCHANGED <<answer, MergedTasks>>
      BY <2>1, <2>3, <2>4 DEF Approved, Asked, MergedTasks, Merged
    <2> QED BY <2>2, <2>5, <2>6, <2>7, GateSteps DEF IInv
  <1>2. ASSUME NEW a \in {"confirm", "decline"}, Resume(t, a)
        PROVE  IInv' /\ [Gate!Next]_(Gate!gateVars)
    <2>1. /\ step[t] = "suspended"
          /\ step' = [step EXCEPT ![t] = "gate"]
          /\ answer' = [answer EXCEPT ![t] = a]
          /\ UNCHANGED <<verdict, artVerdict, code, pr, live, remote, approvedVer, shown, late>>
      BY <1>2 DEF Resume, Goto, artVars, repoVars, history
    <2>2. shown[t] # NotShown /\ answer[t] = "none"
      BY <2>1 DEF IInv, AnswersAreAsked
    <2>3. Shapes'
      BY <2>1 DEF IInv, Shapes, RunSteps
    <2>4. ApprovalsAreReal'
      BY <2>1 DEF IInv, ApprovalsAreReal
    <2>5. AnswersAreAsked'
      BY <2>1, <2>2 DEF IInv, Shapes, AnswersAreAsked
    <2>6. t \in Asked /\ UNCHANGED <<Approved, Asked, MergedTasks>>
      BY <2>1, <2>2 DEF Approved, Asked, MergedTasks, Merged
    <2> QED BY <2>1, <2>2, <2>3, <2>4, <2>5, <2>6, GateSteps DEF IInv
  <1> QED BY <1>1, <1>2

\* Whatever merges, merges a confirmed task.
LEMMA Merging ==
    ASSUME IInv, NEW t \in Tasks, MergePR(t) \/ LocalMerge(t) \/ LateAgent(t)
    PROVE  IInv' /\ [Gate!Next]_(Gate!gateVars)
  <1>1. UNCHANGED <<answer, verdict, artVerdict, pr, approvedVer, shown>>
    BY DEF MergePR, LocalMerge, LateAgent, artVars, runVars, history
  <1>2. ApprovalsAreReal' /\ UNCHANGED <<Approved, Asked>>
    BY <1>1 DEF IInv, ApprovalsAreReal, Approved, Asked
  <1>3. CASE MergePR(t)
    <2>1. /\ answer[t] = "confirm"
          /\ \E s \in {"deploy", "cleanup", "merge"} : step' = [step EXCEPT ![t] = s]
          /\ Merged' = Merged \/ Merged' = Merged \cup {<<t, pr[t]>>}
          /\ UNCHANGED <<code, late>>
      BY <1>3 DEF MergePR, Return, Goto, Merged, artVars
    <2>2. Shapes' /\ AnswersAreAsked'
      BY <1>1, <2>1 DEF IInv, Shapes, RunSteps, AnswersAreAsked
    <2>3. MergedTasks' \in {MergedTasks, MergedTasks \cup {t}}
      BY <2>1, MergeFacts DEF IInv, Shapes
    <2> QED BY <1>1, <1>2, <2>1, <2>2, <2>3, GateSteps DEF IInv
  <1>4. CASE LocalMerge(t)
    <2>1. /\ answer[t] = "confirm"
          /\ step' = [step EXCEPT ![t] = "deploy"]
          /\ live' \in {live} \cup {live \cup {<<u, code[u]>>} : u \in worktree \cap {t}}
          /\ UNCHANGED <<code, late, remote>>
      BY <1>4 DEF LocalMerge, AtLocalMerge, Return, Goto, IInv, AnswersAreAsked
    <2>2. Merged' = Merged \/ Merged' = Merged \cup {<<t, code[t]>>}
      BY <2>1 DEF Merged
    <2>3. Shapes' /\ AnswersAreAsked'
      BY <1>1, <2>1 DEF IInv, Shapes, RunSteps, AnswersAreAsked
    <2>4. MergedTasks' \in {MergedTasks, MergedTasks \cup {t}}
      BY <2>2, MergeFacts DEF IInv, Shapes
    <2> QED BY <1>1, <1>2, <2>1, <2>3, <2>4, GateSteps DEF IInv
  <1>5. CASE LateAgent(t) /\ late[t] = "edits" /\ live' = live
    <2>1. /\ step' = step /\ remote' = remote
          /\ late' = [late EXCEPT ![t] = "done"]
          /\ code' \in [Tasks -> Nat]
      BY <1>5 DEF LateAgent, runVars, IInv, Shapes
    <2>2. Shapes' /\ AnswersAreAsked'
      BY <1>1, <2>1 DEF IInv, Shapes, AnswersAreAsked
    <2>3. UNCHANGED View
      BY <1>1, <1>2, <1>5, <2>1 DEF View, MergedTasks, Merged
    <2> QED BY <1>2, <2>2, <2>3, GateSteps DEF IInv
  <1>6. CASE LateAgent(t) /\ late[t] = "merges" /\ live' = live \cup {<<t, code[t]>>}
    <2>1. /\ answer[t] = "confirm" /\ step' = step
          /\ late' = [late EXCEPT ![t] = "done"]
          /\ code' = code
          /\ Merged' = Merged \cup {<<t, code[t]>>}
      BY <1>6 DEF LateAgent, runVars, IInv, AnswersAreAsked, Merged
    <2>2. Shapes' /\ AnswersAreAsked'
      BY <1>1, <2>1 DEF IInv, Shapes, AnswersAreAsked
    <2>3. MergedTasks' \in {MergedTasks, MergedTasks \cup {t}}
      BY <2>1, MergeFacts DEF IInv, Shapes
    <2> QED BY <1>1, <1>2, <2>1, <2>2, <2>3, GateSteps DEF IInv
  <1> QED BY <1>3, <1>4, <1>5, <1>6 DEF LateAgent

\* A restart loses runs and nothing MergeGate sees.
LEMMA RestartKeeps ==
    ASSUME IInv, Restart
    PROVE  IInv' /\ UNCHANGED View
  <1>1. /\ step' = [t \in Tasks |-> IF step[t] \in Running THEN "lost" ELSE step[t]]
        /\ late' = [t \in Tasks |-> IF late[t] = "none" THEN "none" ELSE "done"]
        /\ UNCHANGED <<answer, verdict, artVerdict, code, pr, live, remote, approvedVer, shown>>
    BY DEF Restart, LoseRuns, artVars, repoVars, history
  <1>2. Shapes' /\ ApprovalsAreReal' /\ AnswersAreAsked'
    BY <1>1 DEF IInv, Shapes, RunSteps, Settled, ApprovalsAreReal, AnswersAreAsked
  <1> QED BY <1>1, <1>2 DEF IInv, View, Approved, Asked, MergedTasks, Merged

\* The invariant holds at first.
LEMMA GateInit == Init => IInv
  BY DEF Init, IInv, Shapes, RunSteps, Settled, ApprovalsAreReal, AnswersAreAsked, NotShown

\* Every step keeps the invariant and is one of MergeGate, or none.
LEMMA GateKeeps ==
    ASSUME IInv, [Next]_vars
    PROVE  IInv' /\ [Gate!Next]_(Gate!gateVars)
  <1>1. ASSUME NEW t \in Tasks, Quiet(t)
        PROVE  IInv' /\ [Gate!Next]_(Gate!gateVars)
    BY <1>1, QuietKeeps, QuietIsInvisible, GateSteps
  <1>2. CASE Restart
    BY <1>2, RestartKeeps DEF View, Approved, Asked, MergedTasks, Gate!gateVars
  <1>3. CASE UNCHANGED vars
    <2>1. IInv'
      BY <1>3 DEF vars, runVars, artVars, history, IInv, Shapes, ApprovalsAreReal,
                  AnswersAreAsked
    <2>2. UNCHANGED Gate!gateVars
      BY <1>3 DEF vars, runVars, repoVars, history, Gate!gateVars, Merged
    <2> QED BY <2>1, <2>2
  <1> QED BY <1>1, <1>2, <1>3, FirstReview, SecondReview, AskAndAnswer, Merging
          DEF Next, RunStep, Quiet

\* The workflow implements the merge gate: on every path a task's change is merged
\* only after an approval and a confirmation.
THEOREM GateRefinement == Spec => ImplementsMergeGate
  <1>1. Init => Gate!Init
    BY DEF Init, Gate!Init, Merged
  <1> QED BY <1>1, GateInit, GateKeeps, PTL DEF Spec, ImplementsMergeGate, Gate!Spec

-----------------------------------------------------------------------------
(* What is merged, as long as no agent is late.  Until the first review a    *)
(* task has no verdict, no pull request and nothing merged, so that the      *)
(* first approval is one of what is in the worktree; and from then on the    *)
(* worktree does not change.                                                 *)

BeforeReview == {"idle", "diagnose", "patch", "review"}

Untouched(t) ==
    /\ answer[t] = "none" /\ verdict[t] = "none" /\ artVerdict[t] = "none"
    /\ pr[t] = 0
    /\ \A m \in Merged : m[1] # t

CurrentIsApproved(t) ==
    verdict[t] = "approve" /\ late[t] = "none"
        => code[t] \in approvedVer[t] /\ pr[t] \in {0, code[t]}

VersionInv ==
    /\ IInv
    /\ Merged \subseteq Tasks \X Nat
    /\ \A t \in Tasks : step[t] \in BeforeReview => Untouched(t)
    /\ \A t \in Tasks : CurrentIsApproved(t)
    /\ FirstApprovalIsMerged

\* What a step of one task may do to the versions.
LEMMA OneTaskMoves ==
    ASSUME VersionInv, IInv', NEW t \in Tasks,
           \A u \in Tasks \ {t} :
               /\ step'[u] = step[u] /\ answer'[u] = answer[u] /\ verdict'[u] = verdict[u]
               /\ artVerdict'[u] = artVerdict[u] /\ pr'[u] = pr[u] /\ code'[u] = code[u]
               /\ late'[u] = late[u] /\ approvedVer'[u] = approvedVer[u],
           \/ Merged' = Merged
           \/ \E v \in Nat :
               /\ Merged' = Merged \cup {<<t, v>>}
               /\ step'[t] \notin BeforeReview
               /\ verdict'[t] = "approve" /\ late'[t] = "none" => v \in approvedVer'[t],
           step'[t] \in BeforeReview =>
               /\ step[t] \in BeforeReview
               /\ answer'[t] = answer[t] /\ verdict'[t] = verdict[t]
               /\ artVerdict'[t] = artVerdict[t] /\ pr'[t] = pr[t],
           verdict'[t] = "approve" => verdict[t] = "approve" \/ step[t] \in BeforeReview,
           late'[t] = "none" => late[t] = "none",
           approvedVer[t] \subseteq approvedVer'[t],
           CurrentIsApproved(t)'
    PROVE  VersionInv'
  <1>1. \A m \in Merged : m \in Tasks \X Nat
    BY DEF VersionInv
  <1>2. Merged' \subseteq Tasks \X Nat
    BY <1>1
  <1>3. \A u \in Tasks : CurrentIsApproved(u)'
    BY DEF VersionInv, CurrentIsApproved
  <1>4. \A u \in Tasks : step'[u] \in BeforeReview => Untouched(u)'
    <2> SUFFICES ASSUME NEW u \in Tasks, step'[u] \in BeforeReview
                 PROVE  Untouched(u)'
      OBVIOUS
    <2>1. step[u] \in BeforeReview /\ Untouched(u)
      BY DEF VersionInv
    <2>2. \A m \in Merged' : m[1] # u
      BY <2>1 DEF Untouched
    <2> QED BY <2>1, <2>2 DEF Untouched
  <1>5. FirstApprovalIsMerged'
    <2> SUFFICES ASSUME NEW m \in Merged', verdict'[m[1]] = "approve", late'[m[1]] = "none"
                 PROVE  m[2] \in approvedVer'[m[1]]
      BY DEF FirstApprovalIsMerged
    <2>1. CASE m \in Merged
      <3>1. m[1] \in Tasks
        BY <1>1, <2>1
      <3>2. m[1] = t => step[t] \notin BeforeReview
        BY <2>1 DEF VersionInv, Untouched
      <3>3. verdict[m[1]] = "approve" /\ late[m[1]] = "none"
        BY <3>1, <3>2
      <3>4. m[2] \in approvedVer[m[1]]
        BY <2>1, <3>3 DEF VersionInv, FirstApprovalIsMerged
      <3> QED BY <3>1, <3>4
    <2>2. CASE m \notin Merged
      BY <2>2
    <2> QED BY <2>1, <2>2
  <1> QED BY <1>2, <1>3, <1>4, <1>5 DEF VersionInv

\* The verdict that becomes the run's is the one this review has just submitted.
LEMMA FirstReviewVersions ==
    ASSUME VersionInv, IInv', NEW t \in Tasks, ExecuteReview(t)
    PROVE  VersionInv'
  <1>1. /\ SubmitReview(t)
        /\ step[t] = "review"
        /\ step' = [step EXCEPT ![t] = "gate"]
        /\ verdict' = [verdict EXCEPT ![t] = Read(artVerdict'[t])]
        /\ UNCHANGED <<answer, code, pr, live, remote, late>>
    BY DEF ExecuteReview, Goto, repoVars
  <1>2. step'[t] = "gate" /\ step[t] \in BeforeReview /\ Untouched(t)
    BY <1>1 DEF VersionInv, IInv, Shapes, BeforeReview
  <1>3. Merged' = Merged
    BY <1>1 DEF Merged
  <1>4. /\ \A u \in Tasks \ {t} :
            artVerdict'[u] = artVerdict[u] /\ approvedVer'[u] = approvedVer[u]
        /\ approvedVer[t] \subseteq approvedVer'[t]
        /\ artVerdict'[t] = "approve" => code[t] \in approvedVer'[t]
    BY <1>1, <1>2 DEF SubmitReview, Untouched, VersionInv, IInv, Shapes
  <1>5. verdict'[t] = "approve" => artVerdict'[t] = "approve"
    BY <1>1 DEF Read, VersionInv, IInv, Shapes
  <1>6. CurrentIsApproved(t)'
    BY <1>1, <1>2, <1>4, <1>5 DEF CurrentIsApproved, Untouched
  <1>7. step'[t] \notin BeforeReview
    BY <1>2 DEF BeforeReview
  <1>8. \A u \in Tasks \ {t} :
            /\ step'[u] = step[u] /\ answer'[u] = answer[u] /\ verdict'[u] = verdict[u]
            /\ pr'[u] = pr[u] /\ code'[u] = code[u] /\ late'[u] = late[u]
    BY <1>1 DEF VersionInv, IInv, Shapes
  <1> QED BY <1>1, <1>2, <1>3, <1>4, <1>6, <1>7, <1>8, OneTaskMoves

\* A second review only adds approvals.
LEMMA SecondReviewVersions ==
    ASSUME VersionInv, IInv', NEW t \in Tasks, Rereview(t)
    PROVE  VersionInv'
  <1>1. /\ SubmitReview(t)
        /\ step[t] = "rereview"
        /\ step' \in {[step EXCEPT ![t] = s] : s \in {"suspended", "merge", "deploy"}}
        /\ UNCHANGED <<answer, verdict, code, pr, live, remote, late>>
    BY DEF Rereview, AfterRereview, Suspend, Goto, Return, repoVars
  <1>2. /\ \A u \in Tasks \ {t} :
            /\ step'[u] = step[u]
            /\ artVerdict'[u] = artVerdict[u] /\ approvedVer'[u] = approvedVer[u]
        /\ approvedVer[t] \subseteq approvedVer'[t]
        /\ step'[t] \notin BeforeReview
    BY <1>1 DEF SubmitReview, BeforeReview, VersionInv, IInv, Shapes
  <1>3. Merged' = Merged
    BY <1>1 DEF Merged
  <1>4. CurrentIsApproved(t)'
    BY <1>1, <1>2 DEF CurrentIsApproved, VersionInv
  <1> QED BY <1>1, <1>2, <1>3, <1>4, OneTaskMoves

\* Whoever merges, merges what is in the worktree or in the pull request.
LEMMA MergingVersions ==
    ASSUME VersionInv, IInv', NEW t \in Tasks, MergePR(t) \/ LocalMerge(t)
    PROVE  VersionInv'
  <1>1. /\ UNCHANGED <<answer, verdict, artVerdict, pr, approvedVer, code, late>>
        /\ step' \in {[step EXCEPT ![t] = s] : s \in {"deploy", "cleanup", "merge"}}
    BY DEF MergePR, LocalMerge, Goto, Return, artVars, history
  <1>2. /\ \A u \in Tasks \ {t} : step'[u] = step[u]
        /\ step'[t] \notin BeforeReview
    BY <1>1 DEF BeforeReview, VersionInv, IInv, Shapes
  <1>3. CurrentIsApproved(t)'
    BY <1>1 DEF CurrentIsApproved, VersionInv
  <1>4. CASE MergePR(t)
    <2>1. /\ pr[t] # 0 /\ pr[t] \in Nat
          /\ Merged' = Merged \/ Merged' = Merged \cup {<<t, pr[t]>>}
      BY <1>4 DEF MergePR, HasPR, Merged, VersionInv, IInv, Shapes
    <2>2. verdict[t] = "approve" /\ late[t] = "none" => pr[t] \in approvedVer[t]
      BY <2>1 DEF VersionInv, CurrentIsApproved
    <2> QED BY <1>1, <1>2, <1>3, <2>1, <2>2, OneTaskMoves
  <1>5. CASE LocalMerge(t)
    <2>1. /\ code[t] \in Nat
          /\ Merged' = Merged \/ Merged' = Merged \cup {<<t, code[t]>>}
      BY <1>5 DEF LocalMerge, Merged, VersionInv, IInv, Shapes
    <2>2. verdict[t] = "approve" /\ late[t] = "none" => code[t] \in approvedVer[t]
      BY DEF VersionInv, CurrentIsApproved
    <2> QED BY <1>1, <1>2, <1>3, <2>1, <2>2, OneTaskMoves
  <1> QED BY <1>4, <1>5

\* An agent that is late edits or merges what it likes.
LEMMA LateAgentVersions ==
    ASSUME VersionInv, IInv', NEW t \in Tasks, LateAgent(t)
    PROVE  VersionInv'
  <1>1. /\ UNCHANGED <<step, answer, verdict, artVerdict, pr, approvedVer>>
        /\ late' = [late EXCEPT ![t] = "done"]
        /\ late[t] \in {"edits", "merges"}
        /\ \A u \in Tasks \ {t} : code'[u] = code[u] /\ late'[u] = late[u]
        /\ late'[t] = "done"
    BY DEF LateAgent, runVars, history, VersionInv, IInv, Shapes
  <1>2. CurrentIsApproved(t)'
    BY <1>1 DEF CurrentIsApproved
  <1>3. CASE late[t] = "edits"
    <2>1. Merged' = Merged
      BY <1>3 DEF LateAgent, Merged
    <2> QED BY <1>1, <1>2, <2>1, OneTaskMoves
  <1>4. CASE late[t] = "merges"
    <2>1. /\ Merged' = Merged \cup {<<t, code[t]>>}
          /\ code[t] \in Nat
          /\ answer[t] = "confirm"
      BY <1>4 DEF LateAgent, Merged, VersionInv, IInv, Shapes, AnswersAreAsked
    <2>2. step'[t] \notin BeforeReview
      BY <1>1, <2>1 DEF VersionInv, Untouched
    <2> QED BY <1>1, <1>2, <2>1, <2>2, OneTaskMoves
  <1> QED BY <1>1, <1>3, <1>4

\* The worktree is written before the first review, or because changes were asked for.
LEMMA QuietVersions ==
    ASSUME VersionInv, IInv', NEW t \in Tasks, Quiet(t), ~DeployAndVerify(t)
    PROVE  VersionInv'
  <1>1. UNCHANGED <<answer, approvedVer, repoVars, artVerdict, verdict>>
    BY QuietIsInvisible
  <1>2. Merged' = Merged
    BY <1>1 DEF Merged, repoVars
  <1>3. /\ pr' = pr
        /\ \A u \in Tasks \ {t} : step'[u] = step[u] /\ code'[u] = code[u] /\ late'[u] = late[u]
        /\ step'[t] \in BeforeReview => step[t] \in BeforeReview
        /\ late'[t] = "none" => late[t] = "none"
    <2> USE DEF VersionInv, IInv, Shapes, BeforeReview
    <2>1. CASE Start(t) \/ Diagnose(t) \/ Decline(t) \/ Block(t)
      BY <2>1 DEF Start, Diagnose, Decline, Block, Goto, Return, artVars
    <2>2. CASE ExecutePatch(t)
      BY <2>2 DEF ExecutePatch, Goto
    <2>3. CASE Cleanup(t)
      BY <2>3 DEF Cleanup, Goto, Return
    <2>4. CASE Rework(t)
      BY <2>4 DEF Rework, Goto, Return, Edit
    <2>5. CASE AgentFails(t)
      BY <2>5 DEF AgentFails, Goto, artVars
    <2> QED BY <2>1, <2>2, <2>3, <2>4, <2>5 DEF Quiet
  <1>4. CASE verdict[t] = "approve"
    <2>1. code'[t] = code[t]
      <3>1. step[t] \notin BeforeReview
        BY <1>4 DEF VersionInv, Untouched
      <3> QED BY <1>4, <3>1 DEF Quiet, Start, Diagnose, ExecutePatch, Decline, Block, Cleanup,
                                Rework, AgentFails, artVars, BeforeReview
    <2>2. CurrentIsApproved(t)'
      BY <1>1, <1>3, <2>1 DEF CurrentIsApproved, VersionInv
    <2> QED BY <1>1, <1>2, <1>3, <2>2, OneTaskMoves
  <1>5. CASE verdict[t] # "approve"
    <2>1. CurrentIsApproved(t)'
      BY <1>1, <1>5 DEF CurrentIsApproved
    <2> QED BY <1>1, <1>2, <1>3, <1>5, <2>1, OneTaskMoves
  <1> QED BY <1>4, <1>5

\* Asking, answering and what ends runs leave the versions as they are.
LEMMA OtherVersions ==
    ASSUME VersionInv, IInv', NEW t \in Tasks,
           \/ AskToMerge(t)
           \/ \E a \in {"confirm", "decline"} : Resume(t, a)
           \/ DeployAndVerify(t)
           \/ Restart
    PROVE  VersionInv'
  <1>1. CASE AskToMerge(t)
    <2>1. /\ verdict[t] = "approve"
          /\ step' = [step EXCEPT ![t] = "suspended"]
          /\ pr' = pr \/ pr' = [pr EXCEPT ![t] = code[t]]
          /\ UNCHANGED <<answer, verdict, artVerdict, code, live, remote, approvedVer, late>>
      BY <1>1 DEF AskToMerge, Suspend, Goto, repoVars
    <2>2. /\ \A u \in Tasks \ {t} : step'[u] = step[u] /\ pr'[u] = pr[u]
          /\ step'[t] \notin BeforeReview
          /\ pr'[t] \in {pr[t], code[t]}
          /\ Merged' = Merged
      BY <2>1 DEF BeforeReview, Merged, VersionInv, IInv, Shapes
    <2>3. CurrentIsApproved(t)'
      BY <2>1, <2>2 DEF CurrentIsApproved, VersionInv
    <2> QED BY <2>1, <2>2, <2>3, OneTaskMoves
  <1>2. ASSUME NEW a \in {"confirm", "decline"}, Resume(t, a)
        PROVE  VersionInv'
    <2>1. /\ step' = [step EXCEPT ![t] = "gate"]
          /\ answer' = [answer EXCEPT ![t] = a]
          /\ UNCHANGED <<verdict, artVerdict, code, pr, live, remote, approvedVer, late>>
      BY <1>2 DEF Resume, Goto, artVars, repoVars, history
    <2>2. /\ \A u \in Tasks \ {t} : step'[u] = step[u] /\ answer'[u] = answer[u]
          /\ step'[t] \notin BeforeReview
          /\ Merged' = Merged
      BY <2>1 DEF BeforeReview, Merged, VersionInv, IInv, Shapes
    <2>3. CurrentIsApproved(t)'
      BY <2>1 DEF CurrentIsApproved, VersionInv
    <2> QED BY <2>1, <2>2, <2>3, OneTaskMoves
  <1>3. CASE DeployAndVerify(t) \/ Restart
    <2>1. /\ UNCHANGED <<answer, verdict, artVerdict, code, pr, live, remote, approvedVer>>
          /\ \A u \in Tasks : step'[u] = step[u] \/ step'[u] \in {"over", "lost"}
          /\ \A u \in Tasks : late'[u] = "none" => late[u] = "none"
      BY <1>3 DEF DeployAndVerify, Restart, LoseRuns, Goto, artVars, repoVars, history, VersionInv,
                  IInv, Shapes
    <2>2. Merged' = Merged
      BY <2>1 DEF Merged
    <2>3. \A u \in Tasks : CurrentIsApproved(u)'
      BY <2>1 DEF CurrentIsApproved, VersionInv
    <2>4. \A u \in Tasks : step'[u] \in BeforeReview => Untouched(u)'
      BY <2>1, <2>2 DEF Untouched, BeforeReview, VersionInv
    <2>5. FirstApprovalIsMerged'
      BY <2>1, <2>2 DEF FirstApprovalIsMerged, VersionInv
    <2> QED BY <2>2, <2>3, <2>4, <2>5 DEF VersionInv
  <1> QED BY <1>1, <1>2, <1>3

\* When the first review approves and no agent is late, what is merged is a version that
\* a review approved.
THEOREM ApprovedIsMerged == Spec => []FirstApprovalIsMerged
  <1>1. Init => VersionInv
    BY GateInit DEF Init, VersionInv, Merged, BeforeReview, Untouched, CurrentIsApproved,
                    FirstApprovalIsMerged
  <1>2. ASSUME VersionInv, [Next]_vars
        PROVE  VersionInv'
    <2>1. IInv'
      BY <1>2, GateKeeps DEF VersionInv
    <2>2. ASSUME NEW t \in Tasks, Quiet(t)
          PROVE  VersionInv'
      BY <1>2, <2>1, <2>2, QuietVersions, OtherVersions
    <2>3. CASE Restart
      <3>1. CASE Tasks = {}
        BY <1>2, <2>1, <2>3, <3>1 DEF VersionInv, FirstApprovalIsMerged, Restart, repoVars, Merged
      <3>2. CASE Tasks # {}
        BY <1>2, <2>1, <2>3, <3>2, OtherVersions
      <3> QED BY <3>1, <3>2
    <2>4. CASE UNCHANGED vars
      BY <1>2, <2>1, <2>4 DEF vars, runVars, artVars, repoVars, history, VersionInv, Merged,
                              Untouched, CurrentIsApproved, FirstApprovalIsMerged
    <2> QED BY <1>2, <2>1, <2>2, <2>3, <2>4, FirstReviewVersions, SecondReviewVersions,
               MergingVersions, LateAgentVersions, OtherVersions DEF Next, RunStep, Quiet
  <1>3. VersionInv => FirstApprovalIsMerged
    BY DEF VersionInv
  <1> QED BY <1>1, <1>2, <1>3, PTL DEF Spec

-----------------------------------------------------------------------------
(* The turns a task is made of leave the workflow what it is.                *)

\* A behaviour of the turns is, for the workflow, one of repo-maintenance.
THEOREM WorkflowOfTurns == SpecCoding => Spec
  <1>1. InitCoding => Init
    BY DEF InitCoding
  <1>2. [NextCoding]_allVars => [Next]_vars
    <2>1. ASSUME Works
          PROVE  [Next]_vars
      BY <2>1 DEF Works, MemoryWorld, ToolsWorld, OnlyTurns, OnlyTools, AgentWorks, CallsTool
    <2>2. ASSUME Fails
          PROVE  UNCHANGED vars
      BY <2>2 DEF Fails, OnlyTurns, OnlyTools
    <2> QED BY <2>1, <2>2 DEF NextCoding, allVars
  <1> QED BY <1>1, <1>2, PTL DEF SpecCoding, Spec

\* So the merge gate and the versions hold of the turns as well.
THEOREM TurnsKeepTheGate == SpecCoding => ImplementsMergeGate /\ []FirstApprovalIsMerged
  BY WorkflowOfTurns, GateRefinement, ApprovedIsMerged, PTL

-----------------------------------------------------------------------------
(* What the records of the tools say.                                        *)

IsCall(call) ==
    call = [step |-> call.step, by |-> call.by, kind |-> call.kind, requests |-> call.requests,
            decisions |-> call.decisions, output |-> call.output]

ToolShapes ==
    /\ failures \in Nat
    /\ DOMAIN toolCall = ToolCalls /\ DOMAIN execution = ToolCalls /\ DOMAIN ran = ToolCalls
    /\ \A c \in ToolCalls :
        /\ IsCall(toolCall[c])
        /\ toolCall[c].step \in {"none", "evaluate", "start", "execute", "finish", "judge", "over", "lost"}
        /\ toolCall[c].kind \in {"none", "bare", "enveloped", "workspace"}

\* Until a call of the envelope is over it is only recorded as started, and if it is not,
\* a call of the database failed.
RecordInProgress(c) ==
    /\ execution[c] \in {"none", "started"}
    /\ execution[c] = "started" => toolCall[c].kind = "enveloped"
    /\ toolCall[c].kind = "enveloped" /\ toolCall[c].step \in {"execute", "finish"}
          /\ execution[c] = "none"
       => failures >= 1

\* A tool that is done said what its output is, unless the policy spoke in its place.
OutputIsTheTools(c) ==
    \/ ran[c] = toolCall[c].output.ends /\ ran[c] \in {"good", "bad", "throws"}
    \/ ran[c] = "no" /\ HasEnforcedBlock(c) /\ toolCall[c].output.ends = "throws"

ToolInv(c) ==
    /\ toolCall[c].kind = "none" <=> toolCall[c].step = "none"
    /\ toolCall[c].step \in {"none", "evaluate", "start", "execute"} => ran[c] = "no"
    /\ toolCall[c].step \in {"evaluate", "start"} => toolCall[c].kind = "enveloped"
    /\ toolCall[c].step = "judge" => toolCall[c].kind = "workspace"
    /\ toolCall[c].step = "finish" => toolCall[c].kind # "bare"
    /\ toolCall[c].step # "over" => RecordInProgress(c)
    /\ toolCall[c].step \in {"finish", "judge"} => OutputIsTheTools(c)
    /\ toolCall[c].kind = "enveloped" /\ ran[c] # "no" => ~HasEnforcedBlock(c)
    /\ execution[c] = "completed" => ran[c] = "good" \/ toolCall[c].kind = "workspace"
    /\ execution[c] = "failed" => ran[c] \in {"bad", "throws"}
    /\ execution[c] = "blocked" => ran[c] # "good"
    /\ toolCall[c].kind = "enveloped" /\ toolCall[c].step = "over" /\ execution[c] = "none"
       => failures >= 2

RecordInv == ToolShapes /\ \A c \in ToolCalls : ToolInv(c)

\* A step of one call that leaves the others alone, and forgets no failure.
CallMoves(c) ==
    /\ mode' = mode
    /\ failures' \in Nat /\ failures' >= failures
    /\ DOMAIN toolCall' = ToolCalls /\ DOMAIN execution' = ToolCalls /\ DOMAIN ran' = ToolCalls
    /\ \A d \in ToolCalls \ {c} :
        toolCall'[d] = toolCall[d] /\ execution'[d] = execution[d] /\ ran'[d] = ran[d]

\* Whatever one call does, the invariant holds of the others.
LEMMA OneCallMoves ==
    ASSUME RecordInv, NEW c \in ToolCalls, CallMoves(c), IsCall(toolCall[c])', ToolInv(c)',
           toolCall'[c].step \in {"evaluate", "start", "execute", "finish", "judge", "over"},
           toolCall'[c].kind \in {"bare", "enveloped", "workspace"}
    PROVE  RecordInv'
  <1>1. \A d \in ToolCalls \ {c} :
            toolCall'[d] = toolCall[d] /\ execution'[d] = execution[d] /\ ran'[d] = ran[d]
    BY DEF RecordInv, ToolShapes, CallMoves
  <1>2. ToolShapes'
    <2>1. /\ failures' \in Nat
          /\ DOMAIN toolCall' = ToolCalls /\ DOMAIN execution' = ToolCalls
          /\ DOMAIN ran' = ToolCalls
      BY DEF RecordInv, ToolShapes, CallMoves
    <2>2. \A d \in ToolCalls :
            /\ IsCall(toolCall[d])'
            /\ toolCall'[d].step \in {"none", "evaluate", "start", "execute", "finish", "judge",
                                      "over", "lost"}
            /\ toolCall'[d].kind \in {"none", "bare", "enveloped", "workspace"}
      BY <1>1 DEF RecordInv, ToolShapes, IsCall
    <2> QED BY <2>1, <2>2 DEF ToolShapes
  <1>3. \A d \in ToolCalls \ {c} : ToolInv(d)'
    BY <1>1 DEF RecordInv, ToolShapes, CallMoves, ToolInv, RecordInProgress, OutputIsTheTools,
                HasEnforcedBlock
  <1> QED BY <1>2, <1>3 DEF RecordInv

\* The three ends of a tool, each with the status it is recorded with.
LEMMA StatusOfOutput ==
    ASSUME NEW c \in ToolCalls, OutputIsTheTools(c)
    PROVE  /\ FinalStatus(c) \in {"completed", "failed", "blocked"}
           /\ FinalStatus(c) = "completed" => ran[c] = "good"
           /\ FinalStatus(c) = "failed" => ran[c] \in {"bad", "throws"}
           /\ FinalStatus(c) = "blocked" => ran[c] # "good"
  <1>1. toolCall[c].output.ends \in {"good", "bad", "throws"}
    BY DEF OutputIsTheTools
  <1>2. CASE toolCall[c].output.ends = "good"
    BY <1>2 DEF FinalStatus, OutputIsTheTools
  <1>3. CASE toolCall[c].output.ends = "bad"
    BY <1>3 DEF FinalStatus, OutputIsTheTools
  <1>4. CASE toolCall[c].output.ends = "throws"
    BY <1>4 DEF FinalStatus, OutputIsTheTools
  <1> QED BY <1>1, <1>2, <1>3, <1>4

Begins(c) ==
    \E t \in Turns, kind \in {"bare", "enveloped", "workspace"}, requests \in ToolRequests :
        BeginCall(c, t, kind, requests)

\* Before the tool runs.
LEMMA BeforeTheTool ==
    ASSUME RecordInv, NEW c \in ToolCalls, failures' \in Nat, failures' >= failures,
           \/ Begins(c)
           \/ Evaluate(c) \/ EvaluateFails(c) \/ RecordStarted(c)
           \/ (RecordStartedFails(c) /\ failures' = failures + 1)
    PROVE  RecordInv'
  <1> USE DEF IsCall
  <1>0. /\ failures \in Nat
        /\ DOMAIN toolCall = ToolCalls /\ DOMAIN execution = ToolCalls /\ DOMAIN ran = ToolCalls
        /\ IsCall(toolCall[c]) /\ ToolInv(c)
        /\ toolCall[c].kind \in {"none", "bare", "enveloped", "workspace"}
    BY DEF RecordInv, ToolShapes
  <1>1. ASSUME NEW t \in Turns, NEW kind \in {"bare", "enveloped", "workspace"},
               NEW requests \in ToolRequests, BeginCall(c, t, kind, requests)
        PROVE  RecordInv'
    <2>1. /\ toolCall[c].step = "none"
          /\ toolCall'[c].step \in {"evaluate", "execute"}
          /\ toolCall'[c].step = "evaluate" <=> kind = "enveloped"
          /\ toolCall'[c].kind = kind
          /\ IsCall(toolCall[c])'
          /\ CallMoves(c)
          /\ UNCHANGED <<mode, execution, ran>>
      BY <1>0, <1>1 DEF BeginCall, NotCalled, CallMoves
    <2>2. execution[c] = "none" /\ ran[c] = "no"
      BY <1>0, <2>1 DEF ToolInv, RecordInProgress
    <2>3. ToolInv(c)'
      BY <1>0, <2>1, <2>2 DEF ToolInv, RecordInProgress
    <2> QED BY <1>0, <2>1, <2>3, OneCallMoves
  <1>2. ASSUME NEW decisions, Decided(c, decisions)
        PROVE  RecordInv'
    <2> DEFINE to == IF toolCall[c].step = "evaluate" THEN "start" ELSE "finish"
    <2>0. /\ toolCall' = [toolCall EXCEPT
                            ![c] = [toolCall[c] EXCEPT !.step = to, !.decisions = decisions]]
          /\ toolCall'[c] = [toolCall[c] EXCEPT !.step = to, !.decisions = decisions]
      BY <1>0, <1>2 DEF Decided
    <2>1. /\ toolCall[c].step \in {"evaluate", "judge"}
          /\ toolCall'[c].step = IF toolCall[c].step = "evaluate" THEN "start" ELSE "finish"
          /\ toolCall'[c].kind = toolCall[c].kind
          /\ toolCall'[c].output = toolCall[c].output
          /\ IsCall(toolCall[c])'
          /\ CallMoves(c)
          /\ UNCHANGED <<mode, execution, ran>>
      BY <1>0, <1>2, <2>0 DEF Decided, CallMoves
    <2>2. CASE toolCall[c].step = "evaluate"
      <3>1. ToolInv(c)'
        BY <1>0, <2>1, <2>2 DEF ToolInv, RecordInProgress
      <3> QED BY <1>0, <2>1, <2>2, <3>1, OneCallMoves DEF ToolInv
    <2>3. CASE toolCall[c].step = "judge"
      <3>1. ToolInv(c)'
        BY <1>0, <2>1, <2>3 DEF ToolInv, RecordInProgress, OutputIsTheTools, HasEnforcedBlock
      <3> QED BY <1>0, <2>1, <2>3, <3>1, OneCallMoves DEF ToolInv
    <2> QED BY <1>0, <2>1, <2>2, <2>3
  <1>3. ASSUME NEW status \in {"none", "started"}, Started(c, status),
               status = "none" => failures' >= 1
        PROVE  RecordInv'
    <2>1. /\ toolCall[c].step = "start"
          /\ toolCall'[c].step = "execute"
          /\ toolCall'[c].kind = toolCall[c].kind
          /\ execution'[c] = status
          /\ IsCall(toolCall[c])'
          /\ CallMoves(c)
          /\ UNCHANGED <<mode, ran>>
      BY <1>0, <1>3 DEF Started, CallMoves
    <2>2. toolCall[c].kind = "enveloped" /\ ran[c] = "no"
      BY <1>0, <2>1 DEF ToolInv
    <2>3. ToolInv(c)'
      BY <1>0, <1>3, <2>1, <2>2 DEF ToolInv, RecordInProgress
    <2> QED BY <1>0, <2>1, <2>2, <2>3, OneCallMoves
  <1>4. CASE Evaluate(c)
    BY <1>0, <1>2, <1>4 DEF Evaluate
  <1>5. CASE EvaluateFails(c)
    <2>1. PICK failed \in toolCall[c].requests :
            Decided(c, {EvaluationFailed} \cup
                {Decision(request) : request \in toolCall[c].requests \ {failed}})
      BY <1>0, <1>5 DEF EvaluateFails
    <2> QED BY <1>0, <1>2, <2>1
  <1>6. CASE RecordStarted(c) \/ (RecordStartedFails(c) /\ failures' = failures + 1)
    BY <1>0, <1>3, <1>6 DEF RecordStarted, RecordStartedFails
  <1>7. CASE Begins(c)
    BY <1>1, <1>7 DEF Begins
  <1> QED BY <1>4, <1>5, <1>6, <1>7

\* The tool runs, or is refused.
LEMMA AtTheTool ==
    ASSUME RecordInv, NEW c \in ToolCalls, failures' = failures, RefuseCall(c) \/ Execute(c)
    PROVE  RecordInv'
  <1> USE DEF IsCall
  <1>0. /\ failures \in Nat
        /\ DOMAIN toolCall = ToolCalls /\ DOMAIN execution = ToolCalls /\ DOMAIN ran = ToolCalls
        /\ IsCall(toolCall[c]) /\ ToolInv(c)
        /\ toolCall[c].kind \in {"none", "bare", "enveloped", "workspace"}
    BY DEF RecordInv, ToolShapes
  <1>1. CASE RefuseCall(c)
    <2>0. toolCall'[c] = [toolCall[c] EXCEPT !.step = "finish", !.output = PolicyBlocked]
      BY <1>0, <1>1 DEF RefuseCall
    <2>a. /\ toolCall[c].step = "execute"
          /\ HasEnforcedBlock(c)
          /\ UNCHANGED <<mode, execution, ran>>
      BY <1>0, <1>1 DEF RefuseCall
    <2>b. CallMoves(c)
      BY <1>0, <1>1, <2>0, <2>a DEF RefuseCall, CallMoves
    <2>c. toolCall[c].kind = "enveloped"
      BY <1>0, <2>a DEF HasEnforcedBlock
    <2>1. /\ toolCall'[c].step = "finish"
          /\ toolCall'[c].kind = toolCall[c].kind
          /\ toolCall'[c].decisions = toolCall[c].decisions
          /\ toolCall'[c].output = PolicyBlocked
          /\ IsCall(toolCall[c])'
      BY <1>0, <2>0
    <2>2. HasEnforcedBlock(c)'
      BY <1>0, <2>1, <2>a DEF HasEnforcedBlock
    <2>3. ToolInv(c)'
      BY <1>0, <2>1, <2>a, <2>c, <2>2 DEF ToolInv, RecordInProgress, OutputIsTheTools, PolicyBlocked
    <2> QED BY <1>0, <2>1, <2>b, <2>c, <2>3, OneCallMoves
  <1>2. CASE Execute(c)
    <2>1. PICK output \in Outputs :
            /\ toolCall' = [toolCall EXCEPT ![c].step = AfterTool(toolCall[c].kind),
                                            ![c].output = output]
            /\ ran' = [ran EXCEPT ![c] = output.ends]
      BY <1>0, <1>2 DEF Execute
    <2>0. toolCall'[c] = [toolCall[c] EXCEPT !.step = AfterTool(toolCall[c].kind),
                                             !.output = output]
      BY <1>0, <2>1
    <2>2. toolCall[c].kind # "none"
      BY <1>0, <1>2 DEF Execute, ToolInv
    <2>a. /\ toolCall[c].step = "execute"
          /\ ~HasEnforcedBlock(c)
          /\ UNCHANGED <<mode, execution>>
      BY <1>0, <1>2 DEF Execute
    <2>b. CallMoves(c)
      BY <1>0, <2>0, <2>1, <2>a DEF CallMoves
    <2>3. /\ toolCall'[c].step = AfterTool(toolCall[c].kind)
          /\ toolCall'[c].kind = toolCall[c].kind
          /\ toolCall'[c].decisions = toolCall[c].decisions
          /\ toolCall'[c].output = output
          /\ ran'[c] = output.ends /\ ran'[c] \in {"good", "bad", "throws"}
          /\ IsCall(toolCall[c])'
      BY <1>0, <2>0, <2>1, OutputAssumption
    <2>4. ~HasEnforcedBlock(c)'
      BY <1>0, <2>3, <2>a DEF HasEnforcedBlock
    <2>5. /\ toolCall'[c].step \in {"over", "finish", "judge"}
          /\ toolCall'[c].step = "over" => toolCall[c].kind = "bare"
          /\ toolCall'[c].step = "judge" => toolCall[c].kind = "workspace"
      BY <1>0, <2>2, <2>3 DEF AfterTool
    <2>6. ToolInv(c)'
      <3>1. RecordInProgress(c)' /\ execution'[c] \in {"none", "started"}
        BY <1>0, <2>3, <2>a, <2>5 DEF ToolInv, RecordInProgress
      <3>2. OutputIsTheTools(c)'
        BY <1>0, <2>3 DEF OutputIsTheTools
      <3>3. /\ toolCall'[c].kind # "none" /\ toolCall'[c].step # "none"
            /\ toolCall'[c].step \notin {"none", "evaluate", "start", "execute"}
        BY <2>2, <2>3, <2>5
      <3>4. toolCall'[c].step = "over" => toolCall'[c].kind # "enveloped"
        BY <2>3, <2>5
      <3>5. toolCall'[c].step = "finish" => toolCall'[c].kind # "bare"
        BY <2>2, <2>3 DEF AfterTool
      <3> QED BY <2>3, <2>4, <2>5, <3>1, <3>2, <3>3, <3>4, <3>5 DEF ToolInv
    <2> QED BY <1>0, <2>2, <2>3, <2>b, <2>5, <2>6, OneCallMoves
  <1> QED BY <1>0, <1>1, <1>2

\* The record gets its end.
LEMMA AfterTheTool ==
    ASSUME RecordInv, NEW c \in ToolCalls,
           \/ RecordFinished(c) /\ failures' = failures
           \/ RecordFinishedFails(c) /\ failures' = failures + 1
    PROVE  RecordInv'
  <1> USE DEF IsCall
  <1>0. /\ failures \in Nat
        /\ DOMAIN toolCall = ToolCalls /\ DOMAIN execution = ToolCalls /\ DOMAIN ran = ToolCalls
        /\ IsCall(toolCall[c]) /\ ToolInv(c)
        /\ toolCall[c].kind \in {"none", "bare", "enveloped", "workspace"}
    BY DEF RecordInv, ToolShapes
  <1>1. /\ toolCall[c].step = "finish"
        /\ toolCall'[c].step = "over"
        /\ toolCall'[c].kind = toolCall[c].kind
        /\ toolCall'[c].decisions = toolCall[c].decisions
        /\ toolCall'[c].output = toolCall[c].output
        /\ IsCall(toolCall[c])'
        /\ CallMoves(c)
        /\ UNCHANGED <<mode, ran>>
    BY <1>0 DEF RecordFinished, RecordFinishedFails, CallMoves
  <1>2. OutputIsTheTools(c)
    BY <1>0, <1>1 DEF ToolInv
  <1>3. (HasEnforcedBlock(c))' = HasEnforcedBlock(c)
    BY <1>0, <1>1 DEF HasEnforcedBlock
  <1>4. CASE RecordFinished(c)
    <2>1. execution'[c] = CASE toolCall[c].kind = "enveloped" -> FinalStatus(c)
                            [] toolCall[c].kind = "workspace" ->
                                IF toolCall[c].output.ends = "throws" THEN "failed" ELSE "completed"
      BY <1>0, <1>4 DEF RecordFinished
    <2>2. CASE toolCall[c].kind = "enveloped"
      <3>1. execution'[c] = FinalStatus(c)
        BY <1>0, <2>1, <2>2
      <3>2. ToolInv(c)'
        BY <1>0, <1>1, <1>2, <1>3, <2>2, <3>1, StatusOfOutput DEF ToolInv
      <3> QED BY <1>0, <1>1, <2>2, <3>2, OneCallMoves
    <2>3. CASE toolCall[c].kind = "workspace"
      <3>1. ToolInv(c)'
        BY <1>0, <1>1, <1>2, <1>3, <2>1, <2>3 DEF ToolInv, OutputIsTheTools, HasEnforcedBlock
      <3> QED BY <1>0, <1>1, <2>3, <3>1, OneCallMoves
    <2>4. toolCall[c].kind \in {"enveloped", "workspace"}
      BY <1>0, <1>1 DEF ToolInv
    <2> QED BY <1>0, <2>2, <2>3, <2>4
  <1>5. CASE RecordFinishedFails(c) /\ failures' = failures + 1
    <2>1. execution'[c] = execution[c]
      BY <1>0, <1>5 DEF RecordFinishedFails
    <2>2. ToolInv(c)'
      BY <1>0, <1>1, <1>2, <1>3, <1>5, <2>1 DEF ToolInv, RecordInProgress
    <2>3. toolCall[c].kind \in {"enveloped", "workspace"}
      BY <1>0, <1>1 DEF ToolInv
    <2> QED BY <1>0, <1>1, <2>2, <2>3, OneCallMoves
  <1> QED BY <1>0, <1>4, <1>5

\* The server goes, or the record is of no concern to the step.
LEMMA AroundTheTools ==
    ASSUME RecordInv, failures' \in Nat, failures' >= failures,
           UNCHANGED toolVars \/ MoveScope \/ LoseCalls
    PROVE  RecordInv'
  <1>1. CASE UNCHANGED toolVars \/ MoveScope
    <2>1. UNCHANGED <<mode, toolCall, execution, ran>>
      BY <1>1 DEF toolVars, MoveScope
    <2>2. \A c \in ToolCalls : ToolInv(c)'
      BY <2>1 DEF RecordInv, ToolShapes, ToolInv, RecordInProgress, OutputIsTheTools, HasEnforcedBlock
    <2>3. ToolShapes'
      BY <2>1 DEF RecordInv, ToolShapes
    <2> QED BY <2>2, <2>3 DEF RecordInv
  <1>2. CASE LoseCalls
    <2>1. /\ UNCHANGED <<mode, execution, ran>>
          /\ DOMAIN toolCall' = ToolCalls
      BY <1>2 DEF LoseCalls
    <2>2. ASSUME NEW c \in ToolCalls
          PROVE  /\ IsCall(toolCall[c])'
                 /\ toolCall'[c].step \in {toolCall[c].step, "lost"}
                 /\ toolCall[c].step \in {"none", "over"} => toolCall'[c].step = toolCall[c].step
                 /\ toolCall[c].step \notin {"none", "over"} => toolCall'[c].step = "lost"
                 /\ toolCall'[c].kind = toolCall[c].kind
                 /\ toolCall'[c].decisions = toolCall[c].decisions
      <3>1. IsCall(toolCall[c])
        BY DEF RecordInv, ToolShapes
      <3>2. toolCall'[c] = IF toolCall[c].step \in {"none", "over"} THEN toolCall[c]
                           ELSE [toolCall[c] EXCEPT !.step = "lost"]
        BY <1>2 DEF LoseCalls
      <3> QED BY <3>1, <3>2 DEF IsCall
    <2>3. ToolShapes'
      BY <2>1, <2>2 DEF RecordInv, ToolShapes
    <2>4. ASSUME NEW c \in ToolCalls
          PROVE  ToolInv(c)'
      <3>1. ToolInv(c) /\ failures \in Nat
        BY DEF RecordInv, ToolShapes
      <3>2. HasEnforcedBlock(c)' = HasEnforcedBlock(c)
        BY <2>1, <2>2 DEF HasEnforcedBlock
      <3> QED BY <2>1, <2>2, <3>1, <3>2 DEF ToolInv, RecordInProgress
    <2> QED BY <2>3, <2>4 DEF RecordInv
  <1> QED BY <1>1, <1>2

\* The record of a call of a tool says what became of the tool, however the database
\* fails and wherever the server stops.
THEOREM RecordsAreTrue == SpecCoding => []ToolRecordIsTrue
  <1>1. InitCoding => RecordInv
    BY DEF InitCoding, InitTools, NotCalled, RecordInv, ToolShapes, IsCall, ToolInv, RecordInProgress,
           OutputIsTheTools, HasEnforcedBlock
  <1>2. ASSUME RecordInv, [NextCoding]_allVars
        PROVE  RecordInv'
    <2>1. failures \in Nat
      BY <1>2 DEF RecordInv, ToolShapes
    <2>2. CASE Works /\ failures' = failures
      <3>1. CASE UNCHANGED toolVars \/ MoveScope
        BY <1>2, <2>1, <2>2, <3>1, AroundTheTools
      <3>2. ASSUME NEW t \in Turns, NEW c \in ToolCalls, CallsTool(t, c)
            PROVE  RecordInv'
        <4>1. Begins(c)
          BY <3>2 DEF CallsTool, Begins
        <4> QED BY <1>2, <2>1, <2>2, <4>1, BeforeTheTool
      <3>3. ASSUME NEW c \in ToolCalls, EnvelopeStep(c)
            PROVE  RecordInv'
        BY <1>2, <2>1, <2>2, <3>3, BeforeTheTool, AtTheTool, AfterTheTool DEF EnvelopeStep
      <3> QED BY <2>2, <3>1, <3>2, <3>3 DEF Works, OnlyWorkflow, MemoryWorld, ToolsWorld, OnlyTurns,
                                            AgentWorks
    <2>3. CASE Fails /\ failures' = failures + 1
      <3>1. failures' \in Nat /\ failures' >= failures
        BY <2>1, <2>3
      <3>2. CASE UNCHANGED toolVars \/ LoseCalls
        BY <1>2, <3>1, <3>2, AroundTheTools
      <3>3. ASSUME NEW c \in ToolCalls, EnvelopeTroubles(c)
            PROVE  RecordInv'
        BY <1>2, <2>3, <3>1, <3>3, BeforeTheTool, AfterTheTool DEF EnvelopeTroubles
      <3> QED BY <2>3, <3>2, <3>3 DEF Fails, OnlyTurns
    <2>4. CASE UNCHANGED allVars
      BY <1>2, <2>1, <2>4, AroundTheTools DEF allVars
    <2> QED BY <1>2, <2>2, <2>3, <2>4 DEF NextCoding
  <1>3. RecordInv => ToolRecordIsTrue
    <2> SUFFICES ASSUME RecordInv, NEW c \in ToolCalls
                 PROVE  /\ execution[c] = "completed" => ran[c] = "good" \/ toolCall[c].kind = "workspace"
                        /\ execution[c] = "failed" => ran[c] \in {"bad", "throws"}
                        /\ execution[c] = "blocked" => ran[c] # "good"
                        /\ toolCall[c].kind = "enveloped" /\ toolCall[c].step = "over" /\ failures <= 1
                            => execution[c] # "none"
                        /\ toolCall[c].kind = "enveloped" /\ ran[c] # "no" /\ mode = "enforce"
                            => \A decision \in toolCall[c].decisions : decision.allow
      BY DEF ToolRecordIsTrue
    <2>1. ToolInv(c) /\ failures \in Nat
      BY DEF RecordInv, ToolShapes
    <2>2. ~HasEnforcedBlock(c) /\ toolCall[c].kind = "enveloped" /\ mode = "enforce"
            => \A decision \in toolCall[c].decisions : decision.allow
      BY DEF HasEnforcedBlock, EffectiveAllow
    <2> QED BY <2>1, <2>2 DEF ToolInv
  <1> QED BY <1>1, <1>2, <1>3, PTL DEF SpecCoding

-----------------------------------------------------------------------------
(* What is shown of the memory.  The ledger of a thread knows whatever was   *)
(* shown in it, so that a context that is filtered against the ledger shares *)
(* nothing with a turn that had its context before; and two turns that build *)
(* their contexts at the same time are in overlap.                           *)

IsDoc(d) == d = [status |-> d.status, ids |-> d.ids, prompt |-> d.prompt]
IsContext(x) == x = [step |-> x.step, from |-> x.from, ids |-> x.ids]
IsWorker(w) == w = [step |-> w.step, ids |-> w.ids]
IsTurn(x) == x = [step |-> x.step, kind |-> x.kind, result |-> x.result]

MemoryShapes ==
    /\ DOMAIN doc = Turns /\ DOMAIN ctx = Turns /\ DOMAIN worker = Turns
    /\ DOMAIN turn = Turns /\ DOMAIN inPrompt = Turns
    /\ computed \in Seq(Turns)
    /\ \A t \in Turns :
        IsDoc(doc[t]) /\ IsContext(ctx[t]) /\ IsWorker(worker[t]) /\ IsTurn(turn[t])

Noted(t) == {e.memory : e \in {e \in ledger : e.thread = Thread[t]}}

IsComputed(t) == \E i \in 1..Len(computed) : computed[i] = t

HasPending(t) == ctx[t].step \in {"filter", "consume", "suppress", "inject"}

\* The worker of a turn runs once, after the turn, and leaves one context at most.
WorkerInv(t) ==
    /\ turn[t].kind \in {"none", "coding", "review"}
    /\ worker[t].step # "none" => turn[t].step = "over"
    /\ worker[t].step \in {"fresh", "compare", "stale", "insert"} => IsComputed(t)
    /\ doc[t].status # "none" => worker[t].step = "over" /\ IsComputed(t)
    /\ doc[t].prompt \subseteq doc[t].ids

\* What a turn shows is in the ledger; the pending context that it takes is one.
ContextInv(t) ==
    /\ inPrompt[t] # {} => ctx[t].step = "ready"
    /\ inPrompt[t] \subseteq Noted(t)
    /\ HasPending(t) => \E v \in Turns : ctx[t].from = {v} /\ doc[v].status # "none"

\* What one turn has shown and another is about to show, or has shown as well.
Disjoint(t, u) ==
    /\ ctx[u].step \in {"consume", "inject"} =>
        \A v \in ctx[u].from : inPrompt[t] \cap doc[v].ids = {}
    /\ ctx[u].step = "note" => inPrompt[t] \cap ctx[u].ids = {}
    /\ inPrompt[t] \cap inPrompt[u] = {}

ThreadInv ==
    \A t, u \in Turns :
        t # u =>
            /\ t \in BuildingContext /\ u \in BuildingContext => {t, u} \in overlap
            /\ Thread[t] = Thread[u] /\ {t, u} \notin overlap => Disjoint(t, u)

MemoryInv ==
    /\ asyncMemory
    /\ MemoryShapes
    /\ \A t \in Turns : WorkerInv(t) /\ ContextInv(t)
    /\ ThreadInv

\* Until the database fails. Elsewhere no memory is shown.
ShownInv ==
    /\ failures \in Nat
    /\ failures = 0 => IF world = "memory" THEN MemoryInv ELSE \A t \in Turns : inPrompt[t] = {}

\* Nothing is lost of the documents a turn may be about to take.
DocsStay ==
    \A v \in Turns :
        doc[v].status # "none" =>
            /\ doc'[v].status # "none"
            /\ doc'[v].ids = doc[v].ids /\ doc'[v].prompt = doc[v].prompt

\* A step that does not touch the contexts keeps what they are about.
LEMMA ContextsStay ==
    ASSUME MemoryInv, DocsStay, UNCHANGED <<ctx, inPrompt, ledger, overlap>>
    PROVE  (\A t \in Turns : ContextInv(t)') /\ ThreadInv'
  <1>1. ASSUME NEW t \in Turns
        PROVE  ContextInv(t)'
    <2>1. ContextInv(t)
      BY DEF MemoryInv
    <2> QED BY <2>1 DEF ContextInv, HasPending, Noted, DocsStay
  <1>2. ASSUME NEW t \in Turns, NEW u \in Turns, Disjoint(t, u)
        PROVE  Disjoint(t, u)'
    <2>1. ASSUME ctx[u].step \in {"consume", "inject"}, NEW v \in ctx[u].from
          PROVE  inPrompt[t] \cap doc'[v].ids = {}
      <3>1. HasPending(u)
        BY <2>1 DEF HasPending
      <3>2. v \in Turns /\ doc[v].status # "none"
        BY <2>1, <3>1 DEF MemoryInv, ContextInv
      <3> QED BY <1>2, <2>1, <3>2 DEF DocsStay, Disjoint
    <2> QED BY <1>2, <2>1 DEF Disjoint
  <1>3. ThreadInv'
    BY <1>2 DEF MemoryInv, ThreadInv, BuildingContext
  <1> QED BY <1>1, <1>3

\* A step of one context keeps what the others are about, if it shows nothing that another
\* turn of the thread has shown.
LEMMA OneContextMoves ==
    ASSUME MemoryInv, NEW t \in Turns, DocsStay,
           \A v \in Turns : doc[v].status = "none" => doc'[v] = doc[v],
           UNCHANGED <<computed, worker, turn, asyncMemory>>,
           DOMAIN doc' = Turns /\ DOMAIN ctx' = Turns /\ DOMAIN inPrompt' = Turns,
           \A v \in Turns : IsDoc(doc[v])',
           IsContext(ctx[t])',
           \A u \in Turns \ {t} : ctx'[u] = ctx[u] /\ inPrompt'[u] = inPrompt[u],
           \A u \in Turns : Noted(u) \subseteq Noted(u)',
           overlap \subseteq overlap',
           \A u \in Turns \ {t} : u \in BuildingContext => t \in BuildingContext \/ {t, u} \in overlap',
           ContextInv(t)',
           inPrompt'[t] # {} => t \in BuildingContext,
           \A u \in Turns \ {t} :
               Thread[t] = Thread[u] /\ {t, u} \notin overlap' =>
                   /\ ctx'[t].step \in {"consume", "inject"} =>
                        \A v \in ctx'[t].from : inPrompt[u] \cap doc'[v].ids = {}
                   /\ ctx'[t].step = "note" => inPrompt[u] \cap ctx'[t].ids = {}
                   /\ inPrompt'[t] \cap inPrompt[u] = {}
    PROVE  MemoryInv'
  <1>1. MemoryShapes'
    BY DEF MemoryInv, MemoryShapes
  <1>2. ASSUME NEW u \in Turns
        PROVE  WorkerInv(u)'
    <2>1. WorkerInv(u)
      BY DEF MemoryInv
    <2>2. doc'[u].prompt \subseteq doc'[u].ids /\ (doc'[u].status # "none" => doc[u].status # "none")
      BY <2>1 DEF WorkerInv, DocsStay
    <2> QED BY <2>1, <2>2 DEF WorkerInv, IsComputed
  <1>3. ASSUME NEW u \in Turns
        PROVE  ContextInv(u)'
    <2>1. CASE u # t
      <3>1. ContextInv(u)
        BY DEF MemoryInv
      <3> QED BY <2>1, <3>1 DEF ContextInv, HasPending, DocsStay
    <2> QED BY <2>1
  <1>4. ASSUME NEW u \in Turns \ {t}
        PROVE  /\ t \in BuildingContext' /\ u \in BuildingContext' => {t, u} \in overlap'
               /\ Thread[t] = Thread[u] /\ {t, u} \notin overlap' => Disjoint(t, u)' /\ Disjoint(u, t)'
    <2>1. u \in BuildingContext' <=> u \in BuildingContext
      BY DEF BuildingContext
    <2>2. t \in BuildingContext /\ u \in BuildingContext => {t, u} \in overlap'
      BY DEF MemoryInv, ThreadInv
    <2>3. ASSUME Thread[t] = Thread[u], {t, u} \notin overlap'
          PROVE  Disjoint(t, u)' /\ Disjoint(u, t)'
      <3>1. Disjoint(u, t)'
        BY <2>3 DEF Disjoint
      <3>2. CASE inPrompt'[t] = {}
        BY <3>1, <3>2 DEF Disjoint
      <3>3. CASE inPrompt'[t] # {}
        <4>1. u \notin BuildingContext
          BY <2>2, <2>3, <3>3
        <4>2. ctx'[u].step \notin {"consume", "inject", "note"}
          BY <4>1 DEF BuildingContext
        <4> QED BY <3>1, <4>2 DEF Disjoint
      <3> QED BY <3>1, <3>2, <3>3
    <2> QED BY <2>1, <2>2, <2>3
  <1>5. ASSUME NEW u \in Turns \ {t}, NEW v \in Turns \ {t}, u # v
        PROVE  /\ u \in BuildingContext' /\ v \in BuildingContext' => {u, v} \in overlap'
               /\ Thread[u] = Thread[v] /\ {u, v} \notin overlap' => Disjoint(u, v)'
    <2>1. u \in BuildingContext' /\ v \in BuildingContext' => {u, v} \in overlap'
      BY <1>5 DEF BuildingContext, MemoryInv, ThreadInv
    <2>2. ASSUME Thread[u] = Thread[v], {u, v} \notin overlap'
          PROVE  Disjoint(u, v)'
      <3>1. Disjoint(u, v)
        BY <1>5, <2>2 DEF MemoryInv, ThreadInv
      <3>2. ASSUME ctx[v].step \in {"consume", "inject"}, NEW w \in ctx[v].from
            PROVE  doc'[w].ids = doc[w].ids
        <4>1. HasPending(v)
          BY <3>2 DEF HasPending
        <4> QED BY <3>2, <4>1 DEF MemoryInv, ContextInv, DocsStay
      <3> QED BY <3>1, <3>2 DEF Disjoint
    <2> QED BY <2>1, <2>2
  <1>6. ThreadInv'
    <2>1. \A u, v \in Turns : {u, v} = {v, u}
      OBVIOUS
    <2> QED BY <1>4, <1>5, <2>1 DEF ThreadInv
  <1> QED BY <1>1, <1>2, <1>3, <1>6 DEF MemoryInv

\* One pending context at most was computed last.
LEMMA NewestIsOne ==
    ASSUME MemoryInv, NEW t \in Turns, NEW u \in NewestPending(t), NEW v \in NewestPending(t)
    PROVE  u = v
  <1>1. /\ u \in Turns /\ v \in Turns
        /\ IsComputed(u) /\ IsComputed(v)
    BY DEF MemoryInv, WorkerInv, NewestPending, PendingDocs
  <1>2. /\ IndexOf(u) \in 1..Len(computed) /\ computed[IndexOf(u)] = u
        /\ IndexOf(v) \in 1..Len(computed) /\ computed[IndexOf(v)] = v
    BY <1>1 DEF IndexOf, IsComputed
  <1>3. IndexOf(u) <= IndexOf(v) /\ IndexOf(v) <= IndexOf(u)
    BY DEF NewestPending
  <1>4. IndexOf(u) = IndexOf(v)
    BY <1>2, <1>3
  <1> QED BY <1>2, <1>4

\* The facts about a turn before its context moves.
LEMMA AtContext ==
    ASSUME MemoryInv, NEW t \in Turns
    PROVE  /\ DOMAIN doc = Turns /\ DOMAIN ctx = Turns /\ DOMAIN inPrompt = Turns
           /\ asyncMemory
           /\ \A v \in Turns : IsDoc(doc[v])
           /\ IsContext(ctx[t])
           /\ ContextInv(t)
           /\ ctx[t].step \notin {"none", "ready"} <=> t \in BuildingContext
           /\ HasPending(t) => \E v \in Turns : ctx[t].from = {v} /\ doc[v].status # "none"
           /\ \A u \in Turns \ {t} :
                Thread[t] = Thread[u] /\ {t, u} \notin overlap => Disjoint(u, t)
  BY DEF MemoryInv, MemoryShapes, ContextInv, BuildingContext, ThreadInv

\* What is not filtered out is not in the ledger of the thread.
LEMMA FreshIsNew ==
    ASSUME NEW t \in Turns, NEW ids
    PROVE  Fresh(t, ids) \cap Noted(t) = {} /\ Fresh(t, ids) \subseteq ids
  BY DEF Fresh, Noted, Injected

\* What a turn of the thread has shown is in the ledger of the thread.
LEMMA ShownIsNoted ==
    ASSUME MemoryInv, NEW t \in Turns, NEW u \in Turns, Thread[t] = Thread[u]
    PROVE  inPrompt[u] \subseteq Noted(t)
  BY DEF MemoryInv, ContextInv, Noted

\* What is injected is in the ledger, and nothing leaves it.
LEMMA InjectedIsNoted ==
    ASSUME NEW t \in Turns, NEW ids, Inject(t, ids)
    PROVE  /\ ids \subseteq Noted(t)'
           /\ \A u \in Turns : Noted(u) \subseteq Noted(u)'
  <1> DEFINE new == {m \in ids : \A e \in ledger : e.thread = Thread[t] => e.memory # m}
             Entry(m) == [thread |-> Thread[t], task |-> CodeTask[t], memory |-> m]
  <1>1. ledger' = ledger \cup {Entry(m) : m \in new}
    BY DEF Inject
  <1>2. \A u \in Turns : Noted(u) \subseteq Noted(u)'
    BY <1>1 DEF Noted
  <1>3. ASSUME NEW m \in ids
        PROVE  m \in Noted(t)'
    <2>1. CASE m \in new
      <3>1. Entry(m) \in ledger' /\ Entry(m).thread = Thread[t] /\ Entry(m).memory = m
        BY <1>1, <2>1
      <3> QED BY <3>1 DEF Noted
    <2>2. CASE m \notin new
      <3>1. PICK e \in ledger : e.thread = Thread[t] /\ e.memory = m
        BY <2>2
      <3>2. e \in ledger'
        BY <1>1
      <3> QED BY <3>1, <3>2 DEF Noted
    <2> QED BY <2>1, <2>2
  <1> QED BY <1>2, <1>3

\* A step of a context that neither shows nor notes a memory, and gets to no place where
\* one is about to be shown.
LEMMA QuietContext ==
    ASSUME MemoryInv, NEW t \in Turns, t \in BuildingContext,
           UNCHANGED <<doc, computed, ledger, worker, overlap, turn, asyncMemory>>,
           DOMAIN inPrompt' = Turns, \A u \in Turns : inPrompt'[u] = inPrompt[u],
           DOMAIN ctx' = Turns, IsContext(ctx[t])',
           \A u \in Turns \ {t} : ctx'[u] = ctx[u],
           ctx'[t].step \notin {"none", "consume", "inject", "note"},
           HasPending(t)' => \E v \in Turns : ctx'[t].from = {v} /\ doc[v].status # "none"
    PROVE  MemoryInv'
  <1>1. inPrompt[t] = {}
    BY AtContext DEF ContextInv
  <1>2. ContextInv(t)'
    BY <1>1 DEF ContextInv
  <1>3. DocsStay /\ \A u \in Turns : Noted(u) \subseteq Noted(u)'
    BY DEF DocsStay, Noted
  <1>4. \A v \in Turns : IsDoc(doc[v])'
    BY AtContext DEF IsDoc
  <1> QED BY <1>1, <1>2, <1>3, <1>4, AtContext, OneContextMoves

\* A turn starts to build its context; those that are at it are in overlap with it.
LEMMA StartsContext ==
    ASSUME MemoryInv, NEW t \in Turns, NEW kind \in {"coding", "review"}, StartTurn(t, kind)
    PROVE  MemoryInv'
  <1>1. /\ ctx[t].step = "none"
        /\ ctx' = [ctx EXCEPT ![t].step = IF asyncMemory /\ kind = "coding" THEN "find" ELSE "recall"]
        /\ overlap' = overlap \cup {{t, u} : u \in BuildingContext}
        /\ UNCHANGED <<doc, computed, ledger, worker, inPrompt, asyncMemory>>
        /\ turn[t].step = "none"
        /\ turn' = [turn EXCEPT ![t].step = "context", ![t].kind = kind]
    BY DEF StartTurn, StartContext, Step
  <1>2. /\ DOMAIN ctx' = Turns /\ IsContext(ctx[t])'
        /\ ctx'[t].step \in {"find", "recall"}
        /\ \A u \in Turns \ {t} : ctx'[u] = ctx[u]
    <2>1. PICK to \in {"find", "recall"} : ctx' = [ctx EXCEPT ![t].step = to]
      BY <1>1
    <2>2. ctx'[t] = [ctx[t] EXCEPT !.step = to]
      BY <2>1, AtContext
    <2>3. IsContext(ctx[t]) /\ DOMAIN ctx = Turns
      BY AtContext
    <2>4. IsContext(ctx[t])' /\ ctx'[t].step = to
      BY <2>2, <2>3 DEF IsContext
    <2>5. DOMAIN ctx' = Turns /\ \A u \in Turns \ {t} : ctx'[u] = ctx[u]
      BY <2>1, <2>3
    <2> QED BY <2>4, <2>5
  <1>3. inPrompt[t] = {}
    BY <1>1, AtContext DEF ContextInv
  <1>4. DOMAIN turn' = Turns /\ (\A u \in Turns : IsTurn(turn[u])') /\ turn'[t].kind = kind
        /\ (\A u \in Turns \ {t} : turn'[u] = turn[u])
    <2>1. turn'[t] = [turn[t] EXCEPT !.step = "context", !.kind = kind]
      BY <1>1 DEF MemoryInv, MemoryShapes
    <2> QED BY <1>1, <2>1 DEF MemoryInv, MemoryShapes, IsTurn
  <1>5. MemoryShapes'
    <2>1. \A u \in Turns : IsContext(ctx[u])'
      BY <1>2 DEF MemoryInv, MemoryShapes
    <2> QED BY <1>1, <1>2, <1>4, <2>1 DEF MemoryInv, MemoryShapes, IsDoc, IsWorker
  <1>6. ASSUME NEW u \in Turns
        PROVE  WorkerInv(u)' /\ ContextInv(u)'
    <2>1. WorkerInv(u) /\ ContextInv(u)
      BY DEF MemoryInv
    <2>2. WorkerInv(u)'
      BY <1>1, <1>4, <2>1 DEF WorkerInv, IsComputed
    <2>3. ContextInv(u)'
      BY <1>1, <1>2, <1>3, <2>1 DEF ContextInv, HasPending, Noted
    <2> QED BY <2>2, <2>3
  <1>7. ThreadInv'
    <2> SUFFICES ASSUME NEW u \in Turns, NEW v \in Turns, u # v
                 PROVE  /\ u \in BuildingContext' /\ v \in BuildingContext' => {u, v} \in overlap'
                        /\ Thread[u] = Thread[v] /\ {u, v} \notin overlap' => Disjoint(u, v)'
      BY DEF ThreadInv
    <2>1. \A w \in Turns \ {t} : w \in BuildingContext' <=> w \in BuildingContext
      BY <1>2 DEF BuildingContext
    <2>2. u \in BuildingContext' /\ v \in BuildingContext' => {u, v} \in overlap'
      <3>1. CASE u = t
        BY <1>1, <2>1, <3>1
      <3>2. CASE v = t
        <4>1. u \in BuildingContext => {t, u} \in overlap'
          BY <1>1
        <4> QED BY <2>1, <3>2, <4>1
      <3>3. CASE u # t /\ v # t
        BY <1>1, <2>1, <3>3 DEF MemoryInv, ThreadInv
      <3> QED BY <3>1, <3>2, <3>3
    <2>3. ASSUME Thread[u] = Thread[v], {u, v} \notin overlap'
          PROVE  Disjoint(u, v)'
      <3>1. Disjoint(u, v)
        BY <1>1, <2>3 DEF MemoryInv, ThreadInv
      <3> QED BY <1>1, <1>2, <1>3, <3>1 DEF Disjoint
    <2> QED BY <2>2, <2>3
  <1> QED BY <1>1, <1>5, <1>6, <1>7 DEF MemoryInv

\* A context that changes is still one, and the others are what they were.
LEMMA ContextSteps ==
    ASSUME MemoryInv, NEW t \in Turns, NEW to, Step(t, to)
    PROVE  /\ DOMAIN ctx' = Turns
           /\ \A u \in Turns \ {t} : ctx'[u] = ctx[u]
           /\ IsContext(ctx[t])'
           /\ ctx'[t].step = to /\ ctx'[t].from = ctx[t].from /\ ctx'[t].ids = ctx[t].ids
  <1>1. DOMAIN ctx = Turns /\ IsContext(ctx[t])
    BY AtContext
  <1>2. ctx'[t] = [ctx[t] EXCEPT !.step = to]
    BY <1>1 DEF Step
  <1>3. DOMAIN ctx' = Turns /\ \A u \in Turns \ {t} : ctx'[u] = ctx[u]
    BY <1>1 DEF Step
  <1> QED BY <1>1, <1>2, <1>3 DEF IsContext

\* The same of a context that is given memories.
LEMMA ContextRecalls ==
    ASSUME MemoryInv, NEW t \in Turns, NEW to, NEW ids,
           ctx' = [ctx EXCEPT ![t].step = to, ![t].ids = ids]
    PROVE  /\ DOMAIN ctx' = Turns
           /\ \A u \in Turns \ {t} : ctx'[u] = ctx[u]
           /\ IsContext(ctx[t])'
           /\ ctx'[t].step = to /\ ctx'[t].from = ctx[t].from /\ ctx'[t].ids = ids
  <1>1. DOMAIN ctx = Turns /\ IsContext(ctx[t])
    BY AtContext
  <1>2. ctx'[t] = [ctx[t] EXCEPT !.step = to, !.ids = ids]
    BY <1>1
  <1>3. DOMAIN ctx' = Turns /\ \A u \in Turns \ {t} : ctx'[u] = ctx[u]
    BY <1>1
  <1> QED BY <1>1, <1>2, <1>3 DEF IsContext

\* What changes in a turn that builds its context: the context, and little else.
LEMMA BuildsContext ==
    ASSUME MemoryInv, NEW t \in Turns, turn[t].step = "context",
           CodingContext(t) \/ ReviewContext(t)
    PROVE  MemoryInv'
  <1>0. /\ turn[t].kind = "coding" \/ turn[t].kind = "review"
        /\ UNCHANGED <<computed, worker, overlap, turn, asyncMemory>>
    BY DEF CodingContext, ReviewContext, ContextStep, FindPending, FilterPending, SettlePending,
           InjectPending, RecallMemory, FilterRecall, NoteRecall, NoMemory, turnVars
  <1>a. /\ asyncMemory
        /\ inPrompt[t] # {} => ctx[t].step = "ready"
        /\ HasPending(t) => \E v \in Turns : ctx[t].from = {v} /\ doc[v].status # "none"
    BY AtContext DEF ContextInv
  <1>1. ASSUME FindPending(t)
        PROVE  MemoryInv'
    <2>1. /\ ctx[t].step = "find"
          /\ ctx' = [ctx EXCEPT ![t].step = IF NewestPending(t) = {} THEN "recall" ELSE "filter",
                                ![t].from = NewestPending(t)]
          /\ UNCHANGED <<doc, ledger, inPrompt>>
      BY <1>1 DEF FindPending
    <2>2. DOMAIN ctx = Turns /\ IsContext(ctx[t]) /\ t \in BuildingContext
      BY <2>1, AtContext
    <2>3. PICK to \in {"recall", "filter"} :
            /\ ctx'[t] = [ctx[t] EXCEPT !.step = to, !.from = NewestPending(t)]
            /\ to = "filter" => NewestPending(t) # {}
      BY <2>1, <2>2
    <2>4. /\ IsContext(ctx[t])' /\ ctx'[t].step = to /\ ctx'[t].from = NewestPending(t)
          /\ DOMAIN ctx' = Turns /\ \A u \in Turns \ {t} : ctx'[u] = ctx[u]
      BY <2>1, <2>2, <2>3 DEF IsContext
    <2>5. HasPending(t)' => \E v \in Turns : ctx'[t].from = {v} /\ doc[v].status # "none"
      <3> SUFFICES ASSUME to = "filter"
                   PROVE  \E v \in Turns : NewestPending(t) = {v} /\ doc[v].status # "none"
        BY <2>4 DEF HasPending
      <3>1. PICK v \in NewestPending(t) : TRUE
        BY <2>3
      <3>2. NewestPending(t) = {v}
        BY <3>1, NewestIsOne
      <3>3. v \in Turns /\ doc[v].status = "pending"
        BY <3>1 DEF NewestPending, PendingDocs
      <3> QED BY <3>2, <3>3
    <2> QED BY <1>0, <2>1, <2>2, <2>4, <2>5, AtContext, QuietContext
  <1>2. ASSUME FilterPending(t)
        PROVE  MemoryInv'
    <2>1. PICK u \in ctx[t].from :
            Step(t, IF Fresh(t, doc[u].ids) = doc[u].ids THEN "consume" ELSE "suppress")
      BY <1>2 DEF FilterPending
    <2>2. ctx[t].step = "filter" /\ t \in BuildingContext /\ UNCHANGED <<doc, ledger, inPrompt>>
      BY <1>2, AtContext DEF FilterPending
    <2>3. u \in Turns /\ ctx[t].from = {u} /\ doc[u].status # "none" /\ inPrompt[t] = {}
      BY <1>a, <2>1, <2>2 DEF HasPending
    <2>4. CASE Fresh(t, doc[u].ids) = doc[u].ids
      <3>1. Step(t, "consume")
        BY <2>1, <2>4
      <3>2. /\ DOMAIN ctx' = Turns /\ IsContext(ctx[t])'
            /\ \A v \in Turns \ {t} : ctx'[v] = ctx[v]
            /\ ctx'[t].step = "consume" /\ ctx'[t].from = {u}
        BY <2>3, <3>1, ContextSteps
      <3>3. \A v \in Turns \ {t} : Thread[t] = Thread[v] => inPrompt[v] \cap doc[u].ids = {}
        BY <2>4, FreshIsNew, ShownIsNoted
      <3>4. ContextInv(t)'
        BY <2>2, <2>3, <3>2 DEF ContextInv
      <3>5. DocsStay /\ \A v \in Turns : Noted(v) \subseteq Noted(v)' /\ IsDoc(doc[v])'
        BY <2>2, AtContext DEF DocsStay, Noted, IsDoc
      <3> QED BY <1>0, <2>2, <2>3, <3>2, <3>3, <3>4, <3>5, AtContext, OneContextMoves
    <2>5. CASE Fresh(t, doc[u].ids) # doc[u].ids
      <3>1. Step(t, "suppress")
        BY <2>1, <2>5
      <3> QED BY <1>0, <2>2, <2>3, <3>1, ContextSteps, AtContext, QuietContext
    <2> QED BY <2>4, <2>5
  <1>3. ASSUME SettlePending(t)
        PROVE  MemoryInv'
    <2>1. PICK u \in ctx[t].from :
            \E status \in {"consumed", "suppressed"} : doc' = [doc EXCEPT ![u].status = status]
      BY <1>3 DEF SettlePending
    <2>2. /\ ctx[t].step \in {"consume", "suppress"}
          /\ Step(t, IF ctx[t].step = "consume" THEN "inject" ELSE "recall")
          /\ t \in BuildingContext /\ UNCHANGED <<ledger, inPrompt>>
      BY <1>3, AtContext DEF SettlePending
    <2>3. u \in Turns /\ ctx[t].from = {u} /\ doc[u].status # "none" /\ inPrompt[t] = {}
      BY <1>a, <2>1, <2>2 DEF HasPending
    <2>4. PICK status \in {"consumed", "suppressed"} : doc'[u] = [doc[u] EXCEPT !.status = status]
      BY <2>1, <2>3, AtContext
    <2>5. DOMAIN doc' = Turns /\ \A v \in Turns \ {u} : doc'[v] = doc[v]
      BY <2>1, <2>3, AtContext
    <2>6. IsDoc(doc[u])
      BY <2>3, AtContext
    <2>7. /\ IsDoc(doc[u])' /\ doc'[u].status # "none"
          /\ doc'[u].ids = doc[u].ids /\ doc'[u].prompt = doc[u].prompt
      BY <2>4, <2>6 DEF IsDoc
    <2>8. \A v \in Turns : IsDoc(doc[v])'
      BY <2>5, <2>7, AtContext DEF IsDoc
    <2>9. DocsStay /\ \A v \in Turns : Noted(v) \subseteq Noted(v)'
      BY <2>2, <2>5, <2>7 DEF DocsStay, Noted
    <2>10. /\ DOMAIN ctx' = Turns /\ IsContext(ctx[t])'
           /\ \A v \in Turns \ {t} : ctx'[v] = ctx[v]
           /\ ctx'[t].step = IF ctx[t].step = "consume" THEN "inject" ELSE "recall"
           /\ ctx'[t].from = {u}
      BY <2>2, <2>3, ContextSteps
    <2>11. ContextInv(t)'
      BY <2>2, <2>3, <2>7, <2>10 DEF ContextInv
    <2>12. \A v \in Turns \ {t} :
             Thread[t] = Thread[v] /\ {t, v} \notin overlap /\ ctx[t].step = "consume"
               => inPrompt[v] \cap doc[u].ids = {}
      BY <2>3, AtContext DEF Disjoint
    <2> QED BY <1>0, <2>2, <2>3, <2>5, <2>7, <2>8, <2>9, <2>10, <2>11, <2>12, AtContext, OneContextMoves
  <1>4. ASSUME InjectPending(t)
        PROVE  MemoryInv'
    <2>1. PICK u \in ctx[t].from :
            /\ Inject(t, doc[u].ids)
            /\ inPrompt' = [inPrompt EXCEPT ![t] = doc[u].prompt]
      BY <1>4 DEF InjectPending
    <2>2. ctx[t].step = "inject" /\ Step(t, "ready") /\ t \in BuildingContext /\ doc' = doc
      BY <1>4, AtContext DEF InjectPending
    <2>3. u \in Turns /\ ctx[t].from = {u}
      BY <1>a, <2>1, <2>2 DEF HasPending
    <2>4. /\ DOMAIN inPrompt' = Turns /\ inPrompt'[t] = doc[u].prompt
          /\ \A v \in Turns \ {t} : inPrompt'[v] = inPrompt[v]
      BY <2>1, AtContext
    <2>5. doc[u].prompt \subseteq doc[u].ids
      BY <2>3 DEF MemoryInv, WorkerInv
    <2>6. doc[u].ids \subseteq Noted(t)' /\ \A v \in Turns : Noted(v) \subseteq Noted(v)'
      BY <2>1, InjectedIsNoted
    <2>7. /\ DOMAIN ctx' = Turns /\ IsContext(ctx[t])'
          /\ \A v \in Turns \ {t} : ctx'[v] = ctx[v]
          /\ ctx'[t].step = "ready"
      BY <2>2, ContextSteps
    <2>8. ContextInv(t)'
      BY <2>4, <2>5, <2>6, <2>7 DEF ContextInv, HasPending
    <2>9. \A v \in Turns \ {t} :
            Thread[t] = Thread[v] /\ {t, v} \notin overlap => inPrompt'[t] \cap inPrompt[v] = {}
      BY <2>2, <2>3, <2>4, <2>5, AtContext DEF Disjoint
    <2>10. DocsStay /\ \A v \in Turns : IsDoc(doc[v])'
      BY <2>2, AtContext DEF DocsStay, IsDoc
    <2> QED BY <1>0, <2>2, <2>4, <2>6, <2>7, <2>8, <2>9, <2>10, AtContext, OneContextMoves
  <1>5. ASSUME RecallMemory(t, asyncMemory)
        PROVE  MemoryInv'
    <2>1. PICK ids \in SUBSET Memories :
            /\ ctx' = [ctx EXCEPT ![t].step = IF asyncMemory /\ ids # {} THEN "dedupe" ELSE "ready",
                                  ![t].ids = ids]
            /\ inPrompt' = [inPrompt EXCEPT ![t] = IF asyncMemory THEN {} ELSE ids]
      BY <1>5 DEF RecallMemory
    <2>2. ctx[t].step = "recall" /\ t \in BuildingContext /\ UNCHANGED <<doc, ledger>>
      BY <1>5, AtContext DEF RecallMemory
    <2>3. inPrompt[t] = {}
      BY <1>a, <2>2
    <2>4. DOMAIN inPrompt' = Turns /\ \A v \in Turns : inPrompt'[v] = inPrompt[v]
      <3>1. inPrompt' = [inPrompt EXCEPT ![t] = {}]
        BY <1>a, <2>1
      <3> QED BY <2>3, <3>1, AtContext
    <2>5. PICK to \in {"dedupe", "ready"} : ctx' = [ctx EXCEPT ![t].step = to, ![t].ids = ids]
      BY <2>1
    <2>6. HasPending(t)' => FALSE
      BY <2>5, ContextRecalls DEF HasPending
    <2> QED BY <1>0, <2>2, <2>4, <2>5, <2>6, ContextRecalls, QuietContext
  <1>6. ASSUME NoMemory(t)
        PROVE  MemoryInv'
    <2>1. ctx[t].step = "recall" /\ Step(t, "ready") /\ t \in BuildingContext
          /\ UNCHANGED <<doc, ledger, inPrompt>>
      BY <1>6, AtContext DEF NoMemory
    <2>2. HasPending(t)' => FALSE
      BY <2>1, ContextSteps DEF HasPending
    <2> QED BY <1>0, <2>1, <2>2, ContextSteps, AtContext, QuietContext
  <1>7. ASSUME FilterRecall(t)
        PROVE  MemoryInv'
    <2>1. /\ ctx[t].step = "dedupe" /\ t \in BuildingContext
          /\ UNCHANGED <<doc, ledger, inPrompt>>
      BY <1>7, AtContext DEF FilterRecall
    <2> DEFINE ids == Fresh(t, ctx[t].ids)
    <2>2. PICK to \in {"ready", "note"} : ctx' = [ctx EXCEPT ![t].step = to, ![t].ids = ids]
      BY <1>7 DEF FilterRecall
    <2>4. \A v \in Turns \ {t} : Thread[t] = Thread[v] => inPrompt[v] \cap ids = {}
      BY FreshIsNew, ShownIsNoted
    <2>3. /\ DOMAIN ctx' = Turns /\ IsContext(ctx[t])'
          /\ \A v \in Turns \ {t} : ctx'[v] = ctx[v]
          /\ ctx'[t].step \in {"ready", "note"} /\ ctx'[t].ids = ids
      <3>1. DOMAIN ctx = Turns /\ IsContext(ctx[t])
        BY AtContext
      <3>2. ctx'[t] = [ctx[t] EXCEPT !.step = to, !.ids = ids]
        BY <2>2, <3>1
      <3> HIDE DEF ids
      <3>3. IsContext(ctx[t])' /\ ctx'[t].step = to /\ ctx'[t].ids = ids
        BY <3>1, <3>2 DEF IsContext
      <3>4. DOMAIN ctx' = Turns /\ \A v \in Turns \ {t} : ctx'[v] = ctx[v]
        BY <2>2, <3>1
      <3> QED BY <3>3, <3>4
    <2>5. inPrompt[t] = {}
      BY <1>a, <2>1
    <2>6. ContextInv(t)'
      BY <2>1, <2>3, <2>5 DEF ContextInv, HasPending
    <2>7. DocsStay /\ \A v \in Turns : Noted(v) \subseteq Noted(v)' /\ IsDoc(doc[v])'
      BY <2>1, AtContext DEF DocsStay, Noted, IsDoc
    <2> HIDE DEF ids
    <2> QED BY <1>0, <2>1, <2>3, <2>4, <2>5, <2>6, <2>7, AtContext, OneContextMoves
  <1>8. ASSUME NoteRecall(t)
        PROVE  MemoryInv'
    <2>1. /\ ctx[t].step = "note" /\ Step(t, "ready") /\ t \in BuildingContext /\ doc' = doc
          /\ Inject(t, ctx[t].ids)
          /\ inPrompt' = [inPrompt EXCEPT ![t] = ctx[t].ids]
      BY <1>8, AtContext DEF NoteRecall
    <2>2. /\ DOMAIN inPrompt' = Turns /\ inPrompt'[t] = ctx[t].ids
          /\ \A v \in Turns \ {t} : inPrompt'[v] = inPrompt[v]
      BY <2>1, AtContext
    <2>3. ctx[t].ids \subseteq Noted(t)' /\ \A v \in Turns : Noted(v) \subseteq Noted(v)'
      BY <2>1, InjectedIsNoted
    <2>4. /\ DOMAIN ctx' = Turns /\ IsContext(ctx[t])'
          /\ \A v \in Turns \ {t} : ctx'[v] = ctx[v]
          /\ ctx'[t].step = "ready"
      BY <2>1, ContextSteps
    <2>5. ContextInv(t)'
      BY <2>2, <2>3, <2>4 DEF ContextInv, HasPending
    <2>6. \A v \in Turns \ {t} :
            Thread[t] = Thread[v] /\ {t, v} \notin overlap => inPrompt'[t] \cap inPrompt[v] = {}
      BY <2>1, <2>2, AtContext DEF Disjoint
    <2>7. DocsStay /\ \A v \in Turns : IsDoc(doc[v])'
      BY <2>1, AtContext DEF DocsStay, IsDoc
    <2> QED BY <1>0, <2>1, <2>2, <2>3, <2>4, <2>5, <2>6, <2>7, AtContext, OneContextMoves
  <1> QED BY <1>1, <1>2, <1>3, <1>4, <1>5, <1>6, <1>7, <1>8
          DEF CodingContext, ReviewContext, ContextStep

\* A worker looks for memories and leaves a context for the turns to come.
LEMMA WorkerKeeps ==
    ASSUME MemoryInv, NEW t \in Turns, MemoryStep(t)
    PROVE  MemoryInv'
  <1>1. /\ worker[t].step \in {"score", "fresh", "compare", "stale", "insert"}
        /\ \E to \in {"fresh", "compare", "stale", "insert", "over"} : \E ids :
                worker' = [worker EXCEPT ![t] = [step |-> to, ids |-> ids]]
        /\ UNCHANGED <<ledger, ctx, inPrompt, overlap, turn, asyncMemory>>
    BY DEF MemoryStep, WorkerStep, Score, DropInjected, ComparePending, StaleExisting, InsertPending,
           WorkerMoves, turnVars
  <1>2. /\ computed' \in Seq(Turns)
        /\ \A u \in Turns : IsComputed(u) => IsComputed(u)'
        /\ worker[t].step = "score" => IsComputed(t)'
    <2>1. CASE Score(t)
      <3>1. computed \in Seq(Turns) /\ computed' = Append(computed, t)
        BY <2>1 DEF Score, MemoryInv, MemoryShapes
      <3>2. /\ computed' \in Seq(Turns) /\ Len(computed') = Len(computed) + 1 /\ Len(computed) \in Nat
            /\ computed'[Len(computed) + 1] = t
            /\ \A i \in 1..Len(computed) : computed'[i] = computed[i]
        BY <3>1
      <3> QED BY <3>2 DEF IsComputed
    <2>2. CASE ~Score(t)
      <3>1. computed' = computed /\ worker[t].step # "score"
        BY <2>2 DEF MemoryStep, WorkerStep, Score, DropInjected, ComparePending, StaleExisting,
                    InsertPending, WorkerMoves
      <3> QED BY <3>1 DEF IsComputed, MemoryInv, MemoryShapes
    <2> QED BY <2>1, <2>2
  <1>3. /\ DOMAIN worker' = Turns /\ IsWorker(worker[t])'
        /\ \A u \in Turns \ {t} : worker'[u] = worker[u]
        /\ worker'[t].step \in {"fresh", "compare", "stale", "insert", "over"}
    <2>0. PICK to \in {"fresh", "compare", "stale", "insert", "over"} : \E ids :
                worker' = [worker EXCEPT ![t] = [step |-> to, ids |-> ids]]
      BY <1>1
    <2>1. PICK ids : worker' = [worker EXCEPT ![t] = [step |-> to, ids |-> ids]]
      BY <2>0
    <2>2. worker'[t] = [step |-> to, ids |-> ids]
      BY <2>1 DEF MemoryInv, MemoryShapes
    <2> QED BY <2>1, <2>2 DEF MemoryInv, MemoryShapes, IsWorker
  <1>4. doc[t].status = "none" /\ turn[t].step = "over"
    BY <1>1 DEF MemoryInv, WorkerInv
  <1>5. /\ DOMAIN doc' = Turns
        /\ \A u \in Turns : IsDoc(doc[u])' /\ doc'[u].prompt \subseteq doc'[u].ids
        /\ DocsStay
        /\ \A u \in Turns : doc'[u].status # "none" =>
                doc[u].status # "none" \/ (u = t /\ worker[t].step = "insert" /\ worker'[t].step = "over")
    <2>1. /\ DOMAIN doc = Turns
          /\ \A u \in Turns : IsDoc(doc[u]) /\ doc[u].prompt \subseteq doc[u].ids
      BY DEF MemoryInv, MemoryShapes, WorkerInv
    <2>2. CASE doc' = doc
      BY <2>1, <2>2 DEF DocsStay, IsDoc
    <2>3. CASE StaleExisting(t)
      <3>1. DOMAIN doc' = Turns
        BY <2>3 DEF StaleExisting
      <3>2. ASSUME NEW u \in Turns
            PROVE  /\ IsDoc(doc[u])'
                   /\ doc'[u].ids = doc[u].ids /\ doc'[u].prompt = doc[u].prompt
                   /\ doc'[u].status = "none" <=> doc[u].status = "none"
        <4>1. CASE u \in PendingDocs(t)
          <5>1. doc'[u] = [doc[u] EXCEPT !.status = "stale"] /\ doc[u].status = "pending"
            BY <2>3, <4>1 DEF StaleExisting, PendingDocs
          <5> QED BY <2>1, <5>1 DEF IsDoc
        <4>2. CASE u \notin PendingDocs(t)
          BY <2>1, <2>3, <4>2 DEF StaleExisting, IsDoc
        <4> QED BY <4>1, <4>2
      <3> QED BY <2>1, <3>1, <3>2 DEF DocsStay
    <2>4. CASE InsertPending(t)
      <3>1. PICK prompt \in SUBSET worker[t].ids :
                doc' = [doc EXCEPT ![t] =
                    [status |-> "pending", ids |-> worker[t].ids, prompt |-> prompt]]
        BY <2>4 DEF InsertPending
      <3>2. /\ DOMAIN doc' = Turns
            /\ doc'[t] = [status |-> "pending", ids |-> worker[t].ids, prompt |-> prompt]
            /\ \A u \in Turns \ {t} : doc'[u] = doc[u]
        BY <2>1, <3>1
      <3>3. worker[t].step = "insert" /\ worker'[t].step = "over"
        BY <2>4 DEF InsertPending, WorkerMoves, MemoryInv, MemoryShapes
      <3>4. IsDoc(doc[t])' /\ doc'[t].prompt \subseteq doc'[t].ids
        BY <3>1, <3>2 DEF IsDoc
      <3>5. \A u \in Turns \ {t} : IsDoc(doc[u])'
        BY <2>1, <3>2 DEF IsDoc
      <3> QED BY <1>4, <2>1, <3>2, <3>3, <3>4, <3>5 DEF DocsStay
    <2> QED BY <2>2, <2>3, <2>4 DEF MemoryStep, WorkerStep, Score, DropInjected, ComparePending
  <1>6. MemoryShapes'
    <2>1. \A u \in Turns : IsContext(ctx[u])' /\ IsTurn(turn[u])'
      BY <1>1 DEF MemoryInv, MemoryShapes, IsContext, IsTurn
    <2>2. \A u \in Turns : IsWorker(worker[u])'
      BY <1>3 DEF MemoryInv, MemoryShapes, IsWorker
    <2>3. DOMAIN ctx' = Turns /\ DOMAIN turn' = Turns /\ DOMAIN inPrompt' = Turns
      BY <1>1 DEF MemoryInv, MemoryShapes
    <2> QED BY <1>2, <1>3, <1>5, <2>1, <2>2, <2>3 DEF MemoryShapes
  <1>7. ASSUME NEW u \in Turns
        PROVE  WorkerInv(u)'
    <2>1. WorkerInv(u)
      BY DEF MemoryInv
    <2>2. CASE u = t
      <3>1. IsComputed(t)'
        BY <1>1, <1>2, <2>1, <2>2 DEF WorkerInv
      <3>2. doc'[t].status # "none" => worker'[t].step = "over"
        BY <1>4, <1>5
      <3> QED BY <1>1, <1>3, <1>4, <1>5, <2>1, <2>2, <3>1, <3>2 DEF WorkerInv
    <2>3. CASE u # t
      BY <1>1, <1>2, <1>3, <1>5, <2>1, <2>3 DEF WorkerInv
    <2> QED BY <2>2, <2>3
  <1> QED BY <1>1, <1>5, <1>6, <1>7, ContextsStay DEF MemoryInv

\* A turn goes on, and sends its worker off at its end.
LEMMA TurnKeeps ==
    ASSUME MemoryInv, NEW t \in Turns,
           \/ BeginTurn(t) \/ CompactOutput(t) \/ CompleteTurn(t) \/ FailTurn(t)
           \/ \E result \in {"answer", "error"} : AgentEnds(t, result)
    PROVE  MemoryInv'
  <1>1. /\ turn[t].step # "over" \/ turn' = turn
        /\ \/ turn' = turn
           \/ \E to \in {"generate", "compact", "fail", "complete", "over"} :
                turn' = [turn EXCEPT ![t].step = to]
           \/ \E to \in {"compact", "fail"}, result \in {"answer", "error"} :
                turn' = [turn EXCEPT ![t].step = to, ![t].result = result]
        /\ \/ worker' = worker
           \/ /\ turn[t].step # "over"
              /\ turn' = [turn EXCEPT ![t].step = "over"]
              /\ worker' = [worker EXCEPT ![t].step = "score"]
        /\ UNCHANGED <<doc, computed, ledger, ctx, inPrompt, overlap, asyncMemory>>
    BY DEF BeginTurn, Begun, CompactOutput, CompleteTurn, FailTurn, Ended, Schedules, Goes, AgentEnds,
           memVars
  <1>2. DOMAIN turn = Turns /\ IsTurn(turn[t]) /\ DOMAIN worker = Turns /\ IsWorker(worker[t])
    BY DEF MemoryInv, MemoryShapes
  <1> DEFINE TurnStays == /\ DOMAIN turn' = Turns
                          /\ \A u \in Turns \ {t} : turn'[u] = turn[u]
                          /\ IsTurn(turn[t])' /\ turn'[t].kind = turn[t].kind
  <1>3. TurnStays
    <2>1. CASE turn' = turn
      BY <1>2, <2>1 DEF IsTurn
    <2>2. ASSUME NEW to \in {"generate", "compact", "fail", "complete", "over"},
                 turn' = [turn EXCEPT ![t].step = to]
          PROVE  TurnStays
      <3>1. turn'[t] = [turn[t] EXCEPT !.step = to]
        BY <1>2, <2>2
      <3> QED BY <1>2, <2>2, <3>1 DEF IsTurn
    <2>3. ASSUME NEW to \in {"compact", "fail"}, NEW result \in {"answer", "error"},
                 turn' = [turn EXCEPT ![t].step = to, ![t].result = result]
          PROVE  TurnStays
      <3>1. turn'[t] = [turn[t] EXCEPT !.step = to, !.result = result]
        BY <1>2, <2>3
      <3> QED BY <1>2, <2>3, <3>1 DEF IsTurn
    <2> HIDE DEF TurnStays
    <2> QED BY <1>1, <2>1, <2>2, <2>3
  <1>4. /\ DOMAIN worker' = Turns /\ IsWorker(worker[t])'
        /\ \A u \in Turns \ {t} : worker'[u] = worker[u]
        /\ \/ worker'[t] = worker[t] /\ (worker[t].step # "none" => turn'[t].step = "over")
           \/ worker'[t].step = "score" /\ turn'[t].step = "over" /\ worker[t].step = "none"
    <2>1. CASE worker' = worker
      <3>1. worker[t].step # "none" => turn'[t] = turn[t] /\ turn[t].step = "over"
        BY <1>1 DEF MemoryInv, WorkerInv
      <3> QED BY <1>2, <2>1, <3>1 DEF IsWorker
    <2>2. CASE /\ turn[t].step # "over"
               /\ turn' = [turn EXCEPT ![t].step = "over"]
               /\ worker' = [worker EXCEPT ![t].step = "score"]
      <3>1. worker'[t] = [worker[t] EXCEPT !.step = "score"]
            /\ turn'[t] = [turn[t] EXCEPT !.step = "over"]
        BY <1>2, <2>2
      <3>2. worker[t].step = "none"
        BY <2>2 DEF MemoryInv, WorkerInv
      <3> QED BY <1>2, <2>2, <3>1, <3>2 DEF IsWorker, IsTurn
    <2> QED BY <1>1, <2>1, <2>2
  <1>5. DocsStay
    BY <1>1 DEF DocsStay
  <1>6. MemoryShapes'
    <2>1. \A u \in Turns : IsDoc(doc[u])' /\ IsContext(ctx[u])'
      BY <1>1 DEF MemoryInv, MemoryShapes, IsDoc, IsContext
    <2>2. \A u \in Turns : IsWorker(worker[u])' /\ IsTurn(turn[u])'
      BY <1>3, <1>4 DEF MemoryInv, MemoryShapes, IsWorker, IsTurn
    <2> QED BY <1>1, <1>3, <1>4, <2>1, <2>2 DEF MemoryInv, MemoryShapes
  <1>7. ASSUME NEW u \in Turns
        PROVE  WorkerInv(u)'
    <2>1. WorkerInv(u)
      BY DEF MemoryInv
    <2>2. CASE u # t
      BY <1>1, <1>3, <1>4, <2>1, <2>2 DEF WorkerInv, IsComputed
    <2>3. CASE u = t
      BY <1>1, <1>3, <1>4, <2>1, <2>3 DEF WorkerInv, IsComputed
    <2> QED BY <2>2, <2>3
  <1> QED BY <1>1, <1>5, <1>6, <1>7, ContextsStay DEF MemoryInv

\* Everything that happens where the memory is at stake.
LEMMA MemoryKeeps ==
    ASSUME MemoryInv, MemoryWorld
    PROVE  MemoryInv'
  <1>1. PICK t \in Turns :
            \/ StartTurn(t, "coding") \/ StartTurn(t, "review")
            \/ TurnStep(t) \/ AgentEnds(t, "answer") \/ AgentEnds(t, "error")
            \/ MemoryStep(t)
    BY DEF MemoryWorld
  <1>2. turn[t].kind \in {"none", "coding", "review"}
    BY DEF MemoryInv, WorkerInv
  <1>3. CASE TurnStep(t)
    <2>1. ~AutomationContext(t) /\ ~KnowledgeContext(t)
      BY <1>2 DEF AutomationContext, KnowledgeContext
    <2>2. CodingContext(t) \/ ReviewContext(t) => turn[t].step = "context"
      BY DEF CodingContext, ReviewContext
    <2> QED BY <1>3, <2>1, <2>2, BuildsContext, TurnKeeps DEF TurnStep
  <1> QED BY <1>1, <1>3, StartsContext, WorkerKeeps, TurnKeeps

\* Unless the database threw, a memory is shown twice in a thread only to turns that were
\* building their contexts at the same time.
THEOREM ShownOnce == SpecCoding => []MemoryShownOnce
  <1>1. InitCoding => ShownInv
    <2> SUFFICES ASSUME InitCoding
                 PROVE  ShownInv
      OBVIOUS
    <2> USE DEF InitCoding, InitHarness, InitMemory, InitTurns
    <2>1. failures = 0 /\ (world = "memory" => asyncMemory) /\ \A t \in Turns : inPrompt[t] = {}
      OBVIOUS
    <2>2. MemoryShapes
      BY DEF MemoryShapes, IsDoc, IsContext, IsWorker, IsTurn, NothingPending, NoContext
    <2>3. \A t \in Turns : WorkerInv(t) /\ ContextInv(t)
      BY DEF WorkerInv, ContextInv, HasPending, NothingPending, NoContext
    <2>4. ThreadInv
      BY DEF ThreadInv, Disjoint, BuildingContext, NoContext
    <2> QED BY <2>1, <2>2, <2>3, <2>4 DEF ShownInv, MemoryInv
  <1>2. ASSUME ShownInv, [NextCoding]_allVars
        PROVE  ShownInv'
    <2>1. failures \in Nat
      BY <1>2 DEF ShownInv
    <2>2. CASE Works /\ failures' = failures /\ world' = world
      <3>1. CASE failures = 0 /\ world = "memory"
        <4>1. MemoryInv /\ MemoryWorld
          BY <1>2, <2>2, <3>1 DEF ShownInv, Works
        <4> QED BY <2>2, <3>1, <4>1, MemoryKeeps DEF ShownInv
      <3>2. CASE failures = 0 /\ world # "memory"
        <4>1. inPrompt' = inPrompt
          BY <2>2, <3>2 DEF Works, OnlyWorkflow, ToolsWorld, OnlyTools, harnessVars, memVars,
                            StartTurn, StartContext, AgentWorks, AgentStep, AgentHangs, AgentEnds,
                            TimesOut, CallsTool
        <4> QED BY <1>2, <2>2, <3>2, <4>1 DEF ShownInv
      <3> QED BY <2>1, <2>2, <3>1, <3>2 DEF ShownInv
    <2>3. CASE failures' = failures + 1
      BY <2>1, <2>3 DEF ShownInv
    <2>4. CASE UNCHANGED allVars
      <3>1. UNCHANGED <<doc, computed, ledger, ctx, worker, inPrompt, overlap, turn, asyncMemory,
                        world, failures>>
        BY <2>4 DEF allVars, harnessVars, memVars, turnVars
      <3>2. MemoryInv => MemoryInv'
        BY <3>1 DEF MemoryInv, MemoryShapes, WorkerInv, ContextInv, ThreadInv, Disjoint,
                    IsDoc, IsContext, IsWorker, IsTurn, IsComputed, HasPending, Noted, BuildingContext
      <3> QED BY <1>2, <3>1, <3>2 DEF ShownInv
    <2> QED BY <1>2, <2>2, <2>3, <2>4 DEF NextCoding
  <1>3. ShownInv => MemoryShownOnce
    <2> SUFFICES ASSUME ShownInv, failures = 0, NEW t \in Turns, NEW u \in Turns,
                        t # u, SameScope(t, u), {t, u} \notin overlap
                 PROVE  inPrompt[t] \cap inPrompt[u] = {}
      BY DEF MemoryShownOnce
    <2>1. CASE world = "memory"
      <3>1. Thread[t] = Thread[u]
        BY TaskHasOneThread DEF SameScope
      <3> QED BY <2>1, <3>1 DEF ShownInv, MemoryInv, ThreadInv, Disjoint
    <2>2. CASE world # "memory"
      BY <2>2 DEF ShownInv
    <2> QED BY <2>1, <2>2
  <1> QED BY <1>1, <1>2, <1>3, PTL DEF SpecCoding
=============================================================================
