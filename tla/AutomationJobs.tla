---------------------------- MODULE AutomationJobs ----------------------------
(***************************************************************************)
(* services/automation-job-manager.ts around the golden path: a job is a   *)
(* record in automation_jobs, an entry of liveJobs in the process that     *)
(* executes it, and in the end a message to whoever asked for it.  Cancel  *)
(* and the tool that marks stale jobs write the same record at any time,   *)
(* and the process may go.                                                 *)
(***************************************************************************)
EXTENDS GoldenPath

CONSTANTS
    Jobs,           \* executions that are jobs; the others have executionMode sync
    MaxTroubles     \* throwing calls, lost answers and restarts

ASSUME JobsAssumption == Jobs \subseteq Runs /\ MaxTroubles \in Nat

VARIABLES
    status,         \* job -> status of its record
    job,            \* job -> step of startAutomationJob and executeAutomationJob
    flagged,        \* jobs whose live.cancelled is set
    cancelling,     \* jobs a cancelAutomationJob is about to write
    posted,         \* job -> messages queued about it
    troubles

jobVars == <<status, job, flagged, cancelling, posted, troubles>>
vars == <<pathVars, jobVars>>

JobSteps == {"none", "queued", "live", "claimed", "path", "complete", "notify", "caught",
             "notifyFailure", "over", "lost"}
JobStatuses == {"none", "queued", "running", "completed", "failed", "cancelled", "stale"}

TypeOK ==
    /\ PathOK
    /\ status \in [Jobs -> JobStatuses]
    /\ job \in [Jobs -> JobSteps]
    /\ flagged \subseteq Jobs
    /\ cancelling \subseteq Jobs
    /\ posted \in [Jobs -> SUBSET {"result", "failure"}]
    /\ troubles \in 0 .. MaxTroubles

Init ==
    /\ InitPath
    /\ status = [j \in Jobs |-> "none"]
    /\ job = [j \in Jobs |-> "none"]
    /\ flagged = {}
    /\ cancelling = {}
    /\ posted = [j \in Jobs |-> {}]
    /\ troubles = 0

Write(j, new) == status' = [status EXCEPT ![j] = new]
Turn(j, from, to) == job[j] = from /\ job' = [job EXCEPT ![j] = to]
Trouble == troubles < MaxTroubles /\ troubles' = troubles + 1

-----------------------------------------------------------------------------
\* startAutomationRequest, executionMode sync, and architect_execute_automation_request;
\* an execution that is given no automation draws one.
StartSync(j) ==
    /\ j \notin Jobs
    /\ At(j, "idle")
    /\ LET a == IF input[j].auto = NoWorkflow THEN j ELSE input[j].auto IN
       path' = [path EXCEPT ![j].at = "prepare", ![j].wf = input[j].wf, ![j].auto = a,
                            ![j].target = a]
    /\ UNCHANGED <<n8nVars, approved, input, jobVars>>

StepSync(j) ==
    /\ j \notin Jobs
    /\ PathStep(j)
    /\ UNCHANGED jobVars

\* startAutomationJob
StartJob(j) ==
    /\ Turn(j, "none", "queued")
    /\ Write(j, "queued")
    /\ path' = [path EXCEPT ![j].wf = input[j].wf,
                            ![j].auto = AutomationOf(j, input[j]),
                            ![j].target = AutomationOf(j, input[j])]
    /\ UNCHANGED <<n8nVars, approved, input, flagged, cancelling, posted, troubles>>

\* executeAutomationJob has awaited getDb: liveJobs.set
GoLive(j) ==
    /\ Turn(j, "queued", "live")
    /\ UNCHANGED <<pathVars, status, flagged, cancelling, posted, troubles>>

\* The update from queued to running, on which everything else depends.
Claim(j) ==
    /\ IF status[j] = "queued"
       THEN Turn(j, "live", "claimed") /\ Write(j, "running")
       ELSE Turn(j, "live", "over") /\ UNCHANGED status
    /\ UNCHANGED <<pathVars, flagged, cancelling, posted, troubles>>

EnterPath(j) ==
    /\ IF j \in flagged
       THEN Turn(j, "claimed", "over") /\ UNCHANGED path
       ELSE Turn(j, "claimed", "path") /\ Go(j, "prepare")
    /\ UNCHANGED <<n8nVars, approved, input, status, flagged, cancelling, posted, troubles>>

StepPath(j) ==
    /\ job[j] = "path"
    /\ PathStep(j)
    /\ UNCHANGED jobVars

\* Mutant: the record is not read again after the golden path.
LeavePathBlindly(j) ==
    /\ At(j, "end")
    /\ Turn(j, "path", "complete")
    /\ UNCHANGED <<pathVars, status, flagged, cancelling, posted, troubles>>

\* The golden path has returned: the job looks whether it was cancelled, in the process
\* or in the record.
LeavePath(j) ==
    /\ At(j, "end")
    /\ Turn(j, "path", IF j \in flagged \/ status[j] = "cancelled" THEN "over" ELSE "complete")
    /\ UNCHANGED <<pathVars, status, flagged, cancelling, posted, troubles>>

\* Some awaits later the record is written without a condition.
Complete(j) ==
    /\ Turn(j, "complete", "notify")
    /\ Write(j, "completed")
    /\ UNCHANGED <<pathVars, flagged, cancelling, posted, troubles>>

\* queueAutomationJobResult, for a job that wakes its owner
Notify(j) ==
    /\ Turn(j, "notify", "over")
    /\ posted' = [posted EXCEPT ![j] = @ \cup {"result"}]
    /\ UNCHANGED <<pathVars, status, flagged, cancelling, troubles>>

\* The catch: it reads the record, writes failed and tells the owner.
Caught(j) ==
    /\ IF status[j] = "cancelled"
       THEN Turn(j, "caught", "over") /\ UNCHANGED status
       ELSE Turn(j, "caught", "notifyFailure") /\ Write(j, "failed")
    /\ UNCHANGED <<pathVars, flagged, cancelling, posted, troubles>>

NotifyFailure(j) ==
    /\ Turn(j, "notifyFailure", "over")
    /\ posted' = [posted EXCEPT ![j] = @ \cup {"failure"}]
    /\ UNCHANGED <<pathVars, status, flagged, cancelling, troubles>>

-----------------------------------------------------------------------------
\* cancelAutomationJob: it finds the job queued or running and sets the flag of the live
\* one; the write is conditional.
Cancel(j) ==
    /\ status[j] \in {"queued", "running"}
    /\ j \notin cancelling
    /\ cancelling' = cancelling \cup {j}
    /\ flagged' = IF job[j] \in {"live", "claimed", "path"} THEN flagged \cup {j} ELSE flagged
    /\ UNCHANGED <<pathVars, status, job, posted, troubles>>

\* Mutant: the write is not conditional.
CancelWriteAlways(j) ==
    /\ j \in cancelling
    /\ cancelling' = cancelling \ {j}
    /\ Write(j, "cancelled")
    /\ UNCHANGED <<pathVars, job, flagged, posted, troubles>>

CancelWrite(j) ==
    /\ j \in cancelling
    /\ cancelling' = cancelling \ {j}
    /\ status' = IF status[j] \in {"queued", "running"}
                 THEN [status EXCEPT ![j] = "cancelled"] ELSE status
    /\ UNCHANGED <<pathVars, job, flagged, posted, troubles>>

\* markStaleAutomationJobs; how old a heartbeat must be is an argument of the tool, and
\* may be less than the time between two.
MarkStale(j) ==
    /\ status[j] \in {"queued", "running"}
    /\ Write(j, "stale")
    /\ UNCHANGED <<pathVars, job, flagged, cancelling, posted, troubles>>

\* A call of the golden path throws, or does what it should and does not answer.
PathFails(j) ==
    /\ Throws(j) \/ AnswerLost(j)
    /\ Trouble
    /\ UNCHANGED <<status, job, flagged, cancelling, posted>>

\* A call of executeAutomationJob throws, before or after its effect.
JobFails(j) ==
    /\ \/ /\ job[j] \in {"live", "claimed", "complete"} \/ (job[j] = "path" /\ At(j, "end"))
          /\ UNCHANGED posted
       \/ /\ job[j] = "notify"
          /\ \E sent \in SUBSET {"result"} : posted' = [posted EXCEPT ![j] = @ \cup sent]
    /\ job' = [job EXCEPT ![j] = "caught"]
    /\ Trouble
    /\ UNCHANGED <<pathVars, status, flagged, cancelling>>

\* So does one of the catch: the rejection is nobody's, and the record stays as it is.
CatchFails(j) ==
    /\ Turn(j, "caught", "over") \/ Turn(j, "notifyFailure", "over")
    /\ UNCHANGED <<pathVars, status, flagged, cancelling, posted, troubles>>

\* The process goes, with the golden paths it executed; nothing resumes them.
Restart ==
    /\ Trouble
    /\ job' = [j \in Jobs |-> IF job[j] \in {"none", "over"} THEN job[j] ELSE "lost"]
    /\ cancelling' = {}
    /\ flagged' = {}
    /\ path' = [j \in Runs |-> IF Executing(j) THEN Fresh(j, "end", "none") ELSE path[j]]
    /\ UNCHANGED <<n8nVars, approved, input, status, posted>>

ApproveToken(j) == Approve(j) /\ UNCHANGED jobVars

JobStep(j) ==
    \/ GoLive(j) \/ Claim(j) \/ EnterPath(j) \/ StepPath(j) \/ LeavePath(j)
    \/ Complete(j) \/ Notify(j) \/ Caught(j) \/ NotifyFailure(j)

Next ==
    \/ \E j \in Jobs :
         \/ StartJob(j) \/ JobStep(j) \/ Cancel(j) \/ CancelWrite(j) \/ MarkStale(j)
         \/ JobFails(j) \/ CatchFails(j)
    \/ \E j \in Runs : StartSync(j) \/ StepSync(j) \/ PathFails(j) \/ ApproveToken(j)
    \/ Restart

Spec == Init /\ [][Next]_vars

\* What the process does without being asked again; humans and tools owe nothing.
FairSpec == Spec /\ \A j \in Jobs : WF_vars(JobStep(j))

-----------------------------------------------------------------------------
\* What a golden path left in n8n has no error and no security issue of a draft, is not of
\* the highest risk, and was approved by a human when its risk called for it: also after
\* repairs, and when two executions save the same workflow in turn.
InN8nIsAllowed ==
    \A w \in Workflows :
      LET held == n8n[w] IN
      held.by # NoWorkflow =>
        /\ DraftErrors(held.flow) = {}
        /\ RiskVerdict(held.flow, FALSE) # "block"
        /\ RiskVerdict(held.flow, FALSE) = "review" => held.by \in approved

\* The workflow of a record that is not managed by Mastra is not saved, whatever the
\* executions beside it record meanwhile.
UnmanagedUntouched ==
    \A a \in Old : ~request[a].managed => n8n[OldRecord[a]].by = NoWorkflow

\* A workflow the golden path created has one owner at most: who finds it takes over the
\* automation that has it.
CreatedHasOneOwner ==
    \A w \in Workflows \ DOMAIN OldWorkflow : Cardinality(Owners(w)) <= 1

\* Who gets a result message finds the job completed, or failed after that; neither a
\* late cancellation nor a stale mark takes it back.
MessageMatchesRecord ==
    \A j \in Jobs :
      /\ "result" \in posted[j] => status[j] \in {"completed", "failed"}
      /\ "failure" \in posted[j] => status[j] = "failed"

\* A cancellation that is recorded before the golden path has returned stands.
EarlyCancelStands ==
    \A j \in Jobs :
      [](status[j] = "cancelled" /\ job[j] \in {"queued", "live", "claimed", "path"}
           => [](status[j] = "cancelled"))

\* Every job ends, unless its process does: the repairs stop, and nothing waits.
EveryJobEnds ==
    \A j \in Jobs : job[j] = "queued" ~> job[j] \in {"over", "lost"}
=============================================================================
