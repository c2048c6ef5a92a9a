--------------------------- MODULE BackgroundTasks ---------------------------
(***************************************************************************)
(* services/background-task-manager.ts: commands run as detached           *)
(* processes, with a record in the database and a status file.  Starting   *)
(* a task, the handler of its exit, the polls of those who wait for it and *)
(* its cancellation are sequences of awaits that interleave freely, and a  *)
(* restart of the server leaves the process running without a handler.  A  *)
(* command that cannot be spawned emits its error before a handler is      *)
(* there, so handleTaskError has no action: here it is an early exit.      *)
(***************************************************************************)
EXTENDS Integers

CONSTANTS
    Tasks,
    Wake,           \* tasks started with wake, by an owner to be woken
    Pollers,        \* callers that wait for the same task
    MaxTroubles     \* bound: restarts of the server, and calls of the database or
                    \* the file system that fail

ASSUME TasksAssumption ==
    /\ Wake \subseteq Tasks
    /\ MaxTroubles \in Nat

VARIABLES
    start,          \* task -> await its startBackgroundTask is at
    proc,           \* task -> its process: running, ended well or badly
    rec,            \* task -> status in the database, "none" without a record
    file,           \* task -> status in the status file, "none" without one
    exit,           \* task -> await its exit handler is at
    poll,           \* task, poller -> await its getBackgroundTask is at
    cancel,         \* task -> await its cancelBackgroundTask is at
    termed,         \* history: tasks whose process was sent SIGTERM
    troubles

taskVars == <<start, proc, rec, file, exit, poll, cancel, termed, troubles>>

End == {"completed", "failed"}
Dead == {"ok", "bad"}

NoPoll == [step |-> "find", found |-> "none"]

TasksOK ==
    /\ start \in [Tasks -> {"idle", "insert", "attach", "attached", "lost"}]
    /\ proc \in [Tasks -> {"none", "run"} \cup Dead]
    /\ rec \in [Tasks -> {"none", "running", "cancelled", "unknown"} \cup End]
    /\ file \in [Tasks -> {"none", "cancelled"} \cup End]
    /\ exit \in [Tasks -> {"none", "update", "file", "wake", "done"}]
    /\ poll \in [Tasks \X Pollers -> [step : {"find", "check", "recover", "set"},
                                      found : {"none", "cancelled"} \cup End]]
    /\ cancel \in [Tasks -> {"none", "kill", "update", "file"}]
    /\ termed \subseteq Tasks
    /\ troubles \in 0..MaxTroubles

InitTasks ==
    /\ start = [t \in Tasks |-> "idle"]
    /\ proc = [t \in Tasks |-> "none"]
    /\ rec = [t \in Tasks |-> "none"]
    /\ file = [t \in Tasks |-> "none"]
    /\ exit = [t \in Tasks |-> "none"]
    /\ poll = [w \in Tasks \X Pollers |-> NoPoll]
    /\ cancel = [t \in Tasks |-> "none"]
    /\ termed = {}
    /\ troubles = 0

\* updateOne({ taskId }, ...): whatever the status was, but nothing is inserted.
Updated(t, s) == [rec EXCEPT ![t] = IF @ = "none" THEN @ ELSE s]

Trouble == troubles < MaxTroubles /\ troubles' = troubles + 1

\* writeStatusFile swallows its errors.
WriteFile(t, s) ==
    \/ file' = [file EXCEPT ![t] = s] /\ UNCHANGED troubles
    \/ Trouble /\ UNCHANGED file

-----------------------------------------------------------------------------
(* startBackgroundTask and the end of the process                           *)

Spawn(t) ==
    /\ start[t] = "idle"
    /\ start' = [start EXCEPT ![t] = "insert"]
    /\ proc' = [proc EXCEPT ![t] = "run"]
    /\ UNCHANGED <<rec, file, exit, poll, cancel, termed, troubles>>

Insert(t) ==
    /\ start[t] = "insert"
    /\ start' = [start EXCEPT ![t] = "attach"]
    /\ rec' = [rec EXCEPT ![t] = "running"]
    /\ UNCHANGED <<proc, file, exit, poll, cancel, termed, troubles>>

\* The call throws, but the process runs, and the record may be there.
InsertFails(t) ==
    /\ start[t] = "insert"
    /\ start' = [start EXCEPT ![t] = "lost"]
    /\ rec' \in {rec, [rec EXCEPT ![t] = "running"]}
    /\ Trouble
    /\ UNCHANGED <<proc, file, exit, poll, cancel, termed>>

Attach(t) ==
    /\ start[t] = "attach"
    /\ start' = [start EXCEPT ![t] = "attached"]
    /\ UNCHANGED <<proc, rec, file, exit, poll, cancel, termed, troubles>>

\* The process ends by itself, of a signal, or because the reader of its output is
\* gone.  The event finds a handler or is lost.
Exit(t) ==
    /\ proc[t] = "run"
    /\ \E e \in Dead : proc' = [proc EXCEPT ![t] = e]
    /\ exit' = IF start[t] = "attached" THEN [exit EXCEPT ![t] = "update"] ELSE exit
    /\ UNCHANGED <<start, rec, file, poll, cancel, termed, troubles>>

-----------------------------------------------------------------------------
(* handleTaskExit                                                           *)

Outcome(t) == IF proc[t] = "ok" THEN "completed" ELSE "failed"

ExitUpdates(t) ==
    /\ exit[t] = "update"
    /\ rec' = Updated(t, Outcome(t))
    /\ exit' = [exit EXCEPT ![t] = "file"]
    /\ UNCHANGED <<start, proc, file, poll, cancel, termed, troubles>>

ExitWrites(t) ==
    /\ exit[t] = "file"
    /\ WriteFile(t, Outcome(t))
    /\ exit' = [exit EXCEPT ![t] = IF t \in Wake THEN "wake" ELSE "done"]
    /\ UNCHANGED <<start, proc, rec, poll, cancel, termed>>

\* queuePendingMessage is called, and returns.
ExitWakes(t) ==
    /\ exit[t] = "wake"
    /\ exit' = [exit EXCEPT ![t] = "done"]
    /\ UNCHANGED <<start, proc, rec, file, poll, cancel, termed, troubles>>

\* The database throws; the handler warns and is done.
ExitFails(t) ==
    /\ exit[t] \in {"update", "wake"}
    /\ rec' \in {rec, IF exit[t] = "update" THEN Updated(t, Outcome(t)) ELSE rec}
    /\ exit' = [exit EXCEPT ![t] = "done"]
    /\ Trouble
    /\ UNCHANGED <<start, proc, file, poll, cancel, termed>>

-----------------------------------------------------------------------------
(* getBackgroundTask, which waitBackgroundTask calls until the task is over *)

PollFinds(t, k) ==
    /\ poll[<<t, k>>].step = "find"
    /\ rec[t] = "running"
    /\ poll' = [poll EXCEPT ![<<t, k>>].step = "check"]
    /\ UNCHANGED <<start, proc, rec, file, exit, cancel, termed, troubles>>

\* Mutant: the check that the process is alive is gone.
PollAssumesDead(t, k) ==
    /\ poll[<<t, k>>].step = "check"
    /\ poll' = [poll EXCEPT ![<<t, k>>].step = "recover"]
    /\ UNCHANGED <<start, proc, rec, file, exit, cancel, termed, troubles>>

PollChecks(t, k) ==
    /\ poll[<<t, k>>].step = "check"
    /\ poll' = [poll EXCEPT ![<<t, k>>].step = IF proc[t] = "run" THEN "find" ELSE "recover"]
    /\ UNCHANGED <<start, proc, rec, file, exit, cancel, termed, troubles>>

\* A file caught while it is written does not parse.
PollRecovers(t, k) ==
    /\ poll[<<t, k>>].step = "recover"
    /\ \E f \in {file[t], "none"} :
        poll' = [poll EXCEPT ![<<t, k>>] = [step |-> "set", found |-> f]]
    /\ UNCHANGED <<start, proc, rec, file, exit, cancel, termed, troubles>>

Found(t, k) == IF poll[<<t, k>>].found = "none" THEN "unknown" ELSE poll[<<t, k>>].found

\* Mutant: without a status file the record is left alone.
PollSetsFound(t, k) ==
    /\ poll[<<t, k>>].step = "set"
    /\ rec' = IF poll[<<t, k>>].found = "none" THEN rec ELSE Updated(t, Found(t, k))
    /\ poll' = [poll EXCEPT ![<<t, k>>] = NoPoll]
    /\ UNCHANGED <<start, proc, file, exit, cancel, termed, troubles>>

PollSets(t, k) ==
    /\ poll[<<t, k>>].step = "set"
    /\ rec' = Updated(t, Found(t, k))
    /\ poll' = [poll EXCEPT ![<<t, k>>] = NoPoll]
    /\ UNCHANGED <<start, proc, file, exit, cancel, termed, troubles>>

\* The database throws.  An update with what the file says is in the try block of
\* the recovery, which then has recovered nothing.
PollFails(t, k) ==
    /\ poll[<<t, k>>].step = "set"
    /\ rec' \in {rec, Updated(t, Found(t, k))}
    /\ poll' = [poll EXCEPT ![<<t, k>>] =
                  IF @.found = "none" THEN NoPoll ELSE [step |-> "set", found |-> "none"]]
    /\ Trouble
    /\ UNCHANGED <<start, proc, file, exit, cancel, termed>>

-----------------------------------------------------------------------------
(* cancelBackgroundTask                                                     *)

CancelFinds(t) ==
    /\ cancel[t] = "none"
    /\ rec[t] = "running"
    /\ cancel' = [cancel EXCEPT ![t] = "kill"]
    /\ UNCHANGED <<start, proc, rec, file, exit, poll, termed, troubles>>

\* A child or, after a restart, the pid of the record.  The command may end of it,
\* end well in spite of it, or ignore it.
CancelKills(t) ==
    /\ cancel[t] = "kill"
    /\ termed' = IF proc[t] = "run" THEN termed \cup {t} ELSE termed
    /\ cancel' = [cancel EXCEPT ![t] = "update"]
    /\ UNCHANGED <<start, proc, rec, file, exit, poll, troubles>>

CancelUpdates(t) ==
    /\ cancel[t] = "update"
    /\ rec' = Updated(t, "cancelled")
    /\ cancel' = [cancel EXCEPT ![t] = "file"]
    /\ UNCHANGED <<start, proc, file, exit, poll, termed, troubles>>

CancelWrites(t) ==
    /\ cancel[t] = "file"
    /\ WriteFile(t, "cancelled")
    /\ cancel' = [cancel EXCEPT ![t] = "none"]
    /\ UNCHANGED <<start, proc, rec, exit, poll, termed>>

CancelFails(t) ==
    /\ cancel[t] = "update"
    /\ rec' \in {rec, Updated(t, "cancelled")}
    /\ cancel' = [cancel EXCEPT ![t] = "none"]
    /\ Trouble
    /\ UNCHANGED <<start, proc, file, exit, poll, termed>>

-----------------------------------------------------------------------------
(* The surroundings                                                         *)

\* The tool's cleanup, with an age of the caller's choice.  It wants a completedAt,
\* which an unknown task has only if it had another end before.
CleanUp(t) ==
    /\ rec[t] \in End \cup {"cancelled", "unknown"}
    /\ rec' = [rec EXCEPT ![t] = "none"]
    /\ UNCHANGED <<start, proc, file, exit, poll, cancel, termed, troubles>>

\* The TTL index, after a day by default, whatever the status.
ExpireTask(t) ==
    /\ rec[t] # "none"
    /\ rec' = [rec EXCEPT ![t] = "none"]
    /\ UNCHANGED <<start, proc, file, exit, poll, cancel, termed, troubles>>

\* The processes are detached and go on; every call under way, and every handler,
\* is gone.
RestartTasks ==
    /\ Trouble
    /\ start' = [t \in Tasks |-> IF start[t] = "idle" THEN "idle" ELSE "lost"]
    /\ exit' = [t \in Tasks |-> IF exit[t] = "none" THEN "none" ELSE "done"]
    /\ poll' = [w \in Tasks \X Pollers |-> NoPoll]
    /\ cancel' = [t \in Tasks |-> "none"]
    /\ UNCHANGED <<proc, rec, file, termed>>

StartStep(t) == Insert(t) \/ Attach(t)
ExitStep(t) == ExitUpdates(t) \/ ExitWrites(t)
PollStep(t, k) == PollFinds(t, k) \/ PollChecks(t, k) \/ PollRecovers(t, k) \/ PollSets(t, k)
CancelStep(t) == CancelFinds(t) \/ CancelKills(t) \/ CancelUpdates(t) \/ CancelWrites(t)

\* Every step but ExitWakes and the restart, which concern the messages too.
TaskStep(t) ==
    \/ Spawn(t) \/ StartStep(t) \/ InsertFails(t) \/ Exit(t)
    \/ ExitStep(t) \/ ExitFails(t)
    \/ \E k \in Pollers : PollStep(t, k) \/ PollFails(t, k)
    \/ CancelStep(t) \/ CancelFails(t)
    \/ CleanUp(t) \/ ExpireTask(t)

-----------------------------------------------------------------------------
(* Properties                                                               *)

\* Whoever wrote it, the handler, a poll that recovered it from the file or a poll
\* that gave up, the end a record tells is one the process came to.
RecordIsTrue ==
    \A t \in Tasks :
        /\ rec[t] = "completed" => proc[t] = "ok"
        /\ rec[t] = "failed" => proc[t] = "bad"
        /\ rec[t] = "unknown" => proc[t] \in Dead

\* A task recorded as cancelled is not left running as if nothing had been: it was
\* sent SIGTERM, by this server or one before, or had already ended.
CancelledWasSignalled ==
    \A t \in Tasks : rec[t] = "cancelled" => t \in termed \/ proc[t] \in Dead

\* While somebody waits for it, a task whose process ended does not stay running:
\* not when its exit came too early for the handler, and not after a restart.
DeadIsNoticed ==
    \A t \in Tasks : proc[t] \in Dead /\ rec[t] = "running" ~> rec[t] # "running"
=============================================================================
