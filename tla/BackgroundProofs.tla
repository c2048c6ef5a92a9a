--------------------------- MODULE BackgroundProofs ---------------------------
(***************************************************************************)
(* Proofs about what goes on behind the agents' conversations: background  *)
(* tasks with the messages they leave, and the collector of runtime        *)
(* errors.  Both for any number of tasks, messages, errors, tickets and    *)
(* restarts; the two share no state.                                       *)
(***************************************************************************)
EXTENDS SoftInterrupts, ErrorCollector, FiniteSetTheorems, TLAPS

Ended(t) == proc[t] \in Dead

\* What it takes for s to be said of task t.
True(t, s) ==
    /\ s = "completed" => proc[t] = "ok"
    /\ s = "failed" => proc[t] = "bad"
    /\ s = "unknown" => Ended(t)
    /\ s = "cancelled" => t \in termed \/ Ended(t)

\* A task's process exists from the start on, and nobody looks at it before.
Begun ==
    \A t \in Tasks :
        /\ start[t] = "idle" <=> proc[t] = "none"
        /\ start[t] = "idle" => rec[t] = "none" /\ cancel[t] = "none"
        /\ \A k \in Pollers : start[t] = "idle" => poll[<<t, k>>].step = "find"

\* Who is about to write an end knows of one: the exit handler because there was an
\* exit, a poll because it found no process, a cancellation because it has signalled.
Writers ==
    \A t \in Tasks :
        /\ exit[t] \in {"update", "file", "wake"} => Ended(t)
        /\ cancel[t] \in {"update", "file"} => t \in termed \/ Ended(t)
        /\ \A k \in Pollers : poll[<<t, k>>].step \in {"recover", "set"} => Ended(t)

\* What the record, the status file and a poll that has read it say is true.
Sayings ==
    \A t \in Tasks :
        /\ True(t, rec[t])
        /\ True(t, file[t])
        /\ \A k \in Pollers : True(t, poll[<<t, k>>].found)

TaskInv == TasksOK /\ Begun /\ Writers /\ Sayings

-----------------------------------------------------------------------------
(* Tasks                                                                    *)

\* Starting a task and its process's end: what was true of a process that had ended
\* stays true, and nothing was said of one that had not.
LEMMA StartKeeps ==
    ASSUME TaskInv, NEW t \in Tasks,
           Spawn(t) \/ Insert(t) \/ InsertFails(t) \/ Attach(t) \/ Exit(t)
    PROVE  TaskInv'
  <1> USE DEF TaskInv, Dead, End
  <1>1. CASE Spawn(t)
    BY <1>1, SMTT(30) DEF Spawn, TasksOK, Begun, Writers, Sayings, True, Ended
  <1>2. CASE Insert(t)
    BY <1>2, SMTT(30) DEF Insert, TasksOK, Begun, Writers, Sayings, True, Ended
  <1>3. CASE InsertFails(t)
    BY <1>3, TasksAssumption, SMTT(30)
       DEF InsertFails, Trouble, TasksOK, Begun, Writers, Sayings, True, Ended
  <1>4. CASE Attach(t)
    BY <1>4, SMTT(30) DEF Attach, TasksOK, Begun, Writers, Sayings, True, Ended
  <1>5. CASE Exit(t)
    BY <1>5, SMTT(30) DEF Exit, TasksOK, Begun, Writers, Sayings, True, Ended
  <1> QED BY <1>1, <1>2, <1>3, <1>4, <1>5

\* The exit handler tells the process's end.
LEMMA ExitKeeps ==
    ASSUME TaskInv, NEW t \in Tasks, ExitStep(t) \/ ExitFails(t) \/ ExitWakes(t)
    PROVE  TaskInv'
  <1> USE DEF TaskInv, Dead, End
  <1>1. CASE ExitUpdates(t)
    BY <1>1, SMTT(30) DEF ExitUpdates, Updated, Outcome, TasksOK, Begun, Writers, Sayings, True, Ended
  <1>2. CASE ExitWrites(t)
    BY <1>2, TasksAssumption, SMTT(30)
       DEF ExitWrites, WriteFile, Trouble, Outcome, TasksOK, Begun, Writers, Sayings, True, Ended
  <1>3. CASE ExitFails(t)
    BY <1>3, TasksAssumption, SMTT(30)
       DEF ExitFails, Updated, Trouble, Outcome, TasksOK, Begun, Writers, Sayings, True, Ended
  <1>4. CASE ExitWakes(t)
    BY <1>4, SMTT(30) DEF ExitWakes, TasksOK, Begun, Writers, Sayings, True, Ended
  <1> QED BY <1>1, <1>2, <1>3, <1>4 DEF ExitStep

\* A poll writes what it read in the file, or unknown, of a process that has ended.
LEMMA PollKeeps ==
    ASSUME TaskInv, NEW t \in Tasks, NEW k \in Pollers, PollStep(t, k) \/ PollFails(t, k)
    PROVE  TaskInv'
  <1> USE DEF TaskInv, Dead, End
  <1>1. CASE PollFinds(t, k)
    BY <1>1, SMTT(30) DEF PollFinds, TasksOK, Begun, Writers, Sayings, True, Ended
  <1>2. CASE PollChecks(t, k)
    BY <1>2, SMTT(30) DEF PollChecks, TasksOK, Begun, Writers, Sayings, True, Ended
  <1>3. CASE PollRecovers(t, k)
    <2>1. PICK f \in {file[t], "none"} :
              poll' = [poll EXCEPT ![<<t, k>>] = [step |-> "set", found |-> f]]
      BY <1>3, Zenon DEF PollRecovers
    <2> QED
      BY <1>3, <2>1, SMTT(30) DEF PollRecovers, TasksOK, Begun, Writers, Sayings, True, Ended
  <1>4. CASE PollSets(t, k)
    BY <1>4, SMTT(30) DEF PollSets, Found, Updated, NoPoll, TasksOK, Begun, Writers, Sayings, True, Ended
  <1>5. CASE PollFails(t, k)
    <2>1. \/ poll' = [poll EXCEPT ![<<t, k>>] = NoPoll]
          \/ poll' = [poll EXCEPT ![<<t, k>>] = [step |-> "set", found |-> "none"]]
      BY <1>5, Zenon DEF PollFails
    <2>2. Ended(t)
      BY <1>5 DEF PollFails, Writers
    <2> QED
      BY <1>5, <2>1, <2>2, TasksAssumption, SMTT(30)
         DEF PollFails, Found, Updated, Trouble, NoPoll, TasksOK, Begun, Writers, Sayings, True, Ended
  <1> QED BY <1>1, <1>2, <1>3, <1>4, <1>5 DEF PollStep

\* A cancellation signals before it says so; a record that is removed says nothing.
LEMMA CancelKeeps ==
    ASSUME TaskInv, NEW t \in Tasks, CancelStep(t) \/ CancelFails(t) \/ CleanUp(t) \/ ExpireTask(t)
    PROVE  TaskInv'
  <1> USE DEF TaskInv, Dead, End
  <1>1. CASE CancelFinds(t)
    BY <1>1, SMTT(30) DEF CancelFinds, TasksOK, Begun, Writers, Sayings, True, Ended
  <1>2. CASE CancelKills(t)
    BY <1>2, SMTT(30) DEF CancelKills, TasksOK, Begun, Writers, Sayings, True, Ended
  <1>3. CASE CancelUpdates(t)
    BY <1>3, SMTT(30) DEF CancelUpdates, Updated, TasksOK, Begun, Writers, Sayings, True, Ended
  <1>4. CASE CancelWrites(t)
    BY <1>4, TasksAssumption, SMTT(30)
       DEF CancelWrites, WriteFile, Trouble, TasksOK, Begun, Writers, Sayings, True, Ended
  <1>5. CASE CancelFails(t)
    BY <1>5, TasksAssumption, SMTT(30)
       DEF CancelFails, Updated, Trouble, TasksOK, Begun, Writers, Sayings, True, Ended
  <1>6. CASE ExpireTask(t)
    BY <1>6, SMTT(30) DEF ExpireTask, TasksOK, Begun, Writers, Sayings, True, Ended
  <1>7. CASE CleanUp(t)
    BY <1>7, SMTT(30) DEF CleanUp, TasksOK, Begun, Writers, Sayings, True, Ended
  <1> QED BY <1>1, <1>2, <1>3, <1>4, <1>5, <1>6, <1>7 DEF CancelStep

\* A restart forgets who was about to write, and nothing that was written.
LEMMA RestartKeeps == ASSUME TaskInv, RestartTasks PROVE TaskInv'
  BY TasksAssumption, SMTT(30)
     DEF TaskInv, Dead, End, RestartTasks, Trouble, NoPoll, TasksOK, Begun, Writers, Sayings, True, Ended

\* The steps of takers and of other messages' senders leave the tasks alone.
LEMMA TaskInvariance == Spec => []TaskInv
  <1>1. Init => TaskInv
    BY TasksAssumption, SMTT(30)
       DEF Init, InitTasks, TaskInv, Dead, End, NoPoll, TasksOK, Begun, Writers, Sayings, True, Ended
  <1>2. ASSUME TaskInv, [Next]_vars PROVE TaskInv'
    <2>1. ASSUME NEW t \in Tasks, TaskStep(t) \/ WakeOwner(t) PROVE TaskInv'
      BY <1>2, <2>1, StartKeeps, ExitKeeps, PollKeeps, CancelKeeps
         DEF TaskStep, StartStep, WakeOwner
    <2>2. ASSUME NEW k \in Takers, TakeThrows(k) PROVE TaskInv'
      BY <1>2, <2>2, TasksAssumption, SMTT(30)
         DEF TakeThrows, Trouble, TaskInv, TasksOK, Begun, Writers, Sayings, True, Ended
    <2>3. CASE UNCHANGED taskVars
      BY <1>2, <2>3 DEF taskVars, TaskInv, TasksOK, Begun, Writers, Sayings, True, Ended
    <2>4. CASE Restart
      BY <1>2, <2>4, RestartKeeps DEF Restart
    <2> QED BY <1>2, <2>1, <2>2, <2>3, <2>4 DEF Next, QueueOther, vars
  <1> QED BY <1>1, <1>2, PTL DEF Spec

\* For any number of tasks and pollers, through restarts and failures, the end a
\* record tells is the one its process came to.
THEOREM RecordTruth == Spec => []RecordIsTrue
  <1>1. TaskInv => RecordIsTrue
    BY DEF TaskInv, Sayings, True, Ended, RecordIsTrue
  <1> QED BY <1>1, TaskInvariance, PTL

\* No task is recorded as cancelled that was neither signalled nor over.
THEOREM CancelSignals == Spec => []CancelledWasSignalled
  <1>1. TaskInv => CancelledWasSignalled
    BY DEF TaskInv, Sayings, True, Ended, CancelledWasSignalled
  <1> QED BY <1>1, TaskInvariance, PTL

-----------------------------------------------------------------------------
(* Messages                                                                 *)

Holds(k, m) == taker[k].step = "return" /\ m \in taker[k].found

\* ConsumedIsHeld without its condition.
Held == \A m \in Msgs : msg[m] = "consumed" => m \in delivered \/ \E k \in Takers : Holds(k, m)

\* A taker that finds or returns messages, and a message that is queued or expires.
LEMMA TakeKeeps ==
    ASSUME MessagesOK, Held, NEW k \in Takers, Take(k)
    PROVE  MessagesOK' /\ Held'
  <1> USE DEF MessagesOK, Held, Holds
  <1>1. CASE Find(k)
    BY <1>1, SMTT(30) DEF Find
  <1>2. CASE Mark(k)
    <2>1. MessagesOK'
      BY <1>2, SMTT(30) DEF Mark, Consumed, Pending
    <2>2. \A j \in Takers, m \in Msgs : Holds(j, m) => Holds(j, m)'
      BY <1>2, SMTT(30) DEF Mark
    <2>3. \A m \in taker[k].found : Holds(k, m)'
      BY <1>2, SMTT(30) DEF Mark
    <2> HIDE DEF Holds
    <2> QED BY <1>2, <2>1, <2>2, <2>3, SMTT(30) DEF Mark, Consumed, Pending
  <1>3. CASE Return(k)
    <2>1. MessagesOK'
      BY <1>3, SMTT(30) DEF Return, Idle
    <2>2. \A j \in Takers, m \in Msgs : Holds(j, m) => m \in delivered' \/ Holds(j, m)'
      BY <1>3, SMTT(30) DEF Return
    <2> HIDE DEF Holds
    <2> QED BY <1>3, <2>1, <2>2, SMTT(30) DEF Return
  <1> QED BY <1>1, <1>2, <1>3 DEF Take

\* Queueing a message, or its expiry, consumes none.
LEMMA MessageKeeps ==
    ASSUME MessagesOK, NEW m \in Msgs, (\E u \in BOOLEAN : Queue(m, u)) \/ ExpireMessage(m)
    PROVE  MessagesOK' /\ (Held => Held')
  BY SMTT(30) DEF MessagesOK, Held, Holds, Queue, ExpireMessage

MsgInv == MessagesOK /\ (troubles = 0 => Held)

\* No step but a restart or a failure lets go of a consumed message, and these count.
LEMMA MsgInvariance == Spec => []MsgInv
  <1>1. Init => MsgInv
    BY DEF Init, InitMessages, MsgInv, MessagesOK, Held, Idle
  <1>2. ASSUME TaskInv, MsgInv, [Next]_vars PROVE MsgInv'
    <2>1. troubles \in Nat
      BY <1>2, TasksAssumption DEF TaskInv, TasksOK
    <2>2. CASE UNCHANGED msgVars /\ troubles' \in {troubles, troubles + 1}
      BY <1>2, <2>1, <2>2, SMTT(30) DEF msgVars, MsgInv, MessagesOK, Held, Holds
    <2>3. ASSUME NEW t \in Tasks, TaskStep(t) /\ UNCHANGED msgVars PROVE MsgInv'
      <3>1. troubles' \in {troubles, troubles + 1}
        BY <2>3 DEF TaskStep, StartStep, ExitStep, PollStep, CancelStep, Spawn, Insert, InsertFails,
             Attach, Exit, ExitUpdates, ExitWrites, ExitFails, PollFinds, PollChecks, PollRecovers,
             PollSets, PollFails, CancelFinds, CancelKills, CancelUpdates, CancelWrites, CancelFails,
             CleanUp, ExpireTask, WriteFile, Trouble
      <3> QED BY <2>2, <2>3, <3>1
    <2>4. ASSUME NEW t \in Tasks, WakeOwner(t) PROVE MsgInv'
      <3>1. t \in Msgs /\ (\E u \in BOOLEAN : Queue(t, u)) /\ troubles' = troubles
        BY <2>4, MessageAssumption DEF WakeOwner, ExitWakes
      <3> QED BY <1>2, <3>1, MessageKeeps DEF MsgInv
    <2>5. ASSUME NEW m \in Msgs, QueueOther(m) \/ (ExpireMessage(m) /\ UNCHANGED taskVars)
          PROVE  MsgInv'
      <3>1. /\ (\E u \in BOOLEAN : Queue(m, u)) \/ ExpireMessage(m)
            /\ troubles' = troubles
        BY <2>5 DEF QueueOther, taskVars
      <3> QED BY <1>2, <3>1, MessageKeeps DEF MsgInv
    <2>6. ASSUME NEW k \in Takers, Take(k) /\ UNCHANGED taskVars PROVE MsgInv'
      <3>1. troubles' = troubles
        BY <2>6 DEF taskVars
      <3>2. CASE troubles = 0
        BY <1>2, <2>6, <3>2, TakeKeeps DEF MsgInv
      <3>3. CASE troubles # 0
        BY <1>2, <2>6, <3>1, <3>3, SMTT(30)
           DEF MsgInv, MessagesOK, Take, Find, Mark, Return, Consumed, Pending, Idle
      <3> QED BY <3>2, <3>3
    <2>7. ASSUME NEW k \in Takers, TakeThrows(k) PROVE MsgInv'
      BY <1>2, <2>1, <2>7, SMTT(30)
         DEF TakeThrows, TakeFails, Trouble, MsgInv, MessagesOK, Consumed, Pending, Idle
    <2>8. CASE Restart
      BY <1>2, <2>1, <2>8, SMTT(30)
         DEF Restart, RestartTasks, LoseTakers, Trouble, MsgInv, MessagesOK, Idle
    <2>9. CASE UNCHANGED vars
      BY <2>2, <2>9 DEF vars, taskVars, msgVars
    <2> QED BY <1>2, <2>3, <2>4, <2>5, <2>6, <2>7, <2>8, <2>9 DEF Next
  <1> QED BY <1>1, <1>2, TaskInvariance, PTL DEF Spec

\* However many takers find the same messages, without restarts and failures a
\* consumed message is with an agent or about to be.
THEOREM ConsumedHeld == Spec => []ConsumedIsHeld
  <1>1. MsgInv => ConsumedIsHeld
    BY DEF MsgInv, Held, Holds, ConsumedIsHeld
  <1> QED BY <1>1, MsgInvariance, PTL

\* Type correctness.
THEOREM SoftInterruptTypes == Spec => []TypeOK
  <1>1. TaskInv /\ MsgInv => TypeOK
    BY DEF TaskInv, MsgInv, TypeOK
  <1> QED BY <1>1, TaskInvariance, MsgInvariance, PTL

-----------------------------------------------------------------------------
\* The error collector, for any number of server processes that mark their tickets
\* promptly.  The reads and the insertion are not atomic and a server sees no other's
\* report, so the limit and the deduplication hold for each server alone: self-
\* protection keeps two reports of a process apart, and what happens to tickets
\* meanwhile only makes fewer of them active.

\* What the theorems assume of the deployment.
Prompt == ~SlowMark

\* Ids not handed out yet belong to no ticket.
Fresh ==
    \A t \in Ticket : t >= nextTicket => status[t] = "none" /\ run[t] = "none" /\ t \notin toMark

\* The update to in_progress finds the ticket pending: nobody writes its status
\* before, because only a resumed run does.
MarkFindsPending ==
    \A t \in Ticket :
        /\ run[t] = "running" \/ t \in toMark => status[t] \in {"pending", "none"}
        /\ run[t] \in {"running", "resumed"} => t \notin toMark

\* What a report has read of its own server's tickets still holds when it acts on it.
ReportIsCurrent ==
    \A p \in Procs : report[p].step \in {"count", "insert"} =>
        \A t \in Active : sig[t] = report[p].sig => owner[t] # p

\* Every server about to insert has a place reserved, its own or one beyond the limit.
Inserting == {p \in Procs : At(p, "insert")}
RoomForAll == Cardinality(Active) + Cardinality(Inserting) <= MaxActive + Cardinality(Procs) - 1

CloseInv == CollectorTypeOK /\ Fresh /\ MarkFindsPending

IInv == CloseInv /\ NoSecondOfOneServer /\ ReportIsCurrent /\ RoomForAll

\* Tickets are finitely many, so counting them makes sense.
LEMMA ActiveFinite == ASSUME CollectorTypeOK PROVE IsFiniteSet(Active) /\ Cardinality(Active) \in Nat
  <1>1. MaxTickets \in Nat /\ Ticket = 1..MaxTickets
    BY CollectorAssumption DEF Ticket
  <1>2. IsFiniteSet(Ticket)
    BY <1>1, FS_Interval
  <1>3. Active \subseteq Ticket
    BY DEF Active
  <1> QED BY <1>2, <1>3, FS_Subset, FS_CardinalityType

\* So are the servers about to insert.
LEMMA InsertingFinite == IsFiniteSet(Inserting) /\ IsFiniteSet(Inserting')
  <1>1. Inserting \subseteq Procs /\ Inserting' \subseteq Procs
    BY DEF Inserting
  <1> QED BY <1>1, CollectorAssumption, FS_Subset

\* No step but an insertion makes a ticket active, and a step that changes a ticket's
\* status leaves the signatures and owners alone.
LEMMA NothingReopens ==
    ASSUME CloseInv, Prompt, [CollectorNext]_collectorVars, \A p \in Procs : ~InsertTicket(p)
    PROVE  Active' \subseteq Active /\ UNCHANGED <<sig, owner>>
  <1> USE DEF CloseInv, CollectorTypeOK, Active, ActiveStatus
  <1>1. ASSUME NEW p \in Procs, NEW s \in Sigs, Report(p, s)
        PROVE  Active' \subseteq Active /\ UNCHANGED <<sig, owner>>
    BY <1>1 DEF Report, ticketVars, runVars
  <1>2. ASSUME NEW p \in Procs, ReportStep(p)
        PROVE  Active' \subseteq Active /\ UNCHANGED <<sig, owner>>
    BY <1>2 DEF ReportStep, FindDuplicate, CountActive, ReportFails, ticketVars, runVars
  <1>3. ASSUME NEW p \in Procs, CooldownEnds(p) \/ RestartProcess(p)
        PROVE  Active' \subseteq Active /\ UNCHANGED <<sig, owner>>
    BY <1>3 DEF CooldownEnds, RestartProcess, ticketVars, runVars
  <1>4. ASSUME NEW t \in Ticket, RunStep(t)
        PROVE  Active' \subseteq Active /\ UNCHANGED <<sig, owner>>
    <2>1. CASE RunReturns(t) \/ RunEnds(t)
      BY <2>1 DEF RunReturns, RunEnds, Over, ticketVars, runVars
    <2>2. CASE TriggerFails(t) \/ MarkFails(t) \/ Resolve(t)
      BY <2>2 DEF TriggerFails, MarkFails, Resolve, Over, SetStatus
    <2>3. CASE MarkInProgress(t)
      BY <2>3 DEF MarkInProgress, SetStatus, MarkFindsPending
    <2> QED BY <1>4, <2>1, <2>2, <2>3 DEF RunStep
  <1>5. ASSUME NEW t \in Ticket, Expire(t)
        PROVE  Active' \subseteq Active /\ UNCHANGED <<sig, owner>>
    BY <1>5 DEF Expire, runVars
  <1>6. ASSUME NEW t \in Ticket, NEW p \in Procs, Resume(t, p)
        PROVE  Active' \subseteq Active /\ UNCHANGED <<sig, owner>>
    BY <1>6 DEF Resume, ticketVars, runVars
  <1>7. CASE UNCHANGED collectorVars
    BY <1>7 DEF collectorVars, ticketVars, runVars
  <1> QED BY <1>1, <1>2, <1>3, <1>4, <1>5, <1>6, <1>7 DEF CollectorNext

\* Types, fresh ids and marks: inductive whatever the number of processes.
LEMMA CloseInvariance == ASSUME Prompt PROVE CollectorSpec => []CloseInv
  <1>1. CollectorInit => CloseInv
    BY CollectorAssumption
    DEF CollectorInit, CloseInv, CollectorTypeOK, Fresh, MarkFindsPending, NoReport, Status, Ticket
  <1>2. ASSUME CloseInv, [CollectorNext]_collectorVars
        PROVE  CloseInv'
    <2> USE <1>2, CollectorAssumption
        DEF CloseInv, CollectorTypeOK, Fresh, MarkFindsPending, Status, Ticket
    <2>1. ASSUME NEW p \in Procs, NEW s \in Sigs, Report(p, s)
          PROVE  CloseInv'
      BY <2>1 DEF Report, ticketVars, runVars
    <2>2. ASSUME NEW p \in Procs, FindDuplicate(p) \/ CountActive(p) \/ ReportFails(p)
          PROVE  CloseInv'
      <3>1. /\ \E r \in [step : {"idle", "find", "count", "insert"}, sig : Sigs \cup {None}] :
                  report' = [report EXCEPT ![p] = r]
            /\ UNCHANGED <<cooling, ticketVars, runVars, restarts>>
        <4> DEFINE Next1(step) == [report[p] EXCEPT !.step = step]
        <4>1. /\ NoReport \in [step : {"idle", "find", "count", "insert"}, sig : Sigs \cup {None}]
              /\ \A step \in {"count", "insert"} :
                   Next1(step) \in [step : {"idle", "find", "count", "insert"}, sig : Sigs \cup {None}]
          BY DEF NoReport
        <4> QED BY <2>2, <4>1 DEF FindDuplicate, CountActive, ReportFails, Go
      <3>2. report' \in [Procs -> [step : {"idle", "find", "count", "insert"}, sig : Sigs \cup {None}]]
        BY <3>1
      <3> QED BY <3>1, <3>2 DEF ticketVars, runVars
    <2>3. ASSUME NEW p \in Procs, InsertTicket(p)
          PROVE  CloseInv'
      <3>1. /\ nextTicket \in 1..MaxTickets
            /\ nextTicket' = nextTicket + 1
            /\ status' = [status EXCEPT ![nextTicket] = "pending"]
            /\ run' = [run EXCEPT ![nextTicket] = "running"]
            /\ owner' = [owner EXCEPT ![nextTicket] = p]
            /\ sig' = [sig EXCEPT ![nextTicket] = report[p].sig]
            /\ report' = [report EXCEPT ![p] = NoReport]
            /\ cooling' = cooling \cup {p}
            /\ UNCHANGED <<resumer, toMark, restarts>>
        BY <2>3 DEF InsertTicket
      <3>2. CollectorTypeOK'
        BY <3>1 DEF NoReport
      <3>3. Fresh'
        BY <3>1
      <3>4. MarkFindsPending'
        BY <3>1
      <3> QED BY <3>2, <3>3, <3>4
    <2>4. ASSUME NEW p \in Procs, CooldownEnds(p)
          PROVE  CloseInv'
      BY <2>4 DEF CooldownEnds, ticketVars, runVars
    <2>5. ASSUME NEW p \in Procs, RestartProcess(p)
          PROVE  CloseInv'
      <3>1. CollectorTypeOK'
        <4>1. report' \in [Procs -> [step : {"idle", "find", "count", "insert"}, sig : Sigs \cup {None}]]
          BY <2>5 DEF RestartProcess, NoReport
        <4>2. run' \in [Ticket -> {"none", "running", "suspended", "resumed", "over"}]
          BY <2>5 DEF RestartProcess
        <4>3. toMark' \subseteq Ticket /\ cooling' \subseteq Procs
          <5>1. toMark' \subseteq toMark /\ cooling' \subseteq cooling
            BY <2>5 DEF RestartProcess
          <5> QED BY <5>1
        <4>5. restarts' \in 0..MaxRestarts
          <5>1. restarts \in 0..MaxRestarts /\ restarts < MaxRestarts /\ restarts' = restarts + 1
            BY <2>5 DEF RestartProcess
          <5> QED BY <5>1
        <4>4. UNCHANGED <<status, sig, nextTicket, owner>> /\ resumer' \in [Ticket -> Procs \cup {None}]
          BY <2>5 DEF RestartProcess, ticketVars
        <4> QED BY <4>1, <4>2, <4>3, <4>4, <4>5
      <3>2. Fresh'
        BY <2>5 DEF RestartProcess, ticketVars
      <3>3. MarkFindsPending'
        BY <2>5 DEF RestartProcess, ticketVars
      <3> QED BY <3>1, <3>2, <3>3
    <2>6. ASSUME NEW t \in Ticket, TriggerFails(t) \/ MarkInProgress(t) \/ MarkFails(t)
          PROVE  CloseInv'
      <3>1. CollectorTypeOK'
        BY <2>6 DEF TriggerFails, MarkInProgress, MarkFails, SetStatus, reportVars
      <3>2. Fresh'
        BY <2>6 DEF TriggerFails, MarkInProgress, MarkFails, SetStatus
      <3>3. MarkFindsPending'
        BY <2>6 DEF TriggerFails, MarkInProgress, MarkFails, SetStatus
      <3> QED BY <3>1, <3>2, <3>3
    <2>7. ASSUME NEW t \in Ticket, RunReturns(t) \/ RunEnds(t)
          PROVE  CloseInv'
      <3>1. CASE RunReturns(t)
        BY <3>1 DEF RunReturns, reportVars, ticketVars
      <3>2. CASE RunEnds(t)
        BY <3>2 DEF RunEnds, Over, reportVars, ticketVars
      <3> QED BY <2>7, <3>1, <3>2
    <2>8. ASSUME NEW t \in Ticket, Resolve(t) \/ Expire(t)
          PROVE  CloseInv'
      <3>1. CollectorTypeOK'
        BY <2>8 DEF Resolve, Over, Expire, SetStatus, reportVars, runVars
      <3>2. Fresh'
        BY <2>8 DEF Resolve, Over, Expire, SetStatus, runVars
      <3>3. MarkFindsPending'
        BY <2>8 DEF Resolve, Over, Expire, SetStatus, runVars
      <3> QED BY <3>1, <3>2, <3>3
    <2>9. ASSUME NEW t \in Ticket, NEW p \in Procs, Resume(t, p)
          PROVE  CloseInv'
      BY <2>9, Prompt DEF Resume, Answerable, Prompt, reportVars, ticketVars
    <2>10. CASE UNCHANGED collectorVars
      BY <2>10 DEF collectorVars, reportVars, ticketVars, runVars
    <2> QED BY <2>1, <2>2, <2>3, <2>4, <2>5, <2>6, <2>7, <2>8, <2>9, <2>10
            DEF CollectorNext, ReportStep, RunStep
  <1> QED BY <1>1, <1>2, PTL DEF CollectorSpec

\* ClosedStaysClosed for any number of processes: closed tickets never take a place
\* again, because the only update that opens one finds it pending.
THEOREM ClosedForGood == ASSUME Prompt PROVE CollectorSpec => ClosedStaysClosed
  <1>1. ASSUME CloseInv, [CollectorNext]_collectorVars
        PROVE  [\A t \in Ticket :
                  status[t] \in {"resolved", "failed"} => status'[t] \notin ActiveStatus]_collectorVars
    <2> SUFFICES ASSUME NEW t \in Ticket, status[t] \in {"resolved", "failed"}
                 PROVE  status'[t] \notin ActiveStatus
      OBVIOUS
    <2>1. CASE \E p \in Procs : InsertTicket(p)
      <3>1. /\ status[nextTicket] = "none"
            /\ status' = [status EXCEPT ![nextTicket] = "pending"]
        BY <1>1, <2>1 DEF InsertTicket, CloseInv, CollectorTypeOK, Fresh
      <3> QED BY <3>1, <1>1 DEF CloseInv, CollectorTypeOK, ActiveStatus
    <2>2. CASE \A p \in Procs : ~InsertTicket(p)
      <3>1. Active' \subseteq Active
        BY <1>1, <2>2, NothingReopens, Prompt
      <3>2. t \notin Active
        BY DEF Active, ActiveStatus
      <3> QED BY <3>1, <3>2 DEF Active
    <2> QED BY <2>1, <2>2
  <1>2. CollectorSpec => []CloseInv
    BY Prompt, CloseInvariance
  <1> QED BY <1>1, <1>2, PTL DEF CollectorSpec, ClosedStaysClosed

\* What a step that reopens nothing does to the parts of IInv about tickets.
LEMMA FewerActive ==
    ASSUME IInv, CollectorTypeOK', Active' \subseteq Active, UNCHANGED <<sig, owner>>
    PROVE  /\ NoSecondOfOneServer'
           /\ report' = report => ReportIsCurrent'
           /\ Inserting' \subseteq Inserting => RoomForAll'
  <1>1. CollectorTypeOK
    BY DEF IInv, CloseInv
  <1>2. /\ Cardinality(Active') <= Cardinality(Active)
        /\ Cardinality(Active) \in Nat
        /\ Cardinality(Active') \in Nat
    BY <1>1, ActiveFinite, FS_Subset, FS_CardinalityType
  <1>3. NoSecondOfOneServer'
    BY DEF IInv, NoSecondOfOneServer
  <1>4. ASSUME report' = report
        PROVE  ReportIsCurrent'
    BY <1>4 DEF IInv, ReportIsCurrent
  <1>5. ASSUME Inserting' \subseteq Inserting
        PROVE  RoomForAll'
    <2>1. /\ Cardinality(Inserting') <= Cardinality(Inserting)
          /\ Cardinality(Inserting) \in Nat
          /\ Cardinality(Inserting') \in Nat
      BY <1>5, InsertingFinite, FS_Subset, FS_CardinalityType
    <2>2. MaxActive \in Nat /\ Cardinality(Procs) \in Nat
      BY CollectorAssumption, FS_CardinalityType
    <2> QED BY <1>2, <2>1, <2>2 DEF IInv, RoomForAll
  <1> QED BY <1>3, <1>4, <1>5

\* The invariant, whatever the number of servers.
LEMMA LimitInvariance == ASSUME Prompt PROVE CollectorSpec => []IInv
  <1>1. CollectorInit => NoSecondOfOneServer /\ ReportIsCurrent /\ RoomForAll
    <2> SUFFICES ASSUME CollectorInit
                 PROVE  NoSecondOfOneServer /\ ReportIsCurrent /\ RoomForAll
      OBVIOUS
    <2>1. Active = {} /\ Inserting = {} /\ \A p \in Procs : report[p].step = "idle"
      BY DEF CollectorInit, Active, ActiveStatus, NoReport, Inserting, At
    <2>2. /\ Cardinality(Active) = 0 /\ Cardinality(Inserting) = 0
          /\ MaxActive \in Nat \ {0} /\ Cardinality(Procs) \in Nat
      BY <2>1, FS_EmptySet, CollectorAssumption, FS_CardinalityType
    <2>3. RoomForAll
      BY <2>2 DEF RoomForAll
    <2> QED BY <2>1, <2>3 DEF NoSecondOfOneServer, ReportIsCurrent
  <1>2. ASSUME IInv, CloseInv', [CollectorNext]_collectorVars
        PROVE  NoSecondOfOneServer' /\ ReportIsCurrent' /\ RoomForAll'
    <2>1. CASE \E p \in Procs : InsertTicket(p)
      <3>1. PICK p \in Procs : InsertTicket(p)
        BY <2>1
      <3>2. /\ nextTicket \in Ticket
            /\ status[nextTicket] = "none"
            /\ status' = [status EXCEPT ![nextTicket] = "pending"]
            /\ sig' = [sig EXCEPT ![nextTicket] = report[p].sig]
            /\ owner' = [owner EXCEPT ![nextTicket] = p]
            /\ report' = [report EXCEPT ![p] = NoReport]
            /\ report[p].step = "insert"
        BY <3>1, <1>2 DEF InsertTicket, At, IInv, CloseInv, CollectorTypeOK, Fresh
      <3>3. /\ Active' = Active \cup {nextTicket}
            /\ nextTicket \notin Active
            /\ \A t \in Active : sig'[t] = sig[t] /\ owner'[t] = owner[t]
            /\ sig'[nextTicket] = report[p].sig /\ owner'[nextTicket] = p
        BY <3>2, <1>2 DEF Active, ActiveStatus, IInv, CloseInv, CollectorTypeOK
      <3>4. \A t \in Active : sig[t] = report[p].sig => owner[t] # p
        BY <3>2, <1>2 DEF IInv, ReportIsCurrent
      <3>5. Cardinality(Active') = Cardinality(Active) + 1 /\ Cardinality(Active) \in Nat
        BY <3>3, <1>2, ActiveFinite, FS_AddElement DEF IInv, CloseInv
      <3>6. NoSecondOfOneServer'
        BY <3>3, <3>4, <1>2 DEF IInv, NoSecondOfOneServer
      <3>7. RoomForAll'
        <4>1. Inserting' = Inserting \ {p} /\ p \in Inserting
          BY <3>2, <1>2 DEF Inserting, At, NoReport, IInv, CloseInv, CollectorTypeOK
        <4>2. Cardinality(Inserting') = Cardinality(Inserting) - 1 /\ Cardinality(Inserting) \in Nat
          BY <4>1, InsertingFinite, FS_RemoveElement, FS_CardinalityType
        <4> QED BY <3>5, <4>2, <1>2 DEF IInv, RoomForAll
      <3>8. ASSUME NEW q \in Procs, report'[q].step \in {"count", "insert"}
            PROVE  \A t \in Active' : sig'[t] = report'[q].sig => owner'[t] # q
        <4>1. q # p /\ report'[q] = report[q]
          BY <3>2, <3>8, <1>2 DEF NoReport, IInv, CloseInv, CollectorTypeOK
        <4> QED BY <3>3, <3>8, <4>1, <1>2 DEF IInv, ReportIsCurrent
      <3> QED BY <3>6, <3>7, <3>8 DEF ReportIsCurrent
    <2>2. CASE \A p \in Procs : ~InsertTicket(p)
      <3>1. Active' \subseteq Active /\ UNCHANGED <<sig, owner>>
        BY <1>2, <2>2, NothingReopens, Prompt DEF IInv
      <3>2. /\ NoSecondOfOneServer'
            /\ report' = report => ReportIsCurrent'
            /\ Inserting' \subseteq Inserting => RoomForAll'
        BY <1>2, <3>1, FewerActive DEF CloseInv
      <3> USE DEF At
      <3>3. ASSUME NEW p \in Procs, NEW s \in Sigs, Report(p, s)
            PROVE  ReportIsCurrent' /\ Inserting' \subseteq Inserting
        <4>1. \A q \in Procs : \/ report'[q].step = "find"
                                \/ report'[q] = report[q]
          BY <3>3, <1>2 DEF Report, IInv, CloseInv, CollectorTypeOK
        <4> QED BY <3>1, <4>1, <1>2 DEF IInv, ReportIsCurrent, Inserting
      <3>4. ASSUME NEW p \in Procs, FindDuplicate(p)
            PROVE  ReportIsCurrent' /\ Inserting' \subseteq Inserting
        <4>1. \A q \in Procs :
                \/ report'[q].step = "idle"
                \/ report'[q] = report[q]
                \/ /\ report'[q].step = "count"
                   /\ q = p /\ ~Duplicate(report[p].sig) /\ report'[q].sig = report[p].sig
          BY <3>4, <1>2 DEF FindDuplicate, Go, NoReport, IInv, CloseInv, CollectorTypeOK
        <4> QED BY <3>1, <4>1, <1>2 DEF IInv, ReportIsCurrent, Duplicate, Inserting
      <3>5. ASSUME NEW p \in Procs, CountActive(p)
            PROVE  ReportIsCurrent' /\ RoomForAll'
        <4>1. Active' = Active /\ report[p].step = "count"
          BY <3>5 DEF CountActive, ticketVars, Active
        <4>2. \A q \in Procs :
                \/ report'[q].step = "idle"
                \/ report'[q] = report[q]
                \/ /\ report'[q].step = "insert"
                   /\ q = p /\ ~LimitReached /\ report'[q].sig = report[p].sig
          BY <3>5, <1>2 DEF CountActive, Go, NoReport, IInv, CloseInv, CollectorTypeOK
        <4>3. ReportIsCurrent'
          BY <3>1, <4>1, <4>2, <1>2 DEF IInv, ReportIsCurrent
        <4>4. CASE Inserting' \subseteq Inserting
          BY <4>3, <4>4, <3>2
        <4>5. CASE ~(Inserting' \subseteq Inserting)
          <5>1. ~LimitReached
            BY <4>2, <4>5 DEF Inserting
          <5>2. /\ Cardinality(Active) \in Nat /\ Cardinality(Procs) \in Nat /\ MaxActive \in Nat
                /\ Cardinality(Inserting') \in Nat
                /\ Cardinality(Inserting') <= Cardinality(Procs)
            <6>1. Inserting' \subseteq Procs
              BY DEF Inserting
            <6> QED BY <6>1, <1>2, ActiveFinite, CollectorAssumption, FS_Subset, FS_CardinalityType
                    DEF IInv, CloseInv
          <5> QED BY <4>1, <4>3, <5>1, <5>2 DEF RoomForAll, LimitReached
        <4> QED BY <4>4, <4>5
      <3>6. ASSUME NEW p \in Procs, ReportFails(p) \/ RestartProcess(p)
            PROVE  ReportIsCurrent' /\ Inserting' \subseteq Inserting
        <4>1. \A q \in Procs : \/ report'[q].step = "idle"
                                \/ report'[q] = report[q]
          BY <3>6, <1>2 DEF ReportFails, RestartProcess, NoReport, IInv, CloseInv, CollectorTypeOK
        <4> QED BY <3>1, <4>1, <1>2 DEF IInv, ReportIsCurrent, Inserting
      <3>7. CASE \/ \E p \in Procs : CooldownEnds(p)
                 \/ \E t \in Ticket : RunStep(t) \/ Expire(t)
                 \/ \E t \in Ticket, p \in Procs : Resume(t, p)
                 \/ UNCHANGED collectorVars
        <4>1. report' = report
          BY <3>7 DEF CooldownEnds, RunStep, TriggerFails, RunReturns, MarkInProgress,
                      MarkFails, RunEnds, Resolve, Expire, Resume, reportVars, collectorVars
        <4>2. Inserting' = Inserting
          BY <4>1 DEF Inserting
        <4> QED BY <4>1, <4>2, <3>2
      <3> QED BY <1>2, <2>2, <3>2, <3>3, <3>4, <3>5, <3>6, <3>7 DEF CollectorNext, ReportStep
    <2> QED BY <2>1, <2>2
  <1>3. CollectorSpec => []CloseInv
    BY Prompt, CloseInvariance
  <1> QED BY <1>1, <1>2, <1>3, PTL DEF CollectorSpec, IInv

\* The type invariant, of every process and ticket.
THEOREM CollectorTypes == ASSUME Prompt PROVE CollectorSpec => []CollectorTypeOK
  <1>1. CollectorSpec => []CloseInv
    BY Prompt, CloseInvariance
  <1> QED BY <1>1, PTL DEF CloseInv

\* However many servers share the database, none of them ever has two active tickets
\* about the same error.
THEOREM OneEach == ASSUME Prompt PROVE CollectorSpec => []NoSecondOfOneServer
  <1>1. CollectorSpec => []IInv
    BY Prompt, LimitInvariance
  <1> QED BY <1>1, PTL DEF IInv

\* The limit is passed by at most one ticket for every server but one.
THEOREM LimitHolds == ASSUME Prompt PROVE CollectorSpec => []ActiveBounded
  <1>1. ASSUME IInv
        PROVE  ActiveBounded
    <2>1. Cardinality(Active) \in Nat /\ Cardinality(Inserting) \in Nat
      BY <1>1, ActiveFinite, InsertingFinite, FS_CardinalityType DEF IInv, CloseInv
    <2>2. MaxActive \in Nat /\ Cardinality(Procs) \in Nat
      BY CollectorAssumption, FS_CardinalityType
    <2> QED BY <1>1, <2>1, <2>2 DEF IInv, RoomForAll, ActiveBounded
  <1>2. CollectorSpec => []IInv
    BY Prompt, LimitInvariance
  <1> QED BY <1>1, <1>2, PTL
=============================================================================
