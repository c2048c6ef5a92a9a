---------------------------- MODULE SoftInterrupts ----------------------------
(***************************************************************************)
(* Background tasks and the queue of pending messages put together: the    *)
(* handler of a task's exit queues a message for the task's owner, whose   *)
(* interrupt points take it.  A task queues one message at most, and its   *)
(* message has its name here; the other messages of the owner come from    *)
(* delegations, automation jobs, the file activity and the user.           *)
(***************************************************************************)
EXTENDS BackgroundTasks, PendingMessages

ASSUME MessageAssumption == Tasks \subseteq Msgs

vars == <<taskVars, msgVars>>

TypeOK == TasksOK /\ MessagesOK

Init == InitTasks /\ InitMessages

WakeOwner(t) ==
    /\ ExitWakes(t)
    /\ Queue(t, proc[t] = "bad")

QueueOther(m) ==
    /\ m \notin Tasks
    /\ \E isUrgent \in BOOLEAN : Queue(m, isUrgent)
    /\ UNCHANGED taskVars

TakeThrows(k) ==
    /\ TakeFails(k)
    /\ Trouble
    /\ UNCHANGED <<start, proc, rec, file, exit, poll, cancel, termed>>

Restart == RestartTasks /\ LoseTakers

Next ==
    \/ \E t \in Tasks :
        \/ TaskStep(t) /\ UNCHANGED msgVars
        \/ WakeOwner(t)
    \/ \E m \in Msgs :
        \/ QueueOther(m)
        \/ ExpireMessage(m) /\ UNCHANGED taskVars
    \/ \E k \in Takers :
        \/ Take(k) /\ UNCHANGED taskVars
        \/ TakeThrows(k)
    \/ Restart

Spec == Init /\ [][Next]_vars

\* Calls of the database return, whoever waits for a task polls until it is over,
\* and the owner's agent comes to interrupt points again and again.
Fairness ==
    /\ \A t \in Tasks :
        /\ WF_vars(StartStep(t) /\ UNCHANGED msgVars)
        /\ WF_vars((ExitStep(t) /\ UNCHANGED msgVars) \/ WakeOwner(t))
        /\ \A k \in Pollers : WF_vars(PollStep(t, k) /\ UNCHANGED msgVars)
    /\ \A k \in Takers : WF_vars(Take(k) /\ UNCHANGED taskVars)

FairSpec == Spec /\ Fairness

-----------------------------------------------------------------------------
(* Properties                                                               *)

\* A message is not consumed for nothing: unless the server went or the database
\* threw, whoever marked it has delivered it or is about to, also when two takers
\* found the same messages.
ConsumedIsHeld ==
    troubles = 0 =>
        \A m \in Msgs :
            msg[m] = "consumed" =>
                \/ m \in delivered
                \/ \E k \in Takers : taker[k].step = "return" /\ m \in taker[k].found

\* An exit handler that has come to waking the owner does wake it, or the message
\* expires, if nothing fails from then on.
WakeReachesOwner ==
    \A t \in Tasks :
        (exit[t] = "wake" /\ troubles = MaxTroubles)
            ~> t \in delivered \/ msg[t] = "gone"
=============================================================================
