------------------------ MODULE SubtaskDispatchProofs ------------------------
(***************************************************************************)
(* What TLAPS proves of the dispatch: for any plan, any number of subtasks *)
(* and messages, and whatever the agents answer.                           *)
(***************************************************************************)
EXTENDS RoutedDispatch, FiniteSetTheorems, WellFoundedInduction, TLAPS

-----------------------------------------------------------------------------
(* The inductive invariant                                                  *)

\* What is done has an answer, what an urgent message stopped is done, the groups
\* before are, and those to come are untouched.
SubtaskOK(s) ==
    /\ sub[s].at = "done" => sub[s].status \in {"success", "needs_human"}
    /\ sub[s].stopped => sub[s].at = "done"
    /\ s \in routed => sub[s].at = "done"
    /\ s \notin routed \cup group /\ loop # "done" => sub[s] = NotBegun
    /\ loop = "done" => sub[s].at = "done"

GroupsOK ==
    /\ group \cap routed = {}
    /\ loop = "check" => group = {} /\ routed # Subtasks

Inv ==
    /\ TypeOK
    /\ GroupsOK
    /\ \A s \in Subtasks : SubtaskOK(s)

-----------------------------------------------------------------------------
(* Messages                                                                 *)

LEMMA LoopTakes == Loop \in Takers
BY DispatchAssumption

\* Taking messages keeps their types, and finds messages.
LEMMA TakenFacts ==
    ASSUME MessagesOK, troubles \in 0..MaxTroubles, NEW found \in SUBSET Msgs, Taken(found)
    PROVE  MessagesOK' /\ troubles' \in 0..MaxTroubles
<1>1. MaxTroubles \in Nat
  BY DispatchAssumption
<1>2. Idle \in [step : {"find", "mark", "return"}, found : SUBSET Msgs]
  BY DEF Idle
<1>3. CASE UNCHANGED <<msgVars, troubles>>
  BY <1>3 DEF msgVars, MessagesOK
<1>4. CASE Return(Loop) /\ UNCHANGED troubles
  <2>1. taker[Loop].found \subseteq Msgs
    BY LoopTakes DEF MessagesOK
  <2> QED
    BY <1>2, <1>4, <2>1 DEF Return, MessagesOK
<1>5. CASE TakeFails(Loop) /\ Trouble
  <2>1. msg' \in [Msgs -> {"none", "pending", "consumed", "gone"}]
    BY <1>5 DEF TakeFails, Consumed, MessagesOK
  <2>2. troubles' \in 0..MaxTroubles
    BY <1>1, <1>5 DEF Trouble
  <2> QED
    BY <1>2, <1>5, <2>1, <2>2 DEF TakeFails, MessagesOK
<1> QED
  BY <1>3, <1>4, <1>5 DEF Taken

\* So do the other steps of the queue.
LEMMA QueueSteps ==
    ASSUME MessagesOK,
           \/ Find(Loop) \/ Mark(Loop) \/ LoseTakers
           \/ \E m \in Msgs, isUrgent \in BOOLEAN : Queue(m, isUrgent)
           \/ \E m \in Msgs : ExpireMessage(m)
    PROVE  MessagesOK'
<1>1. CASE Find(Loop)
  <2>1. PICK found \in SUBSET Msgs :
            taker' = [taker EXCEPT ![Loop] = [step |-> "mark", found |-> found]]
    BY <1>1 DEF Find
  <2> QED
    BY <1>1, <2>1 DEF Find, MessagesOK
<1>2. CASE Mark(Loop)
  <2>1. msg' \in [Msgs -> {"none", "pending", "consumed", "gone"}]
    BY <1>2 DEF Mark, Consumed, MessagesOK
  <2> QED
    BY <1>2, <2>1 DEF Mark, MessagesOK
<1>3. CASE LoseTakers
  BY <1>3 DEF LoseTakers, MessagesOK, Idle
<1>4. ASSUME NEW m \in Msgs, NEW isUrgent \in BOOLEAN, Queue(m, isUrgent)
      PROVE  MessagesOK'
  BY <1>4 DEF Queue, MessagesOK
<1>5. ASSUME NEW m \in Msgs, ExpireMessage(m)
      PROVE  MessagesOK'
  BY <1>5 DEF ExpireMessage, MessagesOK
<1> QED
  BY <1>1, <1>2, <1>3, <1>4, <1>5

-----------------------------------------------------------------------------
(* One subtask moves                                                        *)

LEMMA OneMoves ==
    ASSUME Inv, NEW s \in group, loop = "run", NEW r \in Record,
           sub' = [sub EXCEPT ![s] = r],
           UNCHANGED <<planVars, loop>>,
           r.at = "done" => r.status \in {"success", "needs_human"},
           r.stopped => r.at = "done"
    PROVE  /\ sub' \in [Subtasks -> Record]
           /\ GroupsOK'
           /\ \A k \in Subtasks : SubtaskOK(k)'
<1> USE DEF planVars
<1>1. s \in Subtasks /\ sub \in [Subtasks -> Record]
  BY DEF Inv, TypeOK
<1>2. GroupsOK'
  BY DEF Inv, GroupsOK
<1>3. ASSUME NEW k \in Subtasks PROVE SubtaskOK(k)'
  <2>1. CASE k = s
    <3>1. sub'[k] = r /\ k \in group /\ k \notin routed
      BY <1>1, <2>1 DEF Inv, GroupsOK
    <3> QED
      BY <3>1 DEF SubtaskOK
  <2>2. CASE k # s
    <3>1. sub'[k] = sub[k]
      BY <1>1, <2>2
    <3> QED
      BY <3>1 DEF Inv, SubtaskOK
  <2> QED
    BY <2>1, <2>2
<1> QED
  BY <1>1, <1>2, <1>3

\* A subtask's next record is made of its present one.
LEMMA StepOfOne ==
    ASSUME Inv, NEW s \in Subtasks, SubtaskStep(s)
    PROVE  Inv'
<1>1. sub[s] \in Record
  BY DEF Inv, TypeOK
<1>2. PICK q \in Record : q = sub[s]
  BY <1>1
<1>3. Msgs \subseteq Msgs /\ {} \in SUBSET Msgs
  OBVIOUS
<1>4. ASSUME NEW r \in Record, NEW step, Executes(s, step, r), shown' \subseteq Msgs,
             r.at = "done" => r.status \in {"success", "needs_human"},
             r.stopped => r.at = "done"
      PROVE  Inv'
  <2>1. /\ loop = "run" /\ s \in group
        /\ sub' = [sub EXCEPT ![s] = r]
        /\ UNCHANGED <<planVars, loop>>
        /\ UNCHANGED <<troubles, msgVars>>
    BY <1>4 DEF Executes
  <2>2. /\ sub' \in [Subtasks -> Record]
        /\ GroupsOK'
        /\ \A k \in Subtasks : SubtaskOK(k)'
    BY <1>4, <2>1, OneMoves
  <2>3. TypeOK'
    BY <1>4, <2>1, <2>2 DEF Inv, TypeOK, MessagesOK, msgVars, planVars
  <2> QED
    BY <2>2, <2>3 DEF Inv
<1>5. ASSUME NEW found \in SUBSET Msgs, Taken(found),
             NEW r \in Record, loop = "run", s \in group,
             sub' = [sub EXCEPT ![s] = r], UNCHANGED <<planVars, loop>>,
             shown' \subseteq Msgs,
             r.at = "done" => r.status \in {"success", "needs_human"},
             r.stopped => r.at = "done"
      PROVE  Inv'
  <2>1. MessagesOK' /\ troubles' \in 0..MaxTroubles
    BY <1>5, TakenFacts DEF Inv, TypeOK
  <2>2. /\ sub' \in [Subtasks -> Record]
        /\ GroupsOK'
        /\ \A k \in Subtasks : SubtaskOK(k)'
    BY <1>5, OneMoves
  <2>3. TypeOK'
    BY <1>5, <2>1, <2>2 DEF Inv, TypeOK, planVars
  <2> QED
    BY <2>2, <2>3 DEF Inv
<1>6. shown \subseteq Msgs /\ q.context \subseteq Msgs
  BY <1>2 DEF Inv, TypeOK, Record
<1>7. q.at # "done" => ~q.stopped
  BY <1>2 DEF Inv, SubtaskOK
<1>8. ASSUME NEW status \in {"success", "partial", "failed"},
             Executes(s, "call", Result(sub[s], status)), UNCHANGED shown
      PROVE  Inv'
  <2> DEFINE r == [q EXCEPT !.at = "ran", !.status = status, !.fell = FALSE, !.context = {}]
  <2>1. Executes(s, "call", r)
    BY <1>2, <1>8 DEF Result
  <2>2. q.at = "call"
    BY <1>2, <1>8 DEF Executes
  <2>3. r \in Record /\ r.at = "ran" /\ r.stopped = q.stopped
    BY DEF Record
  <2>4. ~r.stopped
    BY <1>7, <2>2, <2>3
  <2>5. shown' \subseteq Msgs
    BY <1>6, <1>8
  <2> HIDE DEF r
  <2> QED
    BY <1>4, <2>1, <2>3, <2>4, <2>5
<1>9. CASE Prompt(s)
  <2> DEFINE r == [q EXCEPT !.at = "call"]
  <2>1. Executes(s, "prompt", r) /\ shown' = shown \cup q.context
    BY <1>2, <1>9 DEF Prompt
  <2>2. q.at = "prompt"
    BY <1>2, <1>9 DEF Prompt, Executes
  <2>3. r \in Record /\ r.at = "call" /\ r.stopped = q.stopped
    BY DEF Record
  <2>4. ~r.stopped
    BY <1>7, <2>2, <2>3
  <2>5. shown' \subseteq Msgs
    BY <1>6, <2>1
  <2> HIDE DEF r
  <2> QED
    BY <1>4, <2>1, <2>3, <2>4, <2>5
<1>10. CASE Answers(s)
  BY <1>8, <1>10 DEF Answers
<1>11. CASE FallsBack(s)
  <2> DEFINE r == [q EXCEPT !.at = "prompt", !.fell = TRUE]
  <2>1. Executes(s, "call", r) /\ UNCHANGED shown
    BY <1>2, <1>11 DEF FallsBack
  <2>2. q.at = "call"
    BY <1>2, <1>11 DEF FallsBack, Executes
  <2>3. r \in Record /\ r.at = "prompt" /\ r.stopped = q.stopped
    BY DEF Record
  <2>4. ~r.stopped
    BY <1>7, <2>2, <2>3
  <2>5. shown' \subseteq Msgs
    BY <1>6, <2>1
  <2> HIDE DEF r
  <2> QED
    BY <1>4, <2>1, <2>3, <2>4, <2>5
<1>12. CASE Throws(s)
  BY <1>8, <1>12 DEF Throws
<1>13. CASE Keep(s)
  <2> DEFINE r == [q EXCEPT !.at = "done", !.status = "success"]
  <2>1. Executes(s, "ran", r) /\ UNCHANGED shown
    BY <1>2, <1>13 DEF Keep, Judges
  <2>3. r \in Record /\ r.at = "done" /\ r.status = "success"
    BY DEF Record
  <2>5. shown' \subseteq Msgs
    BY <1>6, <2>1
  <2> HIDE DEF r
  <2> QED
    BY <1>4, <2>1, <2>3, <2>5
<1>14. CASE TryAgain(s)
  <2> DEFINE r == [q EXCEPT !.at = "take", !.attempt = @ + 1, !.status = "none"]
  <2>1. Executes(s, "ran", r) /\ UNCHANGED shown /\ q.attempt < 3
    BY <1>2, <1>14 DEF TryAgain, Judges
  <2>2. q.at = "ran"
    BY <1>2, <1>14 DEF TryAgain, Judges, Executes
  <2>3. r \in Record /\ r.at = "take" /\ r.stopped = q.stopped
    <3>1. q.attempt \in 1..3 /\ q.attempt + 1 \in 1..3
      BY <2>1 DEF Record
    <3> QED
      BY <3>1 DEF Record
  <2>4. ~r.stopped
    BY <1>7, <2>2, <2>3
  <2>5. shown' \subseteq Msgs
    BY <1>6, <2>1
  <2> HIDE DEF r
  <2> QED
    BY <1>4, <2>1, <2>3, <2>4, <2>5
<1>15. CASE GiveUp(s)
  <2> DEFINE r == [q EXCEPT !.at = "done", !.status = "needs_human"]
  <2>1. Executes(s, "ran", r) /\ UNCHANGED shown
    BY <1>2, <1>15 DEF GiveUp, Judges
  <2>3. r \in Record /\ r.at = "done" /\ r.status = "needs_human"
    BY DEF Record
  <2>5. shown' \subseteq Msgs
    BY <1>6, <2>1
  <2> HIDE DEF r
  <2> QED
    BY <1>4, <2>1, <2>3, <2>5
<1>16. CASE Attempt(s)
  <2>1. PICK found \in SUBSET Msgs :
            /\ Taken(found)
            /\ sub' = [sub EXCEPT ![s] = [@ EXCEPT !.at = "prompt", !.fell = FALSE,
                                                   !.context = found]]
    BY <1>16 DEF Attempt
  <2> DEFINE r == [q EXCEPT !.at = "prompt", !.fell = FALSE, !.context = found]
  <2>2. sub' = [sub EXCEPT ![s] = r]
    BY <1>1, <1>2, <2>1 DEF Inv, TypeOK
  <2>3. /\ loop = "run" /\ s \in group /\ q.at = "take"
        /\ UNCHANGED <<planVars, loop>> /\ UNCHANGED shown
    BY <1>2, <1>16 DEF Attempt
  <2>4. r \in Record /\ r.at = "prompt" /\ r.stopped = q.stopped
    BY DEF Record
  <2>5. ~r.stopped
    BY <1>7, <2>3, <2>4
  <2>6. shown' \subseteq Msgs
    BY <1>6, <2>3
  <2> HIDE DEF r
  <2> QED
    BY <1>5, <2>1, <2>2, <2>3, <2>4, <2>5, <2>6
<1>17. CASE InterruptSubtask(s)
  <2>1. PICK found \in SUBSET Msgs :
            /\ Taken(found)
            /\ sub' = [sub EXCEPT ![s] = Interrupted(@)]
            /\ shown' = shown \cup found
    BY <1>17 DEF InterruptSubtask
  <2> DEFINE r == [q EXCEPT !.at = "done", !.status = "needs_human", !.stopped = TRUE]
  <2>2. sub' = [sub EXCEPT ![s] = r]
    BY <1>1, <1>2, <2>1 DEF Inv, TypeOK, Interrupted
  <2>3. loop = "run" /\ s \in group /\ UNCHANGED <<planVars, loop>>
    BY <1>17 DEF InterruptSubtask
  <2>4. r \in Record /\ r.at = "done" /\ r.status = "needs_human"
    BY DEF Record
  <2>5. shown' \subseteq Msgs
    BY <1>6, <2>1
  <2> HIDE DEF r
  <2> QED
    BY <1>5, <2>1, <2>2, <2>3, <2>4, <2>5
<1> QED
  BY <1>9, <1>10, <1>11, <1>12, <1>13, <1>14, <1>15, <1>16, <1>17 DEF SubtaskStep

-----------------------------------------------------------------------------
(* The groups                                                               *)

\* As long as a subtask is left, a group is found for it.
LEMMA NextGroupFacts ==
    ASSUME routed \subseteq Subtasks
    PROVE  /\ NextGroup \subseteq Subtasks \ routed
           /\ routed # Subtasks => NextGroup # {}
BY DEF NextGroup, GroupAfter

\* The first records of a subtask.
LEMMA NewRecords ==
    /\ NotBegun \in Record /\ ~NotBegun.stopped
    /\ \A found \in SUBSET Msgs :
        LET r == [NotBegun EXCEPT !.at = "prompt", !.context = found]
        IN r \in Record /\ r.at = "prompt" /\ ~r.stopped
    /\ LET r == [NotBegun EXCEPT !.at = "done", !.status = "needs_human", !.stopped = TRUE]
       IN r \in Record /\ r.at = "done" /\ r.status = "needs_human"
<1>1. NotBegun \in Record
  BY DEF NotBegun, Record
<1>2. ~NotBegun.stopped
  BY DEF NotBegun
<1>3. PICK q \in Record : q = NotBegun
  BY <1>1
<1>4. ASSUME NEW found \in SUBSET Msgs
      PROVE  LET r == [q EXCEPT !.at = "prompt", !.context = found]
             IN r \in Record /\ r.at = "prompt" /\ r.stopped = q.stopped
  BY DEF Record
<1>5. LET r == [q EXCEPT !.at = "done", !.status = "needs_human", !.stopped = TRUE]
      IN r \in Record /\ r.at = "done" /\ r.status = "needs_human"
  BY DEF Record
<1> QED
  BY <1>1, <1>2, <1>3, <1>4, <1>5

LEMMA GroupBegins ==
    ASSUME Inv, BeginGroup
    PROVE  Inv'
<1>1. PICK found \in SUBSET Msgs :
          /\ Taken(found)
          /\ sub' = [s \in Subtasks |-> IF s \in NextGroup
                                        THEN [sub[s] EXCEPT !.at = "prompt", !.context = found]
                                        ELSE sub[s]]
  BY DEF BeginGroup
<1>2. /\ loop = "check" /\ loop' = "run" /\ group' = NextGroup
      /\ UNCHANGED <<needs, routed, shown>>
  BY DEF BeginGroup
<1>3. MessagesOK' /\ troubles' \in 0..MaxTroubles
  BY <1>1, TakenFacts DEF Inv, TypeOK
<1>4. group = {} /\ NextGroup \subseteq Subtasks \ routed
  BY <1>2, NextGroupFacts DEF Inv, TypeOK, GroupsOK
<1>5. ASSUME NEW s \in Subtasks
      PROVE  sub'[s] \in Record /\ SubtaskOK(s)'
  <2>1. CASE s \in NextGroup
    <3>1. sub[s] = NotBegun
      BY <1>2, <1>4, <2>1 DEF Inv, SubtaskOK
    <3>2. sub'[s] = [NotBegun EXCEPT !.at = "prompt", !.context = found]
      BY <1>1, <2>1, <3>1
    <3>3. sub'[s] \in Record /\ sub'[s].at = "prompt" /\ ~sub'[s].stopped
      BY <3>2, NewRecords
    <3>4. s \in group' /\ s \notin routed' /\ loop' = "run"
      BY <1>2, <1>4, <2>1
    <3> QED
      BY <3>3, <3>4 DEF SubtaskOK
  <2>2. CASE s \notin NextGroup
    <3>1. sub'[s] = sub[s]
      BY <1>1, <2>2
    <3>2. s \notin group /\ s \notin group' /\ routed' = routed
      BY <1>2, <1>4, <2>2
    <3> QED
      BY <1>2, <3>1, <3>2 DEF Inv, TypeOK, SubtaskOK
  <2> QED
    BY <2>1, <2>2
<1>6. sub' \in [Subtasks -> Record]
  <2>1. sub' = [s \in Subtasks |-> sub'[s]]
    BY <1>1
  <2> QED
    BY <1>5, <2>1
<1>7. GroupsOK'
  BY <1>2, <1>4 DEF GroupsOK
<1>8. TypeOK'
  BY <1>2, <1>3, <1>4, <1>6 DEF Inv, TypeOK
<1> QED
  BY <1>5, <1>7, <1>8 DEF Inv

LEMMA GroupsInterrupted ==
    ASSUME Inv, InterruptGroups
    PROVE  Inv'
<1>1. PICK found \in SUBSET Msgs :
          /\ Taken(found)
          /\ sub' = [s \in Subtasks |-> IF s \in routed THEN sub[s] ELSE Interrupted(sub[s])]
          /\ shown' = shown \cup found
  BY DEF InterruptGroups
<1>2. loop = "check" /\ loop' = "done" /\ UNCHANGED planVars
  BY DEF InterruptGroups
<1>3. MessagesOK' /\ troubles' \in 0..MaxTroubles
  BY <1>1, TakenFacts DEF Inv, TypeOK
<1>4. ASSUME NEW s \in Subtasks
      PROVE  sub'[s] \in Record /\ SubtaskOK(s)'
  <2>1. CASE s \in routed
    <3>1. sub'[s] = sub[s]
      BY <1>1, <2>1
    <3> QED
      BY <1>2, <2>1, <3>1 DEF Inv, TypeOK, SubtaskOK, planVars
  <2>2. CASE s \notin routed
    <3>1. sub[s] = NotBegun
      BY <1>2, <2>2 DEF Inv, SubtaskOK, GroupsOK
    <3>2. sub'[s] = Interrupted(NotBegun)
      BY <1>1, <2>2, <3>1
    <3>3. /\ sub'[s] \in Record /\ sub'[s].at = "done"
          /\ sub'[s].status = "needs_human"
      BY <3>2, NewRecords DEF Interrupted
    <3> QED
      BY <1>2, <3>3 DEF SubtaskOK
  <2> QED
    BY <2>1, <2>2
<1>5. sub' \in [Subtasks -> Record]
  <2>1. sub' = [s \in Subtasks |-> sub'[s]]
    BY <1>1
  <2> QED
    BY <1>4, <2>1
<1>6. GroupsOK'
  BY <1>2 DEF Inv, GroupsOK, planVars
<1>7. TypeOK'
  BY <1>1, <1>2, <1>3, <1>5 DEF Inv, TypeOK, planVars
<1> QED
  BY <1>4, <1>6, <1>7 DEF Inv

\* No group aborts the dispatch: a group's answers are never "failed".
LEMMA GroupEnds ==
    ASSUME Inv, EndGroup
    PROVE  Inv'
<1>1. /\ loop = "run" /\ \A s \in group : sub[s].at = "done"
      /\ routed' = routed \cup group /\ group' = {}
      /\ loop' = IF Aborts \/ routed' = Subtasks THEN "done" ELSE "check"
      /\ UNCHANGED <<needs, sub, shown, troubles, msgVars>>
  BY DEF EndGroup
<1>2. group \subseteq Subtasks /\ routed \subseteq Subtasks
  BY DEF Inv, TypeOK
<1>3. ~Aborts
  BY <1>1, <1>2 DEF Aborts, Inv, SubtaskOK
<1>4. ASSUME NEW s \in Subtasks PROVE SubtaskOK(s)'
  <2>1. sub'[s] = sub[s]
    BY <1>1
  <2>2. SubtaskOK(s)
    BY DEF Inv
  <2>3. s \in routed' => sub[s].at = "done"
    BY <1>1, <2>2 DEF SubtaskOK
  <2>4. loop' = "done" => routed' = Subtasks
    BY <1>1, <1>3
  <2>5. s \notin routed' \cup group' => sub[s] = NotBegun
    BY <1>1, <2>2 DEF SubtaskOK
  <2> QED
    BY <2>1, <2>2, <2>3, <2>4, <2>5 DEF SubtaskOK
<1>5. GroupsOK'
  BY <1>1, <1>3 DEF GroupsOK
<1>6. TypeOK'
  BY <1>1, <1>2 DEF Inv, TypeOK, MessagesOK, msgVars
<1> QED
  BY <1>4, <1>5, <1>6 DEF Inv

-----------------------------------------------------------------------------
(* The whole                                                                *)

LEMMA InitInv == Init => Inv
<1> SUFFICES ASSUME Init PROVE Inv
  OBVIOUS
<1>1. NotBegun \in Record /\ NotBegun.at = "waiting" /\ ~NotBegun.stopped
  BY NewRecords DEF NotBegun
<1>2. TypeOK
  BY <1>1, DispatchAssumption DEF Init, InitMessages, TypeOK, MessagesOK, Idle
<1>3. \A s \in Subtasks : SubtaskOK(s)
  BY <1>1 DEF Init, SubtaskOK
<1>4. GroupsOK
  BY DispatchAssumption DEF Init, GroupsOK
<1> QED
  BY <1>2, <1>3, <1>4 DEF Inv

\* Where only messages, or the counter of troubles, change.
LEMMA OthersStep ==
    ASSUME Inv, UNCHANGED dispatchVars, MessagesOK', troubles' \in 0..MaxTroubles
    PROVE  Inv'
<1>1. TypeOK'
  BY DEF Inv, TypeOK, dispatchVars, planVars
<1>2. GroupsOK'
  BY DEF Inv, GroupsOK, dispatchVars, planVars
<1>3. \A s \in Subtasks : SubtaskOK(s)'
  BY DEF Inv, SubtaskOK, dispatchVars, planVars
<1> QED
  BY <1>1, <1>2, <1>3 DEF Inv

LEMMA NextInv == Inv /\ [Next]_vars => Inv'
<1> SUFFICES ASSUME Inv, [Next]_vars PROVE Inv'
  OBVIOUS
<1>1. MessagesOK /\ troubles \in 0..MaxTroubles
  BY DEF Inv, TypeOK
<1>2. CASE LookForMessages
  <2>1. MessagesOK'
    BY <1>1, <1>2, QueueSteps DEF LookForMessages
  <2> QED
    BY <1>1, <1>2, <2>1, OthersStep DEF LookForMessages
<1>3. CASE BeginGroup
  BY <1>3, GroupBegins
<1>4. CASE InterruptGroups
  BY <1>4, GroupsInterrupted
<1>5. CASE EndGroup
  BY <1>5, GroupEnds
<1>6. ASSUME NEW s \in Subtasks, SubtaskStep(s) PROVE Inv'
  BY <1>6, StepOfOne
<1>7. ASSUME NEW m \in Msgs, QueueOne(m) PROVE Inv'
  <2>1. MessagesOK'
    BY <1>1, <1>7, QueueSteps DEF QueueOne
  <2> QED
    BY <1>1, <1>7, <2>1, OthersStep DEF QueueOne
<1>8. ASSUME NEW m \in Msgs, ExpireOne(m) PROVE Inv'
  <2>1. MessagesOK'
    BY <1>1, <1>8, QueueSteps DEF ExpireOne
  <2> QED
    BY <1>1, <1>8, <2>1, OthersStep DEF ExpireOne
<1>9. CASE Restart
  <2>1. MessagesOK'
    BY <1>1, <1>9, QueueSteps DEF Restart
  <2>2. troubles' \in 0..MaxTroubles
    BY <1>1, <1>9, DispatchAssumption DEF Restart, Trouble
  <2>3. loop \in {"check", "run"} /\ loop' = "lost" /\ UNCHANGED <<planVars, sub, shown>>
    BY <1>9 DEF Restart
  <2>4. TypeOK'
    BY <2>1, <2>2, <2>3 DEF Inv, TypeOK, planVars
  <2>5. GroupsOK'
    BY <2>3 DEF Inv, GroupsOK, planVars
  <2>6. \A s \in Subtasks : SubtaskOK(s)'
    BY <2>3 DEF Inv, SubtaskOK, planVars
  <2> QED
    BY <2>4, <2>5, <2>6 DEF Inv
<1>10. CASE UNCHANGED vars
  <2>1. MessagesOK'
    BY <1>1, <1>10 DEF vars, MessagesOK, msgVars
  <2> QED
    BY <1>1, <1>10, <2>1, OthersStep DEF vars
<1> QED
  BY <1>2, <1>3, <1>4, <1>5, <1>6, <1>7, <1>8, <1>9, <1>10 DEF Next, DispatchStep

LEMMA Invariant == Spec => []Inv
BY InitInv, NextInv, PTL DEF Spec

\* The types of the dispatch and of its messages.
THEOREM TypeCorrect == Spec => []TypeOK
<1>1. Inv => TypeOK
  BY DEF Inv
<1> QED
  BY <1>1, Invariant, PTL

\* A dispatch that is over has one final answer for every subtask of its plan: whatever
\* the plan, circles included, however often the agents fail, and whenever an urgent
\* message comes.
THEOREM AllAnswered == Spec => []EverySubtaskIsAnswered
<1>1. Inv => EverySubtaskIsAnswered
  BY DEF Inv, SubtaskOK, EverySubtaskIsAnswered
<1> QED
  BY <1>1, Invariant, PTL

-----------------------------------------------------------------------------
(* Urgent messages                                                          *)

\* A subtask's own step begins before it is done, and leaves the others alone.
LEMMA OnlyTheUndone ==
    ASSUME TypeOK, NEW s \in Subtasks, SubtaskStep(s)
    PROVE  /\ sub[s].at # "done"
           /\ \A k \in Subtasks \ {s} : sub'[k] = sub[k]
<1>1. sub \in [Subtasks -> Record]
  BY DEF TypeOK
<1>2. ASSUME NEW r, NEW step \in {"prompt", "call", "ran"}, Executes(s, step, r)
      PROVE  /\ sub[s].at # "done"
             /\ \A k \in Subtasks \ {s} : sub'[k] = sub[k]
  BY <1>1, <1>2 DEF Executes
<1>3. CASE Prompt(s)
  BY <1>2, <1>3 DEF Prompt
<1>4. CASE Answers(s)
  BY <1>2, <1>4 DEF Answers
<1>5. CASE FallsBack(s)
  BY <1>2, <1>5 DEF FallsBack
<1>6. CASE Throws(s)
  BY <1>2, <1>6 DEF Throws
<1>7. CASE Keep(s)
  BY <1>2, <1>7 DEF Keep, Judges
<1>8. CASE TryAgain(s)
  BY <1>2, <1>8 DEF TryAgain, Judges
<1>9. CASE GiveUp(s)
  BY <1>2, <1>9 DEF GiveUp, Judges
<1>10. CASE Attempt(s)
  BY <1>1, <1>10 DEF Attempt
<1>11. CASE InterruptSubtask(s)
  BY <1>1, <1>11 DEF InterruptSubtask
<1> QED
  BY <1>3, <1>4, <1>5, <1>6, <1>7, <1>8, <1>9, <1>10, <1>11 DEF SubtaskStep

\* No step of the dispatch goes on with a subtask that an urgent message has stopped,
\* nor takes its answer back.
THEOREM StoppedStays == Spec => InterruptStops
<1>1. ASSUME Inv, [Next]_vars, NEW s \in Subtasks, sub[s].stopped
      PROVE  sub'[s] = sub[s]
  <2>1. /\ sub[s].at = "done"
        /\ s \notin routed \cup group /\ loop # "done" => sub[s] = NotBegun
    BY <1>1 DEF Inv, SubtaskOK
  <2>2. loop = "check" => s \in routed
    <3>1. NotBegun.at # "done"
      BY DEF NotBegun
    <3>2. loop = "check" => group = {}
      BY <1>1 DEF Inv, GroupsOK
    <3> QED
      BY <2>1, <3>1, <3>2
  <2>3. CASE BeginGroup
    <3>1. s \in routed /\ routed \subseteq Subtasks
      BY <1>1, <2>2, <2>3 DEF BeginGroup, Inv, TypeOK
    <3>2. s \notin NextGroup
      BY <3>1, NextGroupFacts
    <3> QED
      BY <2>3, <3>2 DEF BeginGroup
  <2>4. CASE InterruptGroups
    BY <2>2, <2>4 DEF InterruptGroups
  <2>5. CASE \E k \in Subtasks : SubtaskStep(k)
    <3>1. PICK k \in Subtasks : SubtaskStep(k)
      BY <2>5
    <3>2. TypeOK
      BY <1>1 DEF Inv
    <3>3. sub[k].at # "done" /\ \A o \in Subtasks \ {k} : sub'[o] = sub[o]
      BY <3>1, <3>2, OnlyTheUndone
    <3> QED
      BY <2>1, <3>3
  <2>6. CASE UNCHANGED sub
    BY <2>6
  <2> QED
    BY <1>1, <2>3, <2>4, <2>5, <2>6
    DEF Next, DispatchStep, LookForMessages, EndGroup, QueueOne, ExpireOne, Restart,
        vars, dispatchVars
<1>2. Inv /\ [Next]_vars => [\A s \in Subtasks : sub[s].stopped => sub'[s] = sub[s]]_vars
  BY <1>1
<1> QED
  BY <1>2, Invariant, PTL DEF Spec, InterruptStops

-----------------------------------------------------------------------------
(* Dependencies                                                             *)

\* What the groups so far depend on is in groups before them.
InOrder == Sound => \A s \in group \cup routed : needs[s] \subseteq routed

LEMMA InOrderKept == Inv /\ InOrder /\ [Next]_vars => InOrder'
<1> SUFFICES ASSUME Inv, InOrder, [Next]_vars, Sound' PROVE InOrder'
  BY DEF InOrder
<1>1. needs' = needs /\ Sound
  <2>1. ASSUME NEW s \in Subtasks, SubtaskStep(s) PROVE needs' = needs
    BY <2>1 DEF SubtaskStep, Prompt, Answers, FallsBack, Throws, Keep, TryAgain, GiveUp,
                Judges, Executes, Attempt, InterruptSubtask, planVars
  <2>2. needs' = needs
    BY <2>1 DEF Next, DispatchStep, LookForMessages, BeginGroup, InterruptGroups, EndGroup,
                QueueOne, ExpireOne, Restart, vars, dispatchVars, planVars
  <2> QED
    BY <2>2 DEF Sound
<1>2. CASE BeginGroup
  <2>1. routed \subseteq Subtasks /\ routed # Subtasks
    BY <1>2 DEF Inv, TypeOK, GroupsOK, BeginGroup
  <2>2. PICK s \in Subtasks \ routed : needs[s] \subseteq Subtasks \ (Subtasks \ routed)
    BY <1>1, <2>1 DEF Sound
  <2>3. needs[s] \subseteq routed
    BY <2>2
  <2>4. \A k \in NextGroup : needs[k] \subseteq routed
    BY <2>2, <2>3 DEF NextGroup, GroupAfter
  <2> QED
    BY <1>1, <1>2, <2>4 DEF BeginGroup, InOrder
<1>3. CASE EndGroup
  BY <1>1, <1>3 DEF EndGroup, InOrder
<1>4. CASE UNCHANGED planVars
  BY <1>1, <1>4 DEF InOrder, planVars
<1>5. ASSUME NEW s \in Subtasks, SubtaskStep(s) PROVE UNCHANGED planVars
  BY <1>5 DEF SubtaskStep, Prompt, Answers, FallsBack, Throws, Keep, TryAgain, GiveUp,
              Judges, Executes, Attempt, InterruptSubtask
<1> QED
  BY <1>2, <1>3, <1>4, <1>5
  DEF Next, DispatchStep, LookForMessages, InterruptGroups, QueueOne, ExpireOne, Restart,
      vars, dispatchVars

\* With dependencies that are no circle, no agent is called for a subtask before all it
\* depends on has its answer: what has begun is of a group, and the groups before are done.
THEOREM DependenciesAnswered == Spec => []DependenciesFirst
<1>1. Init => InOrder
  BY DEF Init, InOrder
<1>2. Inv /\ InOrder => DependenciesFirst
  <2> SUFFICES ASSUME Inv, InOrder, Sound, NEW s \in Subtasks, Begun(s),
                      NEW d \in needs[s]
               PROVE  sub[d].at = "done"
    BY DEF DependenciesFirst
  <2>1. d \in Subtasks
    <3>1. PICK k \in {s} : needs[k] \subseteq Subtasks \ {s}
      BY DEF Sound
    <3> QED
      BY <3>1
  <2>2. CASE loop = "done"
    BY <2>1, <2>2 DEF Inv, SubtaskOK
  <2>3. CASE loop # "done"
    <3>1. NotBegun.at = "waiting"
      BY DEF NotBegun
    <3>2. s \in group \cup routed
      BY <2>3, <3>1 DEF Inv, SubtaskOK, Begun
    <3>3. d \in routed
      BY <3>2 DEF InOrder
    <3> QED
      BY <2>1, <3>3 DEF Inv, SubtaskOK
  <2> QED
    BY <2>2, <2>3
<1> QED
  BY <1>1, <1>2, Invariant, InOrderKept, PTL DEF Spec

-----------------------------------------------------------------------------
(* Consumed messages                                                        *)

\* Where a consumed message may be.
Handled(m) ==
    \/ m \in shown
    \/ taker[Loop].step = "return" /\ m \in taker[Loop].found
    \/ \E s \in group : sub[s].at = "prompt" /\ m \in sub[s].context

\* Without trouble, messages that are taken are those found, and none is consumed anew.
LEMMA TakenIsFound ==
    ASSUME MessagesOK, troubles \in Nat, troubles' = 0, NEW found, Taken(found)
    PROVE  /\ msg' = msg
           /\ taker[Loop].step = "return" => found = taker[Loop].found
<1>1. ~Trouble
  BY DEF Trouble
<1> QED
  BY <1>1 DEF Taken, Return, TakeFails, msgVars

\* A subtask's step that takes no messages.
LEMMA StepKeepsHandled ==
    ASSUME TypeOK, NEW s \in Subtasks, NEW r, NEW step,
           Executes(s, step, r),
           \/ step # "prompt" /\ UNCHANGED shown
           \/ shown' = shown \cup sub[s].context,
           NEW m \in Msgs, Handled(m)
    PROVE  Handled(m)' /\ UNCHANGED <<msg, troubles>>
<1>1. sub \in [Subtasks -> Record] /\ group \subseteq Subtasks
  BY DEF TypeOK
<1>2. /\ s \in group /\ sub[s].at = step /\ sub' = [sub EXCEPT ![s] = r]
      /\ group' = group /\ taker' = taker /\ UNCHANGED <<msg, troubles>>
  BY DEF Executes, planVars, msgVars
<1>3. shown \subseteq shown'
  OBVIOUS
<1>4. ASSUME NEW o \in group, sub[o].at = "prompt", m \in sub[o].context
      PROVE  m \in shown' \/ (sub'[o].at = "prompt" /\ m \in sub'[o].context)
  <2>1. CASE o = s
    BY <1>2, <1>4, <2>1
  <2>2. CASE o # s
    <3>1. sub'[o] = sub[o]
      BY <1>1, <1>2, <2>2
    <3> QED
      BY <1>4, <3>1
  <2> QED
    BY <2>1, <2>2
<1> QED
  BY <1>2, <1>3, <1>4 DEF Handled

LEMMA HandledKept ==
    ASSUME Inv, ConsumedIsShown, [Next]_vars
    PROVE  ConsumedIsShown'
<1> SUFFICES ASSUME troubles' = 0, NEW m \in Msgs, msg'[m] = "consumed"
             PROVE  Handled(m)'
  BY DEF ConsumedIsShown, Handled
<1> USE DEF Handled
<1>1. /\ MessagesOK /\ troubles \in Nat
      /\ sub \in [Subtasks -> Record] /\ group \subseteq Subtasks
  BY DispatchAssumption DEF Inv, TypeOK
<1>2. ~Trouble
  BY <1>1 DEF Trouble
<1>3. troubles = 0 /\ msg[m] = "consumed" => Handled(m)
  BY DEF ConsumedIsShown
<1>4. CASE LookForMessages
  <2>1. UNCHANGED <<dispatchVars, troubles>>
    BY <1>4 DEF LookForMessages
  <2>2. UNCHANGED <<shown, sub, group>> /\ troubles = 0
    BY <2>1 DEF dispatchVars, planVars
  <2>3. CASE Find(Loop)
    <3>1. msg' = msg /\ taker[Loop].step = "find"
      BY <2>3 DEF Find
    <3> QED
      BY <1>3, <2>2, <3>1
  <2>4. CASE Mark(Loop)
    <3>1. /\ taker[Loop].step = "mark" /\ msg' = Consumed(taker[Loop].found)
          /\ taker' = [taker EXCEPT ![Loop].step = "return"]
      BY <2>4 DEF Mark
    <3>2. taker'[Loop].step = "return" /\ taker'[Loop].found = taker[Loop].found
      BY <1>1, <3>1, LoopTakes DEF MessagesOK
    <3>3. CASE m \in taker[Loop].found
      BY <3>2, <3>3
    <3>4. CASE m \notin taker[Loop].found
      <4>1. msg[m] = "consumed"
        BY <3>1, <3>4 DEF Consumed
      <4> QED
        BY <1>3, <2>2, <3>1, <4>1
    <3> QED
      BY <3>3, <3>4
  <2> QED
    BY <1>4, <2>3, <2>4 DEF LookForMessages
<1>5. CASE BeginGroup
  <2>1. PICK found \in SUBSET Msgs :
            /\ Taken(found)
            /\ sub' = [s \in Subtasks |-> IF s \in NextGroup
                                          THEN [sub[s] EXCEPT !.at = "prompt", !.context = found]
                                          ELSE sub[s]]
    BY <1>5 DEF BeginGroup
  <2>2. loop = "check" /\ group' = NextGroup /\ shown' = shown
    BY <1>5 DEF BeginGroup
  <2>3. msg' = msg /\ (taker[Loop].step = "return" => found = taker[Loop].found)
    BY <1>1, <2>1, TakenIsFound
  <2>4. group = {} /\ NextGroup # {} /\ NextGroup \subseteq Subtasks
    BY <2>2, NextGroupFacts DEF Inv, TypeOK, GroupsOK
  <2>5. troubles = 0
    BY <1>2, <2>1 DEF Taken
  <2>6. m \in shown \/ m \in found
    BY <1>3, <2>3, <2>4, <2>5
  <2>7. PICK s \in NextGroup : TRUE
    BY <2>4
  <2>8. sub'[s].at = "prompt" /\ sub'[s].context = found
    <3>1. s \in Subtasks /\ sub[s] \in Record
      BY <1>1, <2>4, <2>7
    <3>2. sub'[s] = [sub[s] EXCEPT !.at = "prompt", !.context = found]
      BY <2>1, <2>7, <3>1
    <3> QED
      BY <3>1, <3>2 DEF Record
  <2> QED
    BY <2>2, <2>6, <2>7, <2>8
<1>6. CASE InterruptGroups
  <2>1. PICK found \in SUBSET Msgs : Taken(found) /\ shown' = shown \cup found
    BY <1>6 DEF InterruptGroups
  <2>2. msg' = msg /\ (taker[Loop].step = "return" => found = taker[Loop].found)
    BY <1>1, <2>1, TakenIsFound
  <2>3. group = {}
    BY <1>6 DEF InterruptGroups, Inv, GroupsOK
  <2>4. troubles = 0
    BY <1>2, <2>1 DEF Taken
  <2> QED
    BY <1>3, <2>1, <2>2, <2>3, <2>4
<1>7. CASE EndGroup
  BY <1>3, <1>7 DEF EndGroup, msgVars
<1>8. ASSUME NEW s \in Subtasks, SubtaskStep(s) PROVE Handled(m)'
  <2>1. ASSUME NEW r, NEW step, Executes(s, step, r),
               \/ step # "prompt" /\ UNCHANGED shown
               \/ shown' = shown \cup sub[s].context
        PROVE  Handled(m)'
    <3>1. troubles = 0 /\ msg' = msg
      BY <2>1 DEF Executes, msgVars
    <3>2. Handled(m) /\ TypeOK
      BY <1>3, <3>1 DEF Inv
    <3> HIDE DEF Handled
    <3> QED
      BY <2>1, <3>2, StepKeepsHandled
  <2> HIDE DEF Handled
  <2>2. CASE Prompt(s)
    BY <2>1, <2>2 DEF Prompt
  <2>3. CASE Answers(s) \/ FallsBack(s) \/ Throws(s)
    BY <2>1, <2>3 DEF Answers, FallsBack, Throws
  <2>4. CASE Keep(s) \/ TryAgain(s) \/ GiveUp(s)
    BY <2>1, <2>4 DEF Keep, TryAgain, GiveUp, Judges
  <2>5. ASSUME NEW found \in SUBSET Msgs, Taken(found), s \in group, sub[s].at = "take",
               group' = group, NEW r, sub' = [sub EXCEPT ![s] = r],
               \/ r.at = "prompt" /\ r.context = found /\ shown' = shown
               \/ shown' = shown \cup found
        PROVE  Handled(m)'
    <3>1. msg' = msg /\ (taker[Loop].step = "return" => found = taker[Loop].found)
      BY <1>1, <2>5, TakenIsFound
    <3>2. troubles = 0
      BY <1>2, <2>5 DEF Taken
    <3>3. sub'[s] = r /\ \A o \in group \ {s} : sub'[o] = sub[o]
      BY <1>1, <2>5
    <3>4. Handled(m)
      BY <1>3, <3>1, <3>2
    <3>5. \/ m \in shown \/ m \in found
          \/ \E o \in group \ {s} : sub'[o].at = "prompt" /\ m \in sub'[o].context
      BY <2>5, <3>1, <3>3, <3>4 DEF Handled
    <3> QED
      BY <2>5, <3>3, <3>5 DEF Handled
  <2>6. CASE Attempt(s)
    <3>1. PICK found \in SUBSET Msgs :
              /\ Taken(found)
              /\ sub' = [sub EXCEPT ![s] = [@ EXCEPT !.at = "prompt", !.fell = FALSE,
                                                     !.context = found]]
      BY <2>6 DEF Attempt
    <3> DEFINE r == [sub[s] EXCEPT !.at = "prompt", !.fell = FALSE, !.context = found]
    <3>2. sub' = [sub EXCEPT ![s] = r]
      BY <1>1, <3>1
    <3>3. r.at = "prompt" /\ r.context = found
      BY <1>1 DEF Record
    <3>4. s \in group /\ sub[s].at = "take" /\ group' = group /\ shown' = shown
      BY <2>6 DEF Attempt, planVars
    <3> HIDE DEF r
    <3> QED
      BY <2>5, <3>1, <3>2, <3>3, <3>4
  <2>7. CASE InterruptSubtask(s)
    <3>1. PICK found \in SUBSET Msgs :
              /\ Taken(found)
              /\ sub' = [sub EXCEPT ![s] = Interrupted(@)]
              /\ shown' = shown \cup found
      BY <2>7 DEF InterruptSubtask
    <3>2. sub' = [sub EXCEPT ![s] = Interrupted(sub[s])]
      BY <1>1, <3>1
    <3>3. s \in group /\ sub[s].at = "take" /\ group' = group
      BY <2>7 DEF InterruptSubtask, planVars
    <3> QED
      BY <2>5, <3>1, <3>2, <3>3
  <2> QED
    BY <1>8, <2>2, <2>3, <2>4, <2>6, <2>7 DEF SubtaskStep
<1>9. ASSUME NEW k \in Msgs, QueueOne(k) \/ ExpireOne(k) PROVE Handled(m)'
  <2>1. /\ msg[m] = "consumed" /\ UNCHANGED taker
        /\ UNCHANGED <<dispatchVars, troubles>>
    BY <1>1, <1>9 DEF QueueOne, ExpireOne, Queue, ExpireMessage, MessagesOK
  <2> QED
    BY <1>3, <2>1 DEF dispatchVars, planVars
<1>10. CASE Restart
  BY <1>2, <1>10 DEF Restart
<1>11. CASE UNCHANGED vars
  BY <1>3, <1>11 DEF vars, dispatchVars, planVars, msgVars
<1> QED
  BY <1>4, <1>5, <1>6, <1>7, <1>8, <1>9, <1>10, <1>11 DEF Next, DispatchStep

\* Unless the server goes or the database fails, no message the dispatch has consumed is
\* lost: it is on its way, or in the prompt of an agent or in a result.
THEOREM NoMessageLost == Spec => []ConsumedIsShown
<1>1. Init => ConsumedIsShown
  BY DEF Init, InitMessages, ConsumedIsShown
<1> QED
  BY <1>1, Invariant, HandledKept, PTL DEF Spec

-----------------------------------------------------------------------------
(* The models                                                               *)

\* The routing and the models only restrict what the dispatch does.
LEMMA RoutingRestricts == [RoutedNext]_routedVars => [Next]_vars
<1> SUFFICES ASSUME [RoutedNext]_routedVars PROVE [Next]_vars
  OBVIOUS
<1>1. CASE TakeSnapshot \/ RouteThrows \/ VerifyPlan
  BY <1>1 DEF TakeSnapshot, RouteThrows, VerifyPlan
<1>2. ASSUME NEW s \in Subtasks, Route(s) PROVE [Next]_vars
  BY <1>2 DEF Route
<1>3. CASE GroupStep
  BY <1>3 DEF GroupStep, Next, DispatchStep
<1>4. ASSUME NEW s \in Subtasks, RoutedSubtaskStep(s) PROVE [Next]_vars
  <2>1. SubtaskStep(s)
    BY <1>4 DEF RoutedSubtaskStep, SubtaskStep, Quiet, AnswersWith, ThrowsWith, FallsBackTo,
                TriesAgainWith, GivesUpOn
  <2> QED
    BY <2>1 DEF Next, DispatchStep
<1>5. CASE RestartAll
  BY <1>5 DEF RestartAll, Next
<1>6. ASSUME NEW m \in Msgs, MessageStep(m) PROVE [Next]_vars
  BY <1>6 DEF MessageStep, Next
<1>7. CASE \/ \E m \in Models : OtherCall(m)
           \/ VerifyAll \/ NewDay
  BY <1>7 DEF OtherCall, VerifyAll, NewDay
<1>8. CASE UNCHANGED routedVars
  BY <1>8 DEF routedVars
<1> QED
  BY <1>1, <1>2, <1>3, <1>4, <1>5, <1>6, <1>7, <1>8 DEF RoutedNext, RoutedStep

\* The dispatch with its models implements the dispatch that leaves them open, so all that
\* is proved of Spec holds of it.
THEOREM RoutedImplements == RoutedSpec => Spec
<1>1. RoutedInit => Init
  BY DEF RoutedInit
<1> QED
  BY <1>1, RoutingRestricts, PTL DEF RoutedSpec, Spec

\* What is known of a setting, and of a model.
LEMMA SettingFacts ==
    ASSUME setting \in Settings
    PROVE  /\ setting.needs \in Plans /\ setting.gpu \in BOOLEAN
           /\ setting.free \subseteq Nat /\ setting.start \subseteq Models
           /\ setting.flaky \subseteq Models /\ setting.others \in Nat
BY RoutedAssumption DEF Setting

LEMMA ModelFacts ==
    /\ NoModel \notin Models
    /\ \A m \in Models :
        /\ m \in Nat
        /\ Registry[m].tier \in Nat /\ Registry[m].vramMb \in Nat
        /\ Local(m) <=> Registry[m].tier <= 3
<1>1. Models = 1..Len(Registry) /\ Len(Registry) \in Nat /\ Registry \in [Models -> ModelCapability]
  BY RouterAssumption DEF Models
<1>2. ASSUME NEW m \in Models PROVE Registry[m] \in ModelCapability
  BY <1>1
<1>3. ASSUME NEW m \in Models
      PROVE  Registry[m].tier \in Nat /\ Registry[m].vramMb \in Nat
  BY <1>2 DEF ModelCapability, Tiers
<1>4. ASSUME NEW m \in Models PROVE Local(m) <=> Registry[m].tier <= 3
  BY RouterAssumption DEF Models, LocalHeavy, Local
<1> QED
  BY <1>1, <1>3, <1>4 DEF NoModel

\* Every snapshot is one of the card there is.
LEMMA SnapshotFacts ==
    ASSUME setting \in Settings, NEW now \in Snapshots
    PROVE  now \in Snapshot /\ (~setting.gpu => ~now.gpuAvailable)
<1>1. NoCard \in Snapshot /\ ~NoCard.gpuAvailable
  BY DEF NoCard, Snapshot
<1>2. CASE now = NoCard
  BY <1>1, <1>2
<1>3. CASE now # NoCard
  <2>1. PICK mb \in IF setting.gpu THEN setting.free ELSE {} :
            now = [gpuAvailable |-> TRUE, availableForModelsMb |-> mb]
    BY <1>3 DEF Snapshots
  <2>2. setting.gpu /\ mb \in Nat
    BY SettingFacts
  <2> QED
    BY <2>1, <2>2 DEF Snapshot
<1> QED
  BY <1>2, <1>3

\* What a call comes to keeps the types of the circuits and of the budget.
LEMMA CircuitSteps ==
    ASSUME RoutingOK
    PROVE  /\ \A S \in SUBSET Models : Forgive(S) \in [Models -> 0..Threshold]
           /\ \A m \in Models :
                Succeeds(m) \/ Fails(m) =>
                    /\ failures' \in [Models -> 0..Threshold]
                    /\ open' \subseteq Models
                    /\ requests' \in 0..DailyLimit
<1>1. Threshold \in Nat \ {0} /\ DailyLimit \in Nat
  BY RoutedAssumption, RouterAssumption
<1>2. \A S \in SUBSET Models : Forgive(S) \in [Models -> 0..Threshold]
  BY <1>1 DEF Forgive, RoutingOK
<1>3. ASSUME NEW m \in Models, Succeeds(m)
      PROVE  /\ failures' \in [Models -> 0..Threshold]
             /\ open' \subseteq Models
             /\ requests' \in 0..DailyLimit
  BY <1>1, <1>2, <1>3 DEF Succeeds, RoutingOK
<1>4. ASSUME NEW m \in Models, Fails(m)
      PROVE  /\ failures' \in [Models -> 0..Threshold]
             /\ open' \subseteq Models
             /\ requests' \in 0..DailyLimit
  <2>1. failures[m] \in 0..Threshold
    BY DEF RoutingOK
  <2> QED
    BY <1>1, <1>4, <2>1 DEF Fails, RoutingOK
<1> QED
  BY <1>2, <1>3, <1>4

ModelsOK ==
    /\ available \subseteq Models
    /\ failures \in [Models -> 0..Threshold]
    /\ open \subseteq Models
    /\ requests \in 0..DailyLimit
    /\ others \in Nat

\* The snapshot is of the card there is, the groups behind have their models when the
\* dispatch begins, and without a card none of them is local.
RoutedInv ==
    /\ RoutingOK
    /\ ~setting.gpu => ~card.gpuAvailable
    /\ \A s \in Subtasks : given[s] # NoModel => model[s] # NoModel
    /\ \A s \in behind : given[s] # NoModel
    /\ phase \in {"verify", "go"} => behind = Subtasks
    /\ NoLocalWithoutGpu

LEMMA RoutedInitInv == RoutedInit => RoutedInv
<1> SUFFICES ASSUME RoutedInit PROVE RoutedInv
  OBVIOUS
<1>1. Threshold \in Nat /\ DailyLimit \in Nat /\ setting.start \subseteq Models
  BY RoutedAssumption, RouterAssumption, SettingFacts DEF RoutedInit
<1>2. card \in Snapshot /\ ~card.gpuAvailable
  BY DEF RoutedInit, NoCard, Snapshot
<1>3. RoutingOK
  BY <1>1, <1>2 DEF RoutedInit, RoutingOK
<1> QED
  BY <1>2, <1>3 DEF RoutedInit, RoutedInv, NoLocalWithoutGpu

\* What leaves the routing alone, and
LEMMA RoutingStays ==
    ASSUME RoutedInv, UNCHANGED routeVars, ModelsOK'
    PROVE  RoutedInv'
BY DEF RoutedInv, RoutingOK, ModelsOK, NoLocalWithoutGpu, routeVars

\* what puts a subtask to another model.
LEMMA AnotherModel ==
    ASSUME RoutedInv, NEW s \in Subtasks, NEW m \in Models,
           ~setting.gpu => ~Local(m), model' = [model EXCEPT ![s] = m],
           UNCHANGED <<setting, phase, card, given, reserved, behind>>, ModelsOK'
    PROVE  RoutedInv'
<1>1. m # NoModel
  BY ModelFacts
<1>2. RoutingOK'
  BY DEF RoutedInv, RoutingOK, ModelsOK
<1>3. NoLocalWithoutGpu'
  BY <1>1 DEF RoutedInv, RoutingOK, NoLocalWithoutGpu
<1>4. \A t \in Subtasks : given'[t] # NoModel => model'[t] # NoModel
  BY <1>1 DEF RoutedInv, RoutingOK
<1> QED
  BY <1>2, <1>3, <1>4 DEF RoutedInv

\* The router takes no local model where there is no card.
LEMMA SelectionFacts ==
    ASSUME RoutedInv, NEW s \in Subtasks, NEW stillOpen, NEW m \in Models,
           Selects(m, CanUse(s, stillOpen), available)
    PROVE  Local(m) => /\ card.gpuAvailable
                       /\ canFit(m, reserved, card)
<1>1. CASE m \in CanUse(s, stillOpen)
  BY <1>1 DEF CanUse, Usable, Considered
<1>2. CASE m \notin CanUse(s, stillOpen)
  <2>1. m \in Cloud(available)
    BY <1>2 DEF Selects, IsFirst
  <2> QED
    BY <2>1 DEF Cloud
<1> QED
  BY <1>1, <1>2

LEMMA RouteKeeps ==
    ASSUME RoutedInv, NEW s \in Subtasks, Route(s)
    PROVE  RoutedInv'
<1>1. PICK cooled \in SUBSET (open \cap Considered(Needed[s], card, available)) :
           \E m \in Models :
              /\ Selects(m, CanUse(s, open \ cooled), available)
              /\ given' = [given EXCEPT ![s] = m]
              /\ model' = [model EXCEPT ![s] = m]
              /\ reserved' = IF Completes(s) THEN 0 ELSE Allocated(m)
              /\ failures' = Forgive(cooled)
              /\ open' = open \ cooled
  BY DEF Route
<1>2. PICK m \in Models :
              /\ Selects(m, CanUse(s, open \ cooled), available)
              /\ given' = [given EXCEPT ![s] = m]
              /\ model' = [model EXCEPT ![s] = m]
              /\ reserved' = IF Completes(s) THEN 0 ELSE Allocated(m)
              /\ failures' = Forgive(cooled)
              /\ open' = open \ cooled
  BY <1>1
<1>3. /\ behind' = IF Completes(s) THEN behind \cup RoutingGroup ELSE behind
      /\ phase' = IF behind' = Subtasks THEN "verify" ELSE phase
      /\ phase = "route"
      /\ UNCHANGED <<setting, card, available, requests, others>>
  BY DEF Route
<1>4. m # NoModel /\ (~setting.gpu => ~Local(m))
  BY <1>2, ModelFacts, SelectionFacts DEF RoutedInv
<1>5. given \in [Subtasks -> Models \cup {NoModel}] /\ model \in [Subtasks -> Models \cup {NoModel}]
  BY DEF RoutedInv, RoutingOK
<1>6. RoutingGroup \subseteq Subtasks
  BY DEF RoutingGroup, GroupAfter
<1>7. RoutingOK'
  <2>1. reserved' \in Nat
    BY <1>2, ModelFacts DEF RoutedInv, RoutingOK, Allocated
  <2>2. failures' \in [Models -> 0..Threshold] /\ open' \subseteq Models
    <3>1. cooled \in SUBSET Models
      BY DEF RoutedInv, RoutingOK
    <3> QED
      BY <1>2, <3>1, CircuitSteps DEF RoutedInv, RoutingOK
  <2>3. given' \in [Subtasks -> Models \cup {NoModel}] /\ model' \in [Subtasks -> Models \cup {NoModel}]
    BY <1>2, <1>5
  <2>4. behind' \subseteq Subtasks
    BY <1>3, <1>6 DEF RoutedInv, RoutingOK
  <2> QED
    BY <1>3, <2>1, <2>2, <2>3, <2>4 DEF RoutedInv, RoutingOK
<1>8. \A t \in behind' : given'[t] # NoModel
  <2>1. \A t \in behind : given'[t] # NoModel
    BY <1>2, <1>4, <1>5 DEF RoutedInv, RoutingOK
  <2>2. ASSUME Completes(s), NEW t \in RoutingGroup PROVE given'[t] # NoModel
    BY <1>2, <1>4, <1>5, <1>6, <2>2 DEF Completes, Routed
  <2> QED
    BY <1>3, <2>1, <2>2
<1>9. \A t \in Subtasks : given'[t] # NoModel => model'[t] # NoModel
  BY <1>2, <1>4, <1>5 DEF RoutedInv
<1>10. NoLocalWithoutGpu'
  BY <1>2, <1>3, <1>4, <1>5 DEF RoutedInv, NoLocalWithoutGpu
<1> QED
  BY <1>3, <1>7, <1>8, <1>9, <1>10 DEF RoutedInv

\* Where the models change, if at all, and the routing does not.
LEMMA ModelsKept ==
    ASSUME RoutedInv
    PROVE  /\ UNCHANGED modelVars => ModelsOK'
           /\ \A m \in Models :
                UNCHANGED <<available, others>> /\ (Succeeds(m) \/ Fails(m)) => ModelsOK'
BY CircuitSteps DEF RoutedInv, RoutingOK, ModelsOK, modelVars

\* In the dispatch every subtask has a model; another is local only if there is a card.
LEMMA SubtaskKeeps ==
    ASSUME RoutedInv, phase = "go", NEW s \in Subtasks, RoutedSubtaskStep(s)
    PROVE  RoutedInv'
<1>1. model[s] \in Models
  BY DEF RoutedInv, RoutingOK
<1>2. ~setting.gpu => ~Local(model[s])
  BY <1>1, ModelFacts DEF RoutedInv, NoLocalWithoutGpu
<1>3. CASE Quiet(s) \/ GivesUpOn(s)
  BY <1>3, ModelsKept, RoutingStays DEF Quiet, GivesUpOn
<1>4. CASE AnswersWith(s) \/ ThrowsWith(s)
  BY <1>1, <1>4, ModelsKept, RoutingStays DEF AnswersWith, ThrowsWith
<1>5. CASE FallsBackTo(s)
  <2>1. PICK now \in Snapshots : \E m \in Models :
            /\ IsFirst(m, Fallbacks(model[s], available, now))
            /\ model' = [model EXCEPT ![s] = m]
    BY <1>5 DEF FallsBackTo
  <2>2. PICK m \in Models : /\ m \in Fallbacks(model[s], available, now)
                            /\ model' = [model EXCEPT ![s] = m]
    BY <2>1 DEF IsFirst
  <2>3. ~setting.gpu => ~Local(m)
    <3>1. ~setting.gpu => ~now.gpuAvailable
      BY SnapshotFacts DEF RoutedInv, RoutingOK
    <3> QED
      BY <1>2, <2>2, <3>1 DEF Fallbacks
  <2>4. ModelsOK'
    BY <1>1, <1>5, ModelsKept DEF FallsBackTo
  <2> QED
    BY <1>5, <2>2, <2>3, <2>4, AnotherModel DEF FallsBackTo
<1>6. CASE TriesAgainWith(s)
  <2>1. ModelsOK' /\ UNCHANGED <<setting, phase, card, given, reserved, behind>>
    BY <1>6, ModelsKept DEF TriesAgainWith
  <2>2. CASE model' = model
    BY <2>1, <2>2, RoutingStays DEF routeVars
  <2>3. CASE model' # model
    <3>1. PICK m \in Models : /\ m \in Stronger(model[s], Needed[s], available)
                              /\ model' = [model EXCEPT ![s] = m]
      BY <1>6, <2>3 DEF TriesAgainWith, Escalates
    <3>2. Registry[m].tier > Registry[model[s]].tier
      BY <3>1 DEF Stronger
    <3>3. Local(m) => Local(model[s])
      BY <1>1, <3>2, ModelFacts
    <3> QED
      BY <1>2, <2>1, <3>1, <3>3, AnotherModel
  <2> QED
    BY <2>2, <2>3
<1> QED
  BY <1>3, <1>4, <1>5, <1>6 DEF RoutedSubtaskStep

LEMMA RoutedNextInv == RoutedInv /\ [RoutedNext]_routedVars => RoutedInv'
<1> SUFFICES ASSUME RoutedInv, [RoutedNext]_routedVars PROVE RoutedInv'
  OBVIOUS
<1>1. CASE TakeSnapshot
  <2>1. card' \in Snapshot /\ (~setting.gpu => ~card'.gpuAvailable)
    BY <1>1, SnapshotFacts DEF TakeSnapshot, RoutedInv, RoutingOK
  <2> QED
    BY <1>1, <2>1 DEF TakeSnapshot, modelVars, RoutedInv, RoutingOK, NoLocalWithoutGpu
<1>2. CASE RouteThrows
  <2>1. PICK s \in RoutingGroup \ Routed :
          \E cooled \in SUBSET (open \cap Considered(Needed[s], card, available)) :
            /\ CanUse(s, open \ cooled) = {}
            /\ failures' = Forgive(cooled)
            /\ open' = open \ cooled
    BY <1>2 DEF RouteThrows
  <2>2. PICK cooled \in SUBSET Models : failures' = Forgive(cooled) /\ open' = open \ cooled
    BY <2>1 DEF RoutedInv, RoutingOK
  <2>3. failures' \in [Models -> 0..Threshold] /\ open' \subseteq Models
    BY <2>2, CircuitSteps DEF RoutedInv, RoutingOK
  <2> QED
    BY <1>2, <2>3 DEF RouteThrows, RoutedInv, RoutingOK, NoLocalWithoutGpu
<1>3. CASE VerifyPlan
  <2>1. available' \subseteq Models
    BY <1>3, SettingFacts DEF Checked, VerifyPlan, RoutedInv, RoutingOK
  <2> QED
    BY <1>3, <2>1 DEF VerifyPlan, RoutedInv, RoutingOK, NoLocalWithoutGpu
<1>4. ASSUME NEW s \in Subtasks, Route(s) PROVE RoutedInv'
  BY <1>4, RouteKeeps
<1>5. CASE GroupStep
  BY <1>5, ModelsKept, RoutingStays DEF GroupStep
<1>6. ASSUME phase = "go", NEW s \in Subtasks, RoutedSubtaskStep(s) PROVE RoutedInv'
  BY <1>6, SubtaskKeeps
<1>7. CASE RestartAll
  <2>1. Models \in SUBSET Models
    OBVIOUS
  <2>2. failures' \in [Models -> 0..Threshold]
    BY <1>7, <2>1, CircuitSteps DEF RestartAll, RoutedInv
  <2>3. DailyLimit \in Nat
    BY RouterAssumption
  <2> QED
    BY <1>7, <2>2, <2>3, RoutingStays DEF RestartAll, ModelsOK, RoutedInv, RoutingOK
<1>8. ASSUME NEW m \in Msgs, MessageStep(m) PROVE RoutedInv'
  BY <1>8, ModelsKept, RoutingStays DEF MessageStep
<1>9. ASSUME NEW m \in Models, OtherCall(m) PROVE RoutedInv'
  <2>1. others' \in Nat
    BY <1>9 DEF OtherCall, Others, RoutedInv, RoutingOK
  <2> QED
    BY <1>9, <2>1, CircuitSteps, RoutingStays DEF OtherCall, ModelsOK, RoutedInv, RoutingOK
<1>10. CASE VerifyAll
  <2>1. others' \in Nat /\ available' \subseteq Models
    BY <1>10, SettingFacts DEF Checked, VerifyAll, Others, RoutedInv, RoutingOK
  <2> QED
    BY <1>10, <2>1, RoutingStays DEF VerifyAll, ModelsOK, RoutedInv, RoutingOK
<1>11. CASE NewDay
  BY <1>11, RouterAssumption, RoutingStays DEF NewDay, ModelsOK, RoutedInv, RoutingOK
<1>12. CASE UNCHANGED routedVars
  BY <1>12, ModelsKept, RoutingStays DEF routedVars
<1> QED
  BY <1>1, <1>2, <1>3, <1>4, <1>5, <1>6, <1>7, <1>8, <1>9, <1>10, <1>11, <1>12
     DEF RoutedNext, RoutedStep

LEMMA RoutedInvariant == RoutedSpec => []RoutedInv
BY RoutedInitInv, RoutedNextInv, PTL DEF RoutedSpec

\* Without a card no subtask gets to a local model: whatever the registry, the plan and the
\* agents' failures, and whatever becomes of the flags and the circuits meanwhile.
THEOREM NeverLocalWithoutGpu == RoutedSpec => []NoLocalWithoutGpu
<1>1. RoutedInv => NoLocalWithoutGpu
  BY DEF RoutedInv
<1> QED
  BY <1>1, RoutedInvariant, PTL

-----------------------------------------------------------------------------
(* Sums                                                                     *)

\* Induction over the natural numbers, for the set of those that have a property.
LEMMA SetInduction ==
    ASSUME NEW S \in SUBSET Nat, 0 \in S, \A n \in S : n + 1 \in S
    PROVE  S = Nat
  <1> SUFFICES ASSUME Nat \ S # {} PROVE FALSE
    OBVIOUS
  <1> DEFINE R == OpToRel(<, Nat)
  <1>1. PICK n \in Nat \ S : \A m \in Nat \ S : ~(<<m, n>> \in R)
    <2>1. IsWellFoundedOn(R, Nat)
      BY NatLessThanWellFounded
    <2> HIDE DEF R
    <2>2. Nat \ S \subseteq Nat
      OBVIOUS
    <2> QED BY <2>1, <2>2, WFMin
  <1>2. n - 1 \in Nat \ S
    <2>1. n # 0
      OBVIOUS
    <2> QED BY <2>1
  <1>3. <<n - 1, n>> \in R
    <2>1. R = {ss \in Nat \X Nat : ss[1] < ss[2]}
      BY DEF OpToRel
    <2> HIDE DEF R
    <2>2. <<n - 1, n>> \in Nat \X Nat
      BY <1>2
    <2>3. n - 1 < n
      OBVIOUS
    <2> QED BY <2>1, <2>2, <2>3
  <1> QED BY <1>1, <1>2, <1>3

\* SumFunction chooses an index, and adds its value to the sum over the others.
Chosen(s) == CHOOSE x \in s : TRUE

Added(f, g, s) == IF s = {} THEN 0 ELSE f[Chosen(s)] + g[s \ {Chosen(s)}]

\* g is the sum of f over every set of its indices.
AddsUp(g, f) == g = [s \in SUBSET DOMAIN f |-> Added(f, g, s)]

LEMMA SumIs ==
    ASSUME NEW f
    PROVE  SumFunction(f) = (CHOOSE g : AddsUp(g, f))[DOMAIN f]
  BY DEF AddsUp, SumFunction, SumFunctionOnSet, FoldFunctionOnSet, MapThenFoldSet, Added, Chosen

LEMMA ChosenIn == ASSUME NEW s, s # {} PROVE Chosen(s) \in s
  BY DEF Chosen

\* The sets of a finite set with one element less.
LEMMA OneLess ==
    ASSUME NEW D, IsFiniteSet(D), NEW s \in SUBSET D, NEW x \in s
    PROVE  /\ s \ {x} \in SUBSET D
           /\ Cardinality(s) \in Nat
           /\ Cardinality(s \ {x}) \in Nat
           /\ Cardinality(s \ {x}) = Cardinality(s) - 1
  <1>1. IsFiniteSet(s) /\ IsFiniteSet(s \ {x})
    BY FS_Subset
  <1>2. Cardinality(s) \in Nat /\ Cardinality(s \ {x}) \in Nat
    BY <1>1, FS_CardinalityType
  <1>3. Cardinality(s \ {x}) = Cardinality(s) - 1
    BY <1>1, FS_RemoveElement
  <1> QED BY <1>2, <1>3

\* There is such a g: it is one for the sets of at most n indices, whatever n.
LEMMA SumExists ==
    ASSUME NEW f, IsFiniteSet(DOMAIN f)
    PROVE  \E g : AddsUp(g, f)
  <1> DEFINE D == DOMAIN f
  <1>0. IsFiniteSet(D)
    OBVIOUS
  <1> HIDE DEF D
  <1> DEFINE Small(n) == {s \in SUBSET D : Cardinality(s) <= n}
             Adds(g, n) == \A s \in Small(n) : g[s] = Added(f, g, s)
             Goes(n) == \E g : Adds(g, n)
             S == {n \in Nat : Goes(n)}
  <1>1. 0 \in S
    <2>1. \A s \in Small(0) : s = {}
      <3> TAKE s \in Small(0)
      <3>1. IsFiniteSet(s) /\ Cardinality(s) \in Nat
        BY <1>0, FS_Subset, FS_CardinalityType
      <3>2. Cardinality(s) = 0
        BY <3>1
      <3> QED BY <3>1, <3>2, FS_EmptySet
    <2>2. Adds([s \in SUBSET D |-> 0], 0)
      BY <2>1 DEF Added
    <2> QED BY <2>2
  <1>2. ASSUME NEW n \in Nat, Goes(n) PROVE Goes(n + 1)
    <2>1. PICK g : Adds(g, n)
      BY <1>2
    <2> DEFINE h == [s \in SUBSET D |-> IF s \in Small(n) THEN g[s] ELSE Added(f, g, s)]
    <2>2. ASSUME NEW s \in Small(n + 1) PROVE h[s] = Added(f, h, s)
      <3>1. CASE s = {}
        BY <2>1, <3>1 DEF Added
      <3>2. CASE s # {}
        <4> DEFINE x == Chosen(s)
        <4>1. x \in s
          BY <3>2, ChosenIn
        <4> HIDE DEF x
        <4>2. /\ s \ {x} \in SUBSET D /\ Cardinality(s) \in Nat
              /\ Cardinality(s \ {x}) \in Nat /\ Cardinality(s \ {x}) = Cardinality(s) - 1
          BY <1>0, <4>1, OneLess
        <4>3. s \ {x} \in Small(n)
          BY <4>2
        <4>4. h[s \ {x}] = g[s \ {x}]
          BY <4>2, <4>3
        <4>5. h[s] = Added(f, g, s)
          BY <2>1
        <4>6. Added(f, g, s) = f[x] + g[s \ {x}] /\ Added(f, h, s) = f[x] + h[s \ {x}]
          <5> HIDE DEF h
          <5> QED BY <3>2 DEF Added, x
        <4> QED BY <4>4, <4>5, <4>6
      <3> QED BY <3>1, <3>2
    <2> HIDE DEF h
    <2> QED BY <2>2
  <1>3. S = Nat
    <2>1. S \subseteq Nat /\ \A n \in S : n + 1 \in S
      <3> HIDE DEF Goes
      <3> QED BY <1>2
    <2> HIDE DEF S
    <2> QED BY <1>1, <2>1, SetInduction
  <1>4. Cardinality(D) \in Nat
    BY <1>0, FS_CardinalityType
  <1>5. Small(Cardinality(D)) = SUBSET D
    BY <1>0, FS_Subset
  <1>6. PICK g : Adds(g, Cardinality(D))
    BY <1>3, <1>4
  <1> DEFINE h == [s \in SUBSET D |-> g[s]]
  <1>7. \A s \in SUBSET D : g[s] = Added(f, g, s)
    BY <1>5, <1>6
  <1>8. \A s \in SUBSET D : Added(f, h, s) = Added(f, g, s)
    BY DEF Added
  <1>9. AddsUp(h, f)
    BY <1>7, <1>8 DEF AddsUp, D
  <1> QED BY <1>9

\* Two sums that agree on the indices of s give the same for s.
LEMMA SumUnique ==
    ASSUME NEW D, IsFiniteSet(D), NEW f, DOMAIN f = D, NEW g, AddsUp(g, f),
           NEW E, IsFiniteSet(E), NEW e, DOMAIN e = E, NEW h, AddsUp(h, e),
           NEW S \in SUBSET D, S \subseteq E, \A x \in S : f[x] = e[x]
    PROVE  g[S] = h[S]
  <1> DEFINE Same(n) == \A s \in SUBSET S : Cardinality(s) = n => g[s] = h[s]
             N == {n \in Nat : Same(n)}
  <1>1. \A s \in SUBSET S : g[s] = Added(f, g, s) /\ h[s] = Added(e, h, s)
    BY DEF AddsUp
  <1>2. Same(0)
    <2> TAKE s \in SUBSET S
    <2> HAVE Cardinality(s) = 0
    <2>1. s = {}
      BY FS_Subset, FS_EmptySet
    <2> QED BY <1>1, <2>1 DEF Added
  <1>3. ASSUME NEW n \in Nat, Same(n) PROVE Same(n + 1)
    <2> TAKE s \in SUBSET S
    <2> HAVE Cardinality(s) = n + 1
    <2>1. s # {}
      BY FS_EmptySet
    <2> DEFINE x == Chosen(s)
    <2>2. x \in s
      BY <2>1, ChosenIn
    <2>3. g[s] = f[x] + g[s \ {x}] /\ h[s] = e[x] + h[s \ {x}]
      BY <1>1, <2>1 DEF Added
    <2> HIDE DEF x
    <2>4. s \ {x} \in SUBSET S /\ Cardinality(s \ {x}) = n
      <3>1. s \in SUBSET D
        OBVIOUS
      <3> QED BY <2>2, <3>1, OneLess
    <2>5. g[s \ {x}] = h[s \ {x}]
      BY <1>3, <2>4
    <2>6. f[x] = e[x]
      BY <2>2
    <2> QED BY <2>3, <2>5, <2>6
  <1>4. N = Nat
    <2>1. N \subseteq Nat /\ 0 \in N /\ \A n \in N : n + 1 \in N
      <3> HIDE DEF Same
      <3> QED BY <1>2, <1>3
    <2> HIDE DEF N
    <2> QED BY <2>1, SetInduction
  <1>5. Cardinality(S) \in Nat
    BY FS_Subset, FS_CardinalityType
  <1> QED BY <1>4, <1>5

\* What any of the elements adds does not depend on which was chosen.
LEMMA SumValues ==
    ASSUME NEW D, IsFiniteSet(D), NEW f \in [D -> Nat], NEW g, AddsUp(g, f)
    PROVE  \A s \in SUBSET D :
             /\ g[s] \in Nat
             /\ \A x \in s : g[s] = f[x] + g[s \ {x}]
  <1> DEFINE Good(s) == g[s] \in Nat /\ \A x \in s : g[s] = f[x] + g[s \ {x}]
             Right(n) == \A s \in SUBSET D : Cardinality(s) <= n => Good(s)
             N == {n \in Nat : Right(n)}
  <1>1. \A s \in SUBSET D : g[s] = Added(f, g, s)
    BY DEF AddsUp
  <1>0. Good({})
    <2>1. g[{}] = 0
      BY <1>1 DEF Added
    <2> QED BY <2>1
  <1>2. Right(0)
    <2> TAKE s \in SUBSET D
    <2> HAVE Cardinality(s) <= 0
    <2>1. s = {}
      <3>1. IsFiniteSet(s) /\ Cardinality(s) \in Nat
        BY FS_Subset, FS_CardinalityType
      <3>2. Cardinality(s) = 0
        BY <3>1
      <3> QED BY <3>1, <3>2, FS_EmptySet
    <2> HIDE DEF Good
    <2> QED BY <1>0, <2>1
  <1>3. ASSUME NEW n \in Nat, Right(n) PROVE Right(n + 1)
    <2> TAKE s \in SUBSET D
    <2> HAVE Cardinality(s) <= n + 1
    <2> SUFFICES ASSUME s # {} PROVE Good(s)
      <3> HIDE DEF Good
      <3> QED BY <1>0
    <2> DEFINE c == Chosen(s)
    <2>2. c \in s
      BY ChosenIn
    <2>3. g[s] = f[c] + g[s \ {c}]
      BY <1>1 DEF Added
    <2> HIDE DEF c
    <2>4. \A x \in s : s \ {x} \in SUBSET D /\ Cardinality(s \ {x}) <= n
      BY OneLess
    <2>5. \A x \in s : Good(s \ {x})
      <3> HIDE DEF Good
      <3> QED BY <1>3, <2>4
    <2>6. g[s] \in Nat
      BY <2>2, <2>3, <2>5
    <2>7. ASSUME NEW x \in s PROVE g[s] = f[x] + g[s \ {x}]
      <3>1. CASE x = c
        BY <2>3, <3>1
      <3>2. CASE x # c
        <4> DEFINE one == s \ {c}
                   other == s \ {x}
                   both == one \ {x}
        <4>1. one \in SUBSET D /\ x \in one /\ Cardinality(one) <= n /\ Good(one)
          BY <2>2, <2>4, <2>5, <3>2
        <4>2. other \in SUBSET D /\ c \in other /\ Good(other)
          BY <2>2, <2>4, <2>5, <3>2
        <4>3. both = other \ {c}
          OBVIOUS
        <4>4. g[s] = f[c] + g[one] /\ f[x] \in Nat /\ f[c] \in Nat
          BY <2>2, <2>3
        <4> SUFFICES g[s] = f[x] + g[other]
          OBVIOUS
        <4>5. both \in SUBSET D /\ Cardinality(both) <= n
          <5> HIDE DEF one, other
          <5>1. /\ one \ {x} \in SUBSET D
                /\ Cardinality(one) \in Nat /\ Cardinality(one \ {x}) \in Nat
                /\ Cardinality(one \ {x}) = Cardinality(one) - 1
            BY <4>1, OneLess
          <5> QED BY <4>1, <5>1
        <4> HIDE DEF one, other, both
        <4>6. g[both] \in Nat
          BY <1>3, <4>5
        <4>7. g[one] = f[x] + g[both]
          BY <4>1 DEF both
        <4>8. g[other] = f[c] + g[both]
          BY <4>2, <4>3
        <4> QED BY <4>4, <4>6, <4>7, <4>8
      <3> QED BY <3>1, <3>2
    <2> QED BY <2>6, <2>7
  <1>4. N = Nat
    <2>1. N \subseteq Nat /\ 0 \in N /\ \A n \in N : n + 1 \in N
      <3> HIDE DEF Right
      <3> QED BY <1>2, <1>3
    <2> HIDE DEF N
    <2> QED BY <2>1, SetInduction
  <1>5. \A s \in SUBSET D : Cardinality(s) \in Nat
    BY FS_Subset, FS_CardinalityType
  <1> QED BY <1>4, <1>5

\* SumFunction is a sum: of naturals it is one, over no index it is 0, and one index more
\* adds its value.
LEMMA SumIsSum ==
    ASSUME NEW D, IsFiniteSet(D), NEW f \in [D -> Nat]
    PROVE  /\ SumFunction(f) \in Nat
           /\ D = {} => SumFunction(f) = 0
           /\ \A x \in D : SumFunction(f) = SumFunction([y \in D \ {x} |-> f[y]]) + f[x]
  <1> DEFINE G(e) == CHOOSE g : AddsUp(g, e)
  <1>1. ASSUME NEW E, IsFiniteSet(E), NEW e \in [E -> Nat]
        PROVE  AddsUp(G(e), e) /\ SumFunction(e) = G(e)[E]
    <2>1. DOMAIN e = E
      OBVIOUS
    <2>2. AddsUp(G(e), e)
      BY <1>1, <2>1, SumExists
    <2> QED BY <2>1, <2>2, SumIs
  <1> HIDE DEF G
  <1>2. AddsUp(G(f), f) /\ SumFunction(f) = G(f)[D]
    BY <1>1
  <1>3. \A s \in SUBSET D : G(f)[s] \in Nat /\ \A x \in s : G(f)[s] = f[x] + G(f)[s \ {x}]
    BY <1>2, SumValues
  <1>4. D = {} => G(f)[D] = 0
    <2>1. G(f)[D] = Added(f, G(f), D)
      BY <1>2 DEF AddsUp
    <2> QED BY <2>1 DEF Added
  <1>5. ASSUME NEW x \in D
        PROVE  SumFunction(f) = SumFunction([y \in D \ {x} |-> f[y]]) + f[x]
    <2> DEFINE E == D \ {x}
               e == [y \in E |-> f[y]]
    <2>1. IsFiniteSet(E) /\ e \in [E -> Nat]
      BY FS_Subset
    <2>2. AddsUp(G(e), e) /\ SumFunction(e) = G(e)[E]
      <3> HIDE DEF e, E
      <3> QED BY <1>1, <2>1
    <2>3. E \in SUBSET D /\ \A y \in E : f[y] = e[y]
      OBVIOUS
    <2>4. G(f)[E] = G(e)[E]
      <3> HIDE DEF e, E
      <3> QED BY <1>2, <2>1, <2>2, <2>3, SumUnique
    <2>5. G(f)[E] \in Nat /\ f[x] \in Nat /\ G(f)[D] = f[x] + G(f)[E]
      BY <1>3
    <2> QED BY <1>2, <2>2, <2>4, <2>5
  <1>6. G(f)[D] \in Nat
    BY <1>3
  <1> QED BY <1>2, <1>4, <1>5, <1>6

LEMMA SumsUp ==
    /\ \A f \in [{} -> Nat] : SumFunction(f) = 0
    /\ \A T \in SUBSET Subtasks : \A s \in Subtasks \ T : \A f \in [T \cup {s} -> Nat] :
         SumFunction(f) = SumFunction([t \in T |-> f[t]]) + f[s]
  <1>1. ASSUME NEW f \in [{} -> Nat] PROVE SumFunction(f) = 0
    BY FS_EmptySet, SumIsSum
  <1>2. ASSUME NEW T \in SUBSET Subtasks, NEW s \in Subtasks \ T, NEW f \in [T \cup {s} -> Nat]
        PROVE  SumFunction(f) = SumFunction([t \in T |-> f[t]]) + f[s]
    <2> DEFINE D == T \cup {s}
    <2>1. IsFiniteSet(D)
      BY DispatchAssumption, FS_Subset, FS_AddElement
    <2>2. D \ {s} = T /\ s \in D
      OBVIOUS
    <2> HIDE DEF D
    <2>3. f \in [D -> Nat]
      BY DEF D
    <2>4. SumFunction(f) = SumFunction([y \in D \ {s} |-> f[y]]) + f[s]
      BY <2>1, <2>2, <2>3, SumIsSum
    <2> QED BY <2>2, <2>4
  <1> QED BY <1>1, <1>2

-----------------------------------------------------------------------------
(* The card                                                                 *)

\* Any of the subtasks have their models, and the card holds them.
AllFit(S) ==
    /\ \A s \in S : given[s] # NoModel
    /\ \A T \in SUBSET S : totalVramMb(T) <= budgetMb(card)

\* K has what is behind at one time or another, up to a set and all that is routed.
Stages(K) ==
    /\ {} \in K /\ behind \in K /\ routed \in K
    /\ \A S \in K \ {behind} : AllFit(GroupAfter(S)) /\ S \cup GroupAfter(S) \in K

\* What the group being routed has taken so far is reserved for it.
RoomTaken ==
    LET begun == Routed \ behind
    IN /\ begun \subseteq RoutingGroup
       /\ begun = {} => reserved = 0
       /\ reserved <= budgetMb(card)
       /\ \A T \in SUBSET begun : totalVramMb(T) \in Nat /\ totalVramMb(T) <= reserved

\* The groups of the dispatch are those of the router.
GroupIsRouted == group = {} \/ group = GroupAfter(routed)

NotYet ==
    /\ phase = "snapshot" => behind = {} /\ Routed = {}
    /\ phase # "go" => group = {} /\ routed = {}

CardInv ==
    /\ RoomTaken
    /\ GroupIsRouted
    /\ NotYet
    /\ \E K \in SUBSET SUBSET Subtasks : Stages(K)

LEMMA BudgetFacts ==
    ASSUME RoutingOK
    PROVE  /\ budgetMb(card) \in Nat /\ reserved \in Nat
           /\ \A s \in Routed : given[s] \in Models /\ Registry[given[s]].vramMb \in Nat
<1>1. card.availableForModelsMb \in Nat /\ VRAM_BUDGET_MB \in Nat
  BY RouterAssumption DEF RoutingOK, Snapshot
<1> QED
  BY <1>1, ModelFacts DEF RoutingOK, budgetMb, Routed

\* No subtasks need no room,
LEMMA VramOfNone ==
    \A T \in SUBSET {} : totalVramMb(T) = 0 /\ totalVramMb(T)' = 0
<1> SUFFICES totalVramMb({}) = 0 /\ totalVramMb({})' = 0
  OBVIOUS
<1>1. /\ [s \in {} |-> Registry[given[s]].vramMb] \in [{} -> Nat]
      /\ [s \in {} |-> Registry[given'[s]].vramMb] \in [{} -> Nat]
  OBVIOUS
<1> QED
  BY <1>1, SumsUp DEF totalVramMb

\* and one more needs its model's.
LEMMA VramAdds ==
    ASSUME NEW s \in Subtasks, NEW T \in SUBSET Subtasks, NEW m \in Models,
           given'[s] = m, s \notin T,
           \A t \in T : given[t] \in Models /\ given'[t] = given[t]
    PROVE  /\ totalVramMb(T)' = totalVramMb(T)
           /\ totalVramMb(T \cup {s})' = totalVramMb(T) + Registry[m].vramMb
<1> DEFINE f == [t \in T \cup {s} |-> Registry[given'[t]].vramMb]
           g == [t \in T |-> Registry[given[t]].vramMb]
<1>1. f \in [T \cup {s} -> Nat] /\ f[s] = Registry[m].vramMb
  BY ModelFacts
<1>2. [t \in T |-> f[t]] = g /\ [t \in T |-> Registry[given'[t]].vramMb] = g
  OBVIOUS
<1>3. SumFunction(f) = SumFunction([t \in T |-> f[t]]) + f[s]
  <2> HIDE DEF f
  <2> QED
    BY <1>1, SumsUp
<1>4. /\ totalVramMb(T) = SumFunction(g) /\ totalVramMb(T)' = SumFunction(g)
      /\ totalVramMb(T \cup {s})' = SumFunction(f)
  BY <1>2 DEF totalVramMb
<1> QED
  BY <1>1, <1>2, <1>3, <1>4

LEMMA CardInitInv == RoutedInit => CardInv
<1> SUFFICES ASSUME RoutedInit PROVE CardInv
  OBVIOUS
<1>1. Routed = {} /\ behind = {} /\ routed = {} /\ group = {} /\ reserved = 0
  BY DEF RoutedInit, Init, Routed
<1>2. budgetMb(card) \in Nat
  BY RouterAssumption DEF RoutedInit, NoCard, budgetMb
<1>3. Stages({{}})
  BY <1>1 DEF Stages
<1> QED
  BY <1>1, <1>2, <1>3, VramOfNone DEF CardInv, RoomTaken, GroupIsRouted, NotYet

\* What changes neither the routing nor the groups, and
LEMMA CardStays ==
    ASSUME CardInv, UNCHANGED <<card, given, behind, reserved, planVars>>,
           phase' = "snapshot" => phase = "snapshot", phase = "go" => phase' = "go"
    PROVE  CardInv'
<1>1. Routed' = Routed /\ budgetMb(card)' = budgetMb(card)
  BY DEF Routed, budgetMb
<1>2. \A S : GroupAfter(S)' = GroupAfter(S)
  BY DEF GroupAfter, planVars
<1>3. RoomTaken'
  BY <1>1, <1>2 DEF CardInv, RoomTaken, RoutingGroup, totalVramMb
<1>4. GroupIsRouted' /\ NotYet'
  BY <1>1, <1>2 DEF CardInv, GroupIsRouted, NotYet, planVars
<1>5. ASSUME NEW K \in SUBSET SUBSET Subtasks, Stages(K) PROVE Stages(K)'
  BY <1>1, <1>2, <1>5 DEF Stages, AllFit, totalVramMb, planVars
<1> QED
  BY <1>3, <1>4, <1>5 DEF CardInv

\* the next model, which takes its room on the card if it is local.
LEMMA RoomIsTaken ==
    ASSUME RoutedInv, CardInv, NEW s \in Subtasks, Route(s)
    PROVE  CardInv'
<1> DEFINE begun == Routed \ behind
<1>1. PICK cooled \in SUBSET (open \cap Considered(Needed[s], card, available)) :
           \E m \in Models :
              /\ Selects(m, CanUse(s, open \ cooled), available)
              /\ given' = [given EXCEPT ![s] = m]
              /\ model' = [model EXCEPT ![s] = m]
              /\ reserved' = IF Completes(s) THEN 0 ELSE Allocated(m)
              /\ failures' = Forgive(cooled)
              /\ open' = open \ cooled
  BY DEF Route
<1>2. PICK m \in Models :
              /\ Selects(m, CanUse(s, open \ cooled), available)
              /\ given' = [given EXCEPT ![s] = m]
              /\ reserved' = IF Completes(s) THEN 0 ELSE Allocated(m)
  BY <1>1
<1>3. /\ behind' = IF Completes(s) THEN behind \cup RoutingGroup ELSE behind
      /\ phase = "route" /\ phase' # "snapshot" /\ phase' # "go"
      /\ UNCHANGED <<card, needs, group, routed>>
      /\ s \in RoutingGroup \ Routed
  BY DEF Route, vars, dispatchVars, planVars
<1>4. /\ Local(m) => reserved + Registry[m].vramMb <= budgetMb(card)
      /\ ~Local(m) => Registry[m].vramMb = 0
      /\ m \in Models /\ Registry[m].vramMb \in Nat /\ m # NoModel
  BY <1>2, ModelFacts, SelectionFacts DEF canFit, Local
<1>5. /\ budgetMb(card) \in Nat /\ budgetMb(card)' = budgetMb(card)
      /\ reserved \in Nat /\ reserved <= budgetMb(card)
      /\ \A T \in SUBSET begun : totalVramMb(T) \in Nat /\ totalVramMb(T) <= reserved
  BY <1>3, BudgetFacts DEF RoutedInv, CardInv, RoomTaken, budgetMb
<1>6. \A S : GroupAfter(S)' = GroupAfter(S)
  BY <1>3 DEF GroupAfter
<1>7. given \in [Subtasks -> Models \cup {NoModel}] /\ given[s] = NoModel
  BY <1>3 DEF RoutedInv, RoutingOK, Routed
<1>8. /\ given'[s] = m
      /\ \A t \in Subtasks \ {s} : given'[t] = given[t]
      /\ Routed' = Routed \cup {s}
  BY <1>2, <1>4, <1>7 DEF Routed
<1>9. RoutingGroup \subseteq Subtasks \ behind /\ begun \subseteq RoutingGroup
  BY DEF RoutingGroup, GroupAfter, CardInv, RoomTaken
<1>10. PICK K \in SUBSET SUBSET Subtasks : Stages(K)
  BY DEF CardInv
\* Of those that have a model nothing changes, and one more adds its own.
<1>11. ASSUME NEW T \in SUBSET Subtasks, \A t \in T : given[t] # NoModel
       PROVE  /\ totalVramMb(T)' = totalVramMb(T)
              /\ totalVramMb(T \cup {s})' = totalVramMb(T) + Registry[m].vramMb
  <2>1. s \notin T /\ \A t \in T : given[t] \in Models /\ given'[t] = given[t]
    BY <1>7, <1>8, <1>11
  <2> QED
    BY <1>4, <1>8, <2>1, VramAdds
<1>12. ASSUME NEW S \in K \ {behind} PROVE AllFit(GroupAfter(S))'
  <2>1. AllFit(GroupAfter(S)) /\ GroupAfter(S) \subseteq Subtasks
    BY <1>10 DEF Stages, GroupAfter
  <2>2. \A t \in GroupAfter(S) : given'[t] # NoModel
    BY <1>7, <1>8, <2>1 DEF AllFit
  <2>3. ASSUME NEW T \in SUBSET GroupAfter(S) PROVE totalVramMb(T)' <= budgetMb(card)'
    BY <1>5, <1>11, <2>1 DEF AllFit
  <2> QED
    BY <1>6, <2>2, <2>3 DEF AllFit
<1>13. ASSUME NEW T \in SUBSET (begun \cup {s})
       PROVE  /\ totalVramMb(T)' \in Nat /\ totalVramMb(T)' <= reserved + Registry[m].vramMb
              /\ totalVramMb(T)' <= budgetMb(card)
  <2>1. PICK U \in SUBSET begun : U = T \ {s}
    OBVIOUS
  <2>2. U \in SUBSET Subtasks /\ \A t \in U : given[t] # NoModel
    BY <1>9 DEF Routed
  <2>3. /\ totalVramMb(U)' = totalVramMb(U)
        /\ totalVramMb(U \cup {s})' = totalVramMb(U) + Registry[m].vramMb
        /\ totalVramMb(U) \in Nat /\ totalVramMb(U) <= reserved
    BY <1>5, <1>11, <2>2
  <2>4. CASE T = U
    BY <1>4, <1>5, <2>3, <2>4
  <2>5. CASE T = U \cup {s}
    BY <1>4, <1>5, <2>3, <2>5
  <2> QED
    BY <2>1, <2>4, <2>5
<1>14. GroupIsRouted' /\ NotYet'
  BY <1>3, <1>6 DEF CardInv, GroupIsRouted, NotYet
<1>15. CASE ~Completes(s)
  <2>1. behind' = behind /\ reserved' = reserved + Registry[m].vramMb
    BY <1>2, <1>3, <1>15 DEF Allocated
  <2>2. Routed' \ behind' = begun \cup {s} /\ RoutingGroup' = RoutingGroup
    BY <1>3, <1>6, <1>8, <1>9, <2>1 DEF RoutingGroup
  <2>3. reserved' <= budgetMb(card)'
    BY <1>4, <1>5, <2>1
  <2>4. RoomTaken'
    BY <1>3, <1>9, <1>13, <2>1, <2>2, <2>3 DEF RoomTaken
  <2>5. Stages(K)'
    BY <1>3, <1>6, <1>10, <1>12, <2>1 DEF Stages
  <2> QED
    BY <1>14, <2>4, <2>5 DEF CardInv
<1>16. CASE Completes(s)
  <2>1. behind' = behind \cup RoutingGroup /\ reserved' = 0
    BY <1>2, <1>3, <1>16
  <2>2. Routed' \ behind' = {}
    BY <1>3, <1>8, <1>9, <2>1
  <2>3. RoomTaken'
    BY <1>5, <2>1, <2>2, VramOfNone DEF RoomTaken
  <2>4. RoutingGroup \subseteq begun \cup {s}
    BY <1>9, <1>16 DEF Completes
  <2>5. \A t \in RoutingGroup : given'[t] # NoModel
    BY <1>4, <1>8, <2>4 DEF Routed
  <2>6. \A T \in SUBSET RoutingGroup : totalVramMb(T)' <= budgetMb(card)'
    BY <1>5, <1>13, <2>4
  <2>7. ASSUME NEW S \in {behind} PROVE AllFit(GroupAfter(S))'
    BY <1>6, <2>5, <2>6 DEF AllFit, RoutingGroup
  <2>8. PICK B : B = behind \cup RoutingGroup
    OBVIOUS
  <2>9. K \cup {B} \in SUBSET SUBSET Subtasks /\ behind' = B
    BY <1>9, <2>1, <2>8 DEF RoutedInv, RoutingOK
  <2>10. ASSUME NEW S \in (K \cup {B}) \ {B}
         PROVE  AllFit(GroupAfter(S))' /\ S \cup GroupAfter(S) \in K \cup {B}
    <3>1. CASE S = behind
      BY <2>7, <2>8, <3>1 DEF RoutingGroup
    <3>2. CASE S # behind
      BY <1>10, <1>12, <3>2 DEF Stages
    <3> QED
      BY <3>1, <3>2
  <2>11. Stages(K \cup {B})'
    BY <1>3, <1>6, <1>10, <2>9, <2>10 DEF Stages
  <2> QED
    BY <1>14, <2>3, <2>9, <2>11 DEF CardInv
<1> QED
  BY <1>15, <1>16

\* The dispatch goes from stage to stage as the router did.
LEMMA GroupKeepsCard ==
    ASSUME Inv, RoutedInv, CardInv, phase = "go", GroupStep
    PROVE  CardInv'
<1>1. UNCHANGED <<card, given, behind, reserved, phase, needs>> /\ behind = Subtasks
  BY DEF GroupStep, LookForMessages, BeginGroup, InterruptGroups, EndGroup, routeVars,
         dispatchVars, planVars, RoutedInv
<1>2. Routed' = Routed /\ budgetMb(card)' = budgetMb(card)
  BY <1>1 DEF Routed, budgetMb
<1>3. \A S : GroupAfter(S)' = GroupAfter(S)
  BY <1>1 DEF GroupAfter
<1>4. RoomTaken'
  BY <1>1, <1>2, <1>3 DEF CardInv, RoomTaken, RoutingGroup, totalVramMb
<1>5. CASE LookForMessages \/ InterruptGroups
  <2>1. UNCHANGED planVars
    BY <1>5 DEF LookForMessages, InterruptGroups, dispatchVars
  <2> QED
    BY <1>1, <2>1, CardStays
<1>6. CASE BeginGroup
  <2>1. group' = GroupAfter(routed) /\ routed' = routed
    BY <1>6 DEF BeginGroup, NextGroup
  <2>2. ASSUME NEW K \in SUBSET SUBSET Subtasks, Stages(K) PROVE Stages(K)'
    BY <1>1, <1>2, <1>3, <2>1, <2>2 DEF Stages, AllFit, totalVramMb
  <2>3. GroupIsRouted'
    BY <1>3, <2>1 DEF GroupIsRouted
  <2> QED
    BY <1>1, <1>4, <2>2, <2>3 DEF CardInv, NotYet
<1>7. CASE EndGroup
  <2>1. routed' = routed \cup group /\ group' = {}
    BY <1>7 DEF EndGroup
  <2>2. PICK K \in SUBSET SUBSET Subtasks : Stages(K)
    BY DEF CardInv
  <2>3. routed' \in K
    <3>1. CASE routed = behind
      <4>1. group = {}
        BY <1>1, <3>1 DEF CardInv, GroupIsRouted, GroupAfter
      <4> QED
        BY <2>1, <2>2, <4>1 DEF Stages
    <3>2. CASE routed # behind
      BY <2>1, <2>2, <3>2 DEF Stages, CardInv, GroupIsRouted
    <3> QED
      BY <3>1, <3>2
  <2>4. Stages(K)'
    BY <1>1, <1>2, <1>3, <2>2, <2>3 DEF Stages, AllFit, totalVramMb
  <2> QED
    BY <1>1, <1>4, <2>1, <2>4 DEF CardInv, GroupIsRouted, NotYet
<1> QED
  BY <1>5, <1>6, <1>7 DEF GroupStep

LEMMA CardNextInv == Inv /\ RoutedInv /\ CardInv /\ [RoutedNext]_routedVars => CardInv'
<1> SUFFICES ASSUME Inv, RoutedInv, CardInv, [RoutedNext]_routedVars PROVE CardInv'
  OBVIOUS
<1>1. CASE TakeSnapshot
  <2>1. /\ behind = {} /\ Routed = {} /\ routed = {} /\ group = {} /\ reserved = 0
        /\ UNCHANGED <<given, behind, routed, group, reserved>> /\ phase' = "route"
        /\ card' \in Snapshot
    BY <1>1, SnapshotFacts DEF TakeSnapshot, CardInv, NotYet, RoomTaken, RoutedInv, RoutingOK,
                               vars, dispatchVars, planVars
  <2>2. Routed' = {} /\ budgetMb(card)' \in Nat
    BY <2>1, RouterAssumption DEF Routed, budgetMb, Snapshot
  <2>3. Stages({{}})'
    BY <2>1 DEF Stages
  <2> QED
    BY <2>1, <2>2, <2>3, VramOfNone DEF CardInv, RoomTaken, GroupIsRouted, NotYet
<1>2. CASE RouteThrows \/ VerifyPlan
  BY <1>2, CardStays DEF RouteThrows, VerifyPlan, vars, dispatchVars
<1>3. ASSUME NEW s \in Subtasks, Route(s) PROVE CardInv'
  BY <1>3, RoomIsTaken
<1>4. CASE phase = "go" /\ GroupStep
  BY <1>4, GroupKeepsCard
<1>5. ASSUME NEW s \in Subtasks, RoutedSubtaskStep(s) PROVE CardInv'
  <2>1. UNCHANGED <<card, given, behind, reserved, phase>>
    BY <1>5 DEF RoutedSubtaskStep, Quiet, AnswersWith, ThrowsWith, FallsBackTo, TriesAgainWith,
                GivesUpOn, routeVars
  <2>2. UNCHANGED planVars
    BY <1>5 DEF RoutedSubtaskStep, Quiet, AnswersWith, ThrowsWith, FallsBackTo, TriesAgainWith,
                GivesUpOn, Prompt, Keep, Attempt, InterruptSubtask, Answers, Throws, FallsBack,
                TryAgain, GiveUp, Judges, Executes
  <2> QED
    BY <2>1, <2>2, CardStays
<1>6. CASE RestartAll
  BY <1>6, CardStays DEF RestartAll, Restart, routeVars
<1>7. ASSUME NEW m \in Msgs, MessageStep(m) PROVE CardInv'
  BY <1>7, CardStays DEF MessageStep, QueueOne, ExpireOne, dispatchVars, routeVars
<1>8. CASE (\E m \in Models : OtherCall(m)) \/ VerifyAll \/ NewDay
  BY <1>8, CardStays DEF OtherCall, VerifyAll, NewDay, vars, dispatchVars, routeVars
<1>9. CASE UNCHANGED routedVars
  BY <1>9, CardStays DEF routedVars, vars, dispatchVars, routeVars
<1> QED
  BY <1>1, <1>2, <1>3, <1>4, <1>5, <1>6, <1>7, <1>8, <1>9 DEF RoutedNext, RoutedStep

\* CardHolds for any registry, any number of subtasks, whatever the groups before them and
\* the answers: who runs side by side was routed side by side.
THEOREM CardAlwaysHolds == RoutedSpec => []CardHolds
<1>1. Inv /\ RoutedInv /\ CardInv => CardHolds
  <2> SUFFICES ASSUME Inv, RoutedInv, CardInv PROVE CardHolds
    OBVIOUS
  <2> DEFINE atWork == {s \in Subtasks : sub[s].at = "call" /\ model[s] = given[s]}
  <2>1. atWork \subseteq group
    BY DEF Inv, SubtaskOK, NotBegun
  <2>2. CASE atWork = {}
    BY <2>2, VramOfNone, BudgetFacts DEF CardHolds, RoutedInv
  <2>3. CASE atWork # {}
    <3>1. group = GroupAfter(routed) /\ group # {}
      BY <2>1, <2>3 DEF CardInv, GroupIsRouted
    <3>2. PICK K \in SUBSET SUBSET Subtasks : Stages(K)
      BY DEF CardInv
    <3>3. routed # behind
      BY <3>1 DEF CardInv, NotYet, RoutedInv, GroupAfter
    <3>4. AllFit(group)
      BY <3>1, <3>2, <3>3 DEF Stages
    <3> QED
      BY <2>1, <3>4 DEF AllFit, CardHolds
  <2> QED
    BY <2>2, <2>3
<1>2. RoutedInit => CardInv
  BY CardInitInv
<1>3. Inv /\ RoutedInv /\ CardInv /\ [RoutedNext]_routedVars => CardInv'
  BY CardNextInv
<1> QED
  BY <1>1, <1>2, <1>3, RoutedImplements, Invariant, RoutedInvariant, PTL DEF RoutedSpec
=============================================================================
