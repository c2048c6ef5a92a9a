---------------------------- MODULE RoutedDispatch ----------------------------
(***************************************************************************)
(* The dispatch with its models.  routeSubtasks gives every subtask one,   *)
(* group after group, in one synchronous go; dispatchSubtasks then asks    *)
(* the providers of the models given, and runs the groups on them.  What   *)
(* the calls come to is noted in the circuit breaker and the daily budget, *)
(* which the other dispatches of the process share, and which only the     *)
(* router looks at.                                                        *)
(***************************************************************************)
EXTENDS SubtaskDispatch, SmartRouter, Functions

CONSTANTS
    Needed,         \* estimatedComplexity of a subtask
    Threshold,      \* consecutive failures that open a circuit
    Settings        \* what one behaviour is about

\* gpu: there is a card; free: what of it may be free; start: the models available at first;
\* flaky: those that may come and go.  Bounds of the model: msgs, the messages that may be
\* queued, and others, what other dispatches and requests do to the models.
Setting == [needs : Plans, gpu : BOOLEAN, free : SUBSET Nat, start : SUBSET Models,
            flaky : SUBSET Models, msgs : SUBSET Msgs, others : Nat]

ASSUME RoutedAssumption ==
    /\ Needed \in [Subtasks -> Levels]
    /\ Threshold \in Nat \ {0}
    /\ Settings \subseteq Setting

VARIABLES
    setting,        \* the member of Settings
    phase,          \* how far the routing is
    card,           \* the snapshot it is made with
    given,          \* subtask -> model in the routing result
    model,          \* subtask -> assignedModel
    reserved,       \* usedVramMb of the group being routed
    behind,         \* subtasks of the groups routed before it
    available,      \* models with the flag "available"
    failures,       \* model -> consecutive failures, up to Threshold
    open,           \* models whose circuit is open
    requests,       \* to OpenRouter today, up to DailyLimit
    others          \* bound: calls of others so far

routeVars == <<setting, phase, card, given, model, reserved, behind>>
modelVars == <<available, failures, open, requests, others>>
routedVars == <<vars, routeVars, modelVars>>

RoutingOK ==
    /\ setting \in Settings
    /\ phase \in {"snapshot", "route", "verify", "go", "unrouted"}
    /\ card \in Snapshot
    /\ given \in [Subtasks -> Models \cup {NoModel}]
    /\ model \in [Subtasks -> Models \cup {NoModel}]
    /\ reserved \in Nat
    /\ behind \subseteq Subtasks
    /\ available \subseteq Models
    /\ failures \in [Models -> 0..Threshold]
    /\ open \subseteq Models
    /\ requests \in 0..DailyLimit
    /\ others \in Nat

RoutedInit ==
    /\ Init
    /\ setting \in Settings
    /\ needs = setting.needs
    /\ phase = "snapshot"
    /\ card = NoCard
    /\ given = [s \in Subtasks |-> NoModel]
    /\ model = given
    /\ reserved = 0
    /\ behind = {}
    /\ available = setting.start
    /\ failures = [m \in Models |-> 0]
    /\ open = {}
    /\ requests = 0
    /\ others = 0

-----------------------------------------------------------------------------
(* The circuit breaker and the budget                                       *)

Forgive(S) == [m \in Models |-> IF m \in S THEN 0 ELSE failures[m]]

\* recordSuccess, and recordRequest for a model of OpenRouter.
Succeeds(m) ==
    /\ failures' = Forgive({m})
    /\ open' = open \ {m}
    /\ requests' = IF Free(m) /\ requests < DailyLimit THEN requests + 1 ELSE requests

\* recordFailure; a failed request is not counted.
Fails(m) ==
    /\ failures' = [failures EXCEPT ![m] = IF @ < Threshold THEN @ + 1 ELSE @]
    /\ open' = IF failures[m] + 1 >= Threshold THEN open \cup {m} ELSE open
    /\ UNCHANGED requests

isOverBudget == DailyLimit > 0 /\ requests >= DailyLimit

-----------------------------------------------------------------------------
(* routeSubtasks                                                            *)

Snapshots ==
    {NoCard} \cup {[gpuAvailable |-> TRUE, availableForModelsMb |-> mb]
                     : mb \in IF setting.gpu THEN setting.free ELSE {}}

TakeSnapshot ==
    /\ phase = "snapshot"
    /\ loop = "check"
    /\ card' \in Snapshots
    /\ phase' = "route"
    /\ UNCHANGED <<vars, setting, given, model, reserved, behind, modelVars>>

Routed == {s \in Subtasks : given[s] # NoModel}

RoutingGroup == GroupAfter(behind)

\* isOpen closes those of the circuits it looks at whose five minutes are over.
CanUse(s, stillOpen) ==
    Usable(Needed[s], card, reserved, available, stillOpen, isOverBudget)

\* Mutant: the room is not taken.
NotAllocated(m) == reserved

\* VramBudgetTracker.allocate
Allocated(m) == reserved + Registry[m].vramMb

Completes(s) == RoutingGroup \subseteq Routed \cup {s}

\* The next subtask of the group; they are sorted by a priority the plan is free to choose.
Route(s) ==
    /\ phase = "route"
    /\ loop = "check"
    /\ s \in RoutingGroup \ Routed
    /\ \E cooled \in SUBSET (open \cap Considered(Needed[s], card, available)), m \in Models :
        /\ Selects(m, CanUse(s, open \ cooled), available)
        /\ given' = [given EXCEPT ![s] = m]
        /\ model' = [model EXCEPT ![s] = m]
        /\ reserved' = IF Completes(s) THEN 0 ELSE Allocated(m)
        /\ failures' = Forgive(cooled)
        /\ open' = open \ cooled
    /\ behind' = IF Completes(s) THEN behind \cup RoutingGroup ELSE behind
    /\ phase' = IF behind' = Subtasks THEN "verify" ELSE phase
    /\ UNCHANGED <<vars, setting, card, available, requests, others>>

\* "No available model": the plan is carried out without the dispatch.
RouteThrows ==
    /\ phase = "route"
    /\ loop = "check"
    /\ Cloud(available) = {}
    /\ \E s \in RoutingGroup \ Routed :
        \E cooled \in SUBSET (open \cap Considered(Needed[s], card, available)) :
            /\ CanUse(s, open \ cooled) = {}
            /\ failures' = Forgive(cooled)
            /\ open' = open \ cooled
    /\ phase' = "unrouted"
    /\ UNCHANGED <<vars, setting, card, given, model, reserved, behind, available, requests, others>>

-----------------------------------------------------------------------------
(* dispatchSubtasks                                                         *)

Planned == {given[s] : s \in Subtasks}

\* What the flags may be after the models of S were looked for, at ollama and at the providers.
Checked(S) == {(available \ S) \cup A : A \in SUBSET S}

\* quickModelCheck: the flags change, the assignments do not.
VerifyPlan ==
    /\ phase = "verify"
    /\ loop = "check"
    /\ available' \in Checked(Planned \cap setting.flaky)
    /\ phase' = "go"
    /\ UNCHANGED <<vars, setting, card, given, model, reserved, behind, failures, open,
                   requests, others>>

AnswersWith(s) ==
    /\ Answers(s)
    /\ Succeeds(model[s])
    /\ UNCHANGED <<routeVars, available, others>>

ThrowsWith(s) ==
    /\ Throws(s)
    /\ Fails(model[s])
    /\ UNCHANGED <<routeVars, available, others>>

\* subtask.assignedModel is the fallback from here on.
FallsBackTo(s) ==
    /\ FallsBack(s)
    /\ Fails(model[s])
    /\ \E now \in Snapshots, m \in Models :
        /\ IsFirst(m, Fallbacks(model[s], available, now))
        /\ model' = [model EXCEPT ![s] = m]
    /\ UNCHANGED <<setting, phase, card, given, reserved, behind, available, others>>

\* The same model, and then the stronger one.
TriesAgainWith(s) ==
    /\ TryAgain(s)
    /\ IF sub[s].attempt = 1
       THEN model' = model
       ELSE \E m \in Models :
              /\ Escalates(m, Stronger(model[s], Needed[s], available))
              /\ model' = [model EXCEPT ![s] = m]
    /\ UNCHANGED <<setting, phase, card, given, reserved, behind, modelVars>>

GivesUpOn(s) ==
    /\ GiveUp(s)
    /\ sub[s].attempt = 2 => Stronger(model[s], Needed[s], available) = {}
    /\ UNCHANGED <<routeVars, modelVars>>

Quiet(s) ==
    /\ Prompt(s) \/ Keep(s) \/ Attempt(s) \/ InterruptSubtask(s)
    /\ UNCHANGED <<routeVars, modelVars>>

RoutedSubtaskStep(s) ==
    \/ Quiet(s) \/ AnswersWith(s) \/ ThrowsWith(s) \/ FallsBackTo(s)
    \/ TriesAgainWith(s) \/ GivesUpOn(s)

GroupStep ==
    /\ LookForMessages \/ BeginGroup \/ InterruptGroups \/ EndGroup
    /\ UNCHANGED <<routeVars, modelVars>>

RoutedStep ==
    \/ TakeSnapshot \/ RouteThrows \/ VerifyPlan
    \/ \E s \in Subtasks : Route(s)
    \/ phase = "go" /\ (GroupStep \/ \E s \in Subtasks : RoutedSubtaskStep(s))

-----------------------------------------------------------------------------
(* The others, and the whole                                                *)

\* The router is not interrupted.
Others == phase # "route" /\ others < setting.others /\ others' = others + 1

OtherCall(m) ==
    /\ Others
    /\ Succeeds(m) \/ Fails(m)
    /\ UNCHANGED <<vars, routeVars, available>>

\* verifyAllModels, at the start of the server and on /deploy/model-status.
VerifyAll ==
    /\ Others
    /\ available' \in Checked(setting.flaky)
    /\ UNCHANGED <<vars, routeVars, failures, open, requests>>

\* ensureCurrentDay
NewDay ==
    /\ phase # "route"
    /\ requests # 0
    /\ requests' = 0
    /\ UNCHANGED <<vars, routeVars, available, failures, open, others>>

\* The circuits and the count are the process's own.
RestartAll ==
    /\ Restart
    /\ failures' = Forgive(Models)
    /\ open' = {}
    /\ requests' = 0
    /\ UNCHANGED <<routeVars, available, others>>

MessageStep(m) ==
    /\ m \in setting.msgs
    /\ QueueOne(m) \/ ExpireOne(m)
    /\ UNCHANGED <<routeVars, modelVars>>

RoutedNext ==
    \/ RoutedStep
    \/ RestartAll
    \/ \E m \in Msgs : MessageStep(m)
    \/ \E m \in Models : OtherCall(m)
    \/ VerifyAll \/ NewDay

RoutedSpec == RoutedInit /\ [][RoutedNext]_routedVars

\* The dispatch's own awaits return: a call of an agent is raced against a timer, and the
\* requests to the providers are aborted after five seconds.
FairSpec == RoutedSpec /\ WF_routedVars(RoutedStep)

-----------------------------------------------------------------------------
(* Properties                                                               *)

\* On a machine without a card no subtask is ever put to a local model: not by the router,
\* not by a fallback from a cloud model that failed, not by an escalation.
NoLocalWithoutGpu ==
    ~setting.gpu => \A s \in Subtasks : model[s] # NoModel => ~Local(model[s])

totalVramMb(S) == SumFunction([s \in S |-> Registry[given[s]].vramMb])

\* The models the router gave and that run side by side fit on the card together, as it
\* was when they were given, whatever retries and fallbacks do meanwhile.
CardHolds ==
    totalVramMb({s \in Subtasks : sub[s].at = "call" /\ model[s] = given[s]}) <= budgetMb(card)

\* Retries, fallbacks and escalations come to an end whatever the agents answer.
DispatchEnds == <>(loop \in {"done", "lost"} \/ phase = "unrouted")
=============================================================================
