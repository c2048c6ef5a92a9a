------------------------------ MODULE GoldenPath ------------------------------
(***************************************************************************)
(* services/automation-golden-path.ts: what executeAutomationGoldenPath    *)
(* does with one request: check, deploy into n8n as an inactive draft,     *)
(* test, repair and deploy again, activate.  Executions run side by side,  *)
(* and each await is a place where the others go on.  n8n has the          *)
(* workflows, the collection automation_requests says whose they are.      *)
(***************************************************************************)
EXTENDS WorkflowChecks, FiniteSets

CONSTANTS
    Runs,           \* executions; each is also the automationId it draws when it has none
    Old,            \* automations from before Mastra managed any: records without managedBy
    Workflows,      \* ids of n8n
    NoWorkflow,     \* no id, and no automation
    Names,
    OldWorkflow,    \* old workflow id -> its name, flow and whether it is active
    OldRecord,      \* old automation -> the old workflow it names
    Inputs          \* execution -> what it may be asked for (AutomationGoldenPathInput)

MaxRepairs == 3

Autos == Runs \cup Old

Request == [flow : SUBSET Flaws, name : Names, wf : Workflows \cup {NoWorkflow},
            auto : Autos \cup {NoWorkflow}, activate : BOOLEAN, token : BOOLEAN, complete : BOOLEAN]

ASSUME PathAssumption ==
    /\ NoWorkflow \notin Workflows \cup Autos
    /\ Runs \cap Old = {}
    /\ IsFiniteSet(Autos)
    /\ Inputs \in [Runs -> SUBSET Request]
    /\ DOMAIN OldWorkflow \subseteq Workflows
    /\ \A w \in DOMAIN OldWorkflow :
         OldWorkflow[w] \in [name : Names, flow : SUBSET Flaws, active : BOOLEAN]
    /\ OldRecord \in [Old -> DOMAIN OldWorkflow]

VARIABLES
    n8n,            \* workflow id -> what n8n has under it
    request,        \* automation -> its document in automation_requests
    approved,       \* executions whose approvalToken a human has approved
    input,          \* execution -> what it was asked for
    path            \* execution -> its next step and local variables

n8nVars == <<n8n, request>>
pathVars == <<n8n, request, approved, input, path>>

Steps == {"idle", "prepare", "find", "match", "owner", "save", "record", "fetch", "test",
          "repair", "manual", "gate", "activate", "activated", "mark", "sync", "write", "end"}
Statuses == {"draft_created", "tested", "active", "manual_review_required"}
Outcomes == {"none", "blocked", "manual_review_required", "tested", "active", "refused"}

Asks == {asked \in [Runs -> UNION {Inputs[j] : j \in Runs}] : \A j \in Runs : asked[j] \in Inputs[j]}

\* by: history, the execution that saved it last.
Stored == [there : BOOLEAN, name : Names \cup {NoWorkflow}, flow : SUBSET Flaws,
           active : BOOLEAN, by : Runs \cup {NoWorkflow}]
Document == [there : BOOLEAN, wf : Workflows \cup {NoWorkflow}, managed : BOOLEAN,
             status : Statuses, test : {"none", "passed", "failed"}, born : Nat]
Locals == [at : Steps, wf : Workflows \cup {NoWorkflow}, auto : Autos, target : Autos,
           flow : SUBSET Flaws, active : BOOLEAN, attempts : 0 .. MaxRepairs, tested : BOOLEAN,
           seen : Statuses, next : Outcomes]

PathOK ==
    /\ n8n \in [Workflows -> Stored]
    /\ request \in [Autos -> Document]
    /\ approved \subseteq Runs
    /\ input \in Asks
    /\ path \in [Runs -> Locals]

Fresh(j, step, outcome) ==
    [at |-> step, wf |-> NoWorkflow, auto |-> j, target |-> j, flow |-> {}, active |-> FALSE,
     attempts |-> 0, tested |-> FALSE, seen |-> "draft_created", next |-> outcome]

InitPath ==
    /\ n8n = [w \in Workflows |->
                IF w \in DOMAIN OldWorkflow
                THEN [there |-> TRUE, name |-> OldWorkflow[w].name,
                      flow |-> OldWorkflow[w].flow, active |-> OldWorkflow[w].active,
                      by |-> NoWorkflow]
                ELSE [there |-> FALSE, name |-> NoWorkflow, flow |-> {}, active |-> FALSE,
                      by |-> NoWorkflow]]
    /\ request = [a \in Autos |->
                    [there |-> a \in Old, wf |-> IF a \in Old THEN OldRecord[a] ELSE NoWorkflow,
                     managed |-> FALSE, status |-> "draft_created", test |-> "none", born |-> 0]]
    /\ approved = {}
    /\ input \in Asks
    /\ path = [j \in Runs |-> Fresh(j, "idle", "none")]

-----------------------------------------------------------------------------
Owners(w) == {a \in Autos : request[a].there /\ request[a].wf = w}

\* findOne({ n8nWorkflowId }, { sort: { createdAt: 1 } })
Owner(w) == CHOOSE a \in Owners(w) : \A b \in Owners(w) : request[a].born <= request[b].born

Managed(w) == Owners(w) # {} /\ request[Owner(w)].managed

At(j, step) == path[j].at = step
Go(j, step) == path' = [path EXCEPT ![j].at = step]
\* It returns the outcome, and its local variables are gone.
End(j, outcome) == path' = [path EXCEPT ![j] = Fresh(j, "end", outcome)]
Asked == UNCHANGED <<approved, input>>

\* startAutomationJob: the automation that owns the workflow, or a new one.
AutomationOf(j, in) ==
    IF in.auto # NoWorkflow THEN in.auto
    ELSE IF in.wf # NoWorkflow /\ Managed(in.wf) THEN Owner(in.wf) ELSE j

\* blocksDraftDeploy
BlocksDraft(flow, in) == DraftErrors(flow) # {} \/ (in.complete /\ "noCredential" \in flow)

Denied(flow, in) ==
    \/ RiskVerdict(flow, FALSE) = "block"
    \/ RiskVerdict(flow, FALSE) = "review" /\ ~in.token

\* repairDraftBeforeDeploy: one try, which counts when it changed anything.
DraftOf(in) == IF BlocksDraft(in.flow, in) THEN Repaired(in.flow) ELSE in.flow

Prepare(j) ==
    /\ At(j, "prepare")
    /\ LET draft == DraftOf(input[j]) IN
         IF BlocksDraft(draft, input[j]) \/ Denied(draft, input[j])
         THEN End(j, "blocked")
         ELSE path' = [path EXCEPT
                ![j].at = IF input[j].wf = NoWorkflow THEN "find" ELSE "owner",
                ![j].flow = draft,
                ![j].attempts = IF draft # input[j].flow THEN 1 ELSE 0]
    /\ Asked
    /\ UNCHANGED n8nVars

\* deployWorkflow without an id: n8n.listWorkflows and the first of the same name.
Find(j) ==
    /\ At(j, "find")
    /\ LET matches == {w \in Workflows : n8n[w].there /\ n8n[w].name = input[j].name} IN
         IF matches = {} THEN Go(j, "save")
         ELSE \E w \in matches : path' = [path EXCEPT ![j].at = "match", ![j].wf = w]
    /\ Asked
    /\ UNCHANGED n8nVars

Refused(j) ==
    LET w == path[j].wf IN
    IF Owners(w) = {} THEN At(j, "match") ELSE ~request[Owner(w)].managed

\* Mutant: the owner of a workflow that was given by its id is not taken over.
CheckOwnerAdoptsNobody(j) ==
    /\ path[j].at \in {"match", "owner"}
    /\ IF Refused(j)
       THEN End(j, "blocked")
       ELSE path' = [path EXCEPT ![j].at = "save", ![j].target = path[j].auto]
    /\ Asked
    /\ UNCHANGED n8nVars

\* Whoever owns the workflow must be managed, one that was found by name must have an
\* owner, and the owner's automationId is taken over.
CheckOwner(j) ==
    /\ path[j].at \in {"match", "owner"}
    /\ IF Refused(j)
       THEN End(j, "blocked")
       ELSE path' = [path EXCEPT
              ![j].at = "save",
              ![j].target = IF Owners(path[j].wf) = {} THEN path[j].auto
                            ELSE Owner(path[j].wf)]
    /\ Asked
    /\ UNCHANGED n8nVars

Unapproved(j) ==
    RiskVerdict(path[j].flow, FALSE) = "review" /\ input[j].token /\ j \notin approved

\* updateWorkflow of a workflow n8n has, which strips active, or createWorkflow under an
\* unused id.
Targets(j) ==
    IF path[j].wf = NoWorkflow THEN {w \in Workflows : ~n8n[w].there}
    ELSE {w \in {path[j].wf} : n8n[w].there}

Saved(j, w) ==
    [n8n EXCEPT ![w] = [there |-> TRUE, name |-> input[j].name, flow |-> path[j].flow,
                        active |-> @.active, by |-> j]]

Save(j) ==
    /\ At(j, "save")
    /\ IF Unapproved(j) \/ Targets(j) = {}
       THEN End(j, "blocked") /\ UNCHANGED n8n
       ELSE \E w \in Targets(j) :
            /\ n8n' = Saved(j, w)
            /\ path' = [path EXCEPT ![j].at = "record", ![j].wf = w]
    /\ Asked
    /\ UNCHANGED request

\* The upsert of the record; lastTest of an earlier execution stays in it.
Record(j) ==
    /\ At(j, "record")
    /\ LET a == path[j].target IN
       request' = [request EXCEPT
         ![a].there = TRUE, ![a].wf = path[j].wf, ![a].managed = TRUE,
         ![a].status = "draft_created",
         ![a].born = IF request[a].there THEN @ ELSE Cardinality({b \in Autos : request[b].there})]
    /\ Go(j, "fetch")
    /\ Asked
    /\ UNCHANGED n8n

\* The first deployment goes on with the owner's automation and a sync; a repair keeps
\* the automation it had and goes on with its test.
Fetch(j) ==
    /\ At(j, "fetch")
    /\ path' = [path EXCEPT
         ![j].at = IF path[j].tested THEN "test" ELSE "sync",
         ![j].auto = IF path[j].tested THEN @ ELSE path[j].target,
         ![j].flow = n8n[path[j].wf].flow, ![j].active = n8n[path[j].wf].active]
    /\ Asked
    /\ UNCHANGED n8nVars

-----------------------------------------------------------------------------
\* syncAutomationStatus: record and workflow are read in turn and the status is computed
\* from both; the write is to the first record that names the workflow.
SyncRead(j) ==
    /\ At(j, "sync")
    /\ LET doc == request[path[j].auto] IN
       path' = [path EXCEPT
         ![j].at = "write",
         ![j].seen = IF n8n[path[j].wf].active THEN "active"
                     ELSE IF doc.status = "manual_review_required" THEN doc.status
                     ELSE IF doc.test = "passed" \/ doc.status = "tested" THEN "tested"
                     ELSE "draft_created"]
    /\ Asked
    /\ UNCHANGED n8nVars

SyncWrite(j) ==
    /\ At(j, "write")
    /\ request' = IF Owners(path[j].wf) = {} THEN request
                  ELSE [request EXCEPT ![Owner(path[j].wf)].status = path[j].seen]
    /\ IF path[j].next = "none"
       THEN Go(j, "test")
       ELSE End(j, path[j].next)
    /\ Asked
    /\ UNCHANGED n8n

AfterTest(j, passed) ==
    IF passed THEN IF input[j].activate THEN "gate" ELSE "mark"
    ELSE IF path[j].attempts < MaxRepairs THEN "repair" ELSE "manual"

\* runMockTest: strict validation of the local copy.
MockTest(j) ==
    /\ At(j, "test")
    /\ LET passed == StrictValid(path[j].flow) IN
       /\ request' = [request EXCEPT ![path[j].auto].test = IF passed THEN "passed" ELSE "failed"]
       /\ path' = [path EXCEPT ![j].at = AfterTest(j, passed), ![j].tested = TRUE]
    /\ Asked
    /\ UNCHANGED n8n

\* Mutant: the risk is not looked at again.
UndeployableByErrors(j, flow) == DraftErrors(flow) # {}

Undeployable(j, flow) == DraftErrors(flow) # {} \/ Denied(flow, input[j])

\* Mutant: the attempts are not counted, and what has no repair is tested again.
RepairFlowUncounted(j) ==
    /\ At(j, "repair")
    /\ LET flow == Repaired(path[j].flow) IN
       IF ~Repairable(path[j].flow, path[j].active)
       THEN Go(j, "test")
       ELSE path' = [path EXCEPT
              ![j].at = IF Undeployable(j, flow) THEN "test" ELSE "owner",
              ![j].flow = flow, ![j].active = FALSE]
    /\ Asked
    /\ UNCHANGED n8nVars

\* repairAndRedeploy and the loop around it: a repaired workflow that may not be deployed
\* is tested all the same.
RepairFlow(j) ==
    /\ At(j, "repair")
    /\ LET flow == Repaired(path[j].flow) IN
       IF ~Repairable(path[j].flow, path[j].active)
       THEN path' = [path EXCEPT ![j].at = "manual", ![j].attempts = @ + 1]
       ELSE path' = [path EXCEPT
              ![j].at = IF Undeployable(j, flow) THEN "test" ELSE "owner",
              ![j].attempts = @ + 1, ![j].flow = flow, ![j].active = FALSE]
    /\ Asked
    /\ UNCHANGED n8nVars

\* markAutomationStatus
Marked(j, status) ==
    request' = IF ~request[path[j].auto].there THEN request
               ELSE [request EXCEPT ![path[j].auto].status = status,
                                    ![path[j].auto].wf = path[j].wf]

MarkManual(j) ==
    /\ At(j, "manual")
    /\ Marked(j, "manual_review_required")
    /\ End(j, "manual_review_required")
    /\ Asked
    /\ UNCHANGED n8n

MarkTested(j) ==
    /\ At(j, "mark")
    /\ Marked(j, "tested")
    /\ path' = [path EXCEPT ![j].at = "sync", ![j].next = "tested"]
    /\ Asked
    /\ UNCHANGED n8n

\* activateIfAllowed up to n8n.activateWorkflow
MayActivate(j) ==
    LET held == n8n[path[j].wf] IN
    /\ request[path[j].auto].there /\ request[path[j].auto].managed
    /\ ActivationValid(held.flow)
    /\ RiskVerdict(held.flow, held.active) # "block"
    /\ ActivationReasons(held.flow, held.active) => input[j].token
    /\ input[j].token => j \in approved

Gate(j) ==
    /\ At(j, "gate")
    /\ path' = IF MayActivate(j) THEN [path EXCEPT ![j].at = "activate"]
               ELSE [path EXCEPT ![j].at = "sync", ![j].next = "refused"]
    /\ Asked
    /\ UNCHANGED n8nVars

Activate(j) ==
    /\ At(j, "activate")
    /\ n8n' = [n8n EXCEPT ![path[j].wf].active = TRUE]
    /\ Go(j, "activated")
    /\ Asked
    /\ UNCHANGED request

Activated(j) ==
    /\ At(j, "activated")
    /\ request' = [request EXCEPT ![path[j].auto].status = "active"]
    /\ path' = [path EXCEPT ![j].at = "sync", ![j].next = "active"]
    /\ Asked
    /\ UNCHANGED n8n

PathStep(j) ==
    \/ Prepare(j) \/ Find(j) \/ CheckOwner(j) \/ Save(j) \/ Record(j) \/ Fetch(j)
    \/ SyncRead(j) \/ SyncWrite(j) \/ MockTest(j) \/ RepairFlow(j)
    \/ MarkManual(j) \/ MarkTested(j) \/ Gate(j) \/ Activate(j) \/ Activated(j)

-----------------------------------------------------------------------------
Executing(j) == path[j].at \notin {"idle", "end"}

\* A check of the runtime says no, or a call of n8n or of the database throws: the catch
\* reports blocked.
Throws(j) ==
    /\ Executing(j)
    /\ End(j, "blocked")
    /\ Asked
    /\ UNCHANGED n8nVars

\* n8n has done what it was told when its answer times out.
AnswerLost(j) ==
    /\ \/ /\ At(j, "save") /\ ~Unapproved(j)
          /\ \E w \in Targets(j) : n8n' = Saved(j, w)
       \/ /\ At(j, "activate")
          /\ n8n' = [n8n EXCEPT ![path[j].wf].active = TRUE]
    /\ End(j, "blocked")
    /\ Asked
    /\ UNCHANGED request

\* system_request_approval and the human who answers it
Approve(j) ==
    /\ input[j].token
    /\ j \notin approved
    /\ approved' = approved \cup {j}
    /\ UNCHANGED <<n8n, request, input, path>>
=============================================================================
