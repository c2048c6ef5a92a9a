---------------------------- MODULE ArchitectTools ----------------------------
(***************************************************************************)
(* The tools the automation architect calls one by one: compose_workflow,  *)
(* deploy_automation, activate_automation, test_workflow, repair_workflow. *)
(* Several agents call them side by side and each await is a place where   *)
(* the others go on.  n8n keeps the workflows and runs those it is told    *)
(* to; automation_requests says whose they are.                            *)
(***************************************************************************)
EXTENDS GraphChecks

CONSTANTS
    Callers,        \* agents; each is also the automationId it draws when it gives none
    OldAuto,        \* a record without managedBy
    Workflows,      \* ids of n8n
    OldWorkflow,    \* the one OldAuto names
    None,           \* no id, no draft, nobody
    Catalog,        \* PATTERN_CATALOG
    UnknownPattern,
    Settings        \* what one behaviour is about

PatternIds == DOMAIN Catalog
Composable == {id \in PatternIds : Catalog[id].executable}
Draft == [flow : {Catalog[id].flow : id \in PatternIds}, edits : SUBSET Edits]

Autos == Callers \cup {OldAuto}

MAX_ATTEMPTS == 3

\* env: topology, registry and what requests say; ids, edits: what agents compose and do to
\* it; callers; known: the ids of n8n they name; tools, calls, runs: bounds of this model, the tools in
\* use, the calls of all agents and the executions of n8n.
Setting == [env : Environment, ids : (SUBSET PatternIds) \ {{}}, edits : SUBSET SUBSET Edits,
            callers : SUBSET Callers, known : SUBSET Workflows,
            tools : SUBSET {"deploy", "activate", "test", "repair"}, calls : Nat, runs : Nat]

ASSUME ToolsAssumption ==
    /\ \A id \in PatternIds : Catalog[id].flow \in Flow
    /\ IsFiniteSet(Callers)
    /\ OldWorkflow \in Workflows
    /\ OldAuto \notin Callers
    /\ None \notin Workflows \cup Autos \cup Draft
    /\ UnknownPattern \notin PatternIds
    /\ Settings \subseteq Setting

VARIABLES
    setting,        \* the member of Settings
    n8n,            \* workflow id -> what n8n has under it
    request,        \* automation -> its document in automation_requests
    repairs,        \* automation -> its repair_attempt events
    approved,       \* callers whose approvalToken a human has approved
    caller,         \* agent -> the tool it is in and that call's variables
    run             \* the latest execution of n8n

vars == <<setting, n8n, request, repairs, approved, caller, run>>

Steps == {"idle", "owner", "approval", "save", "record", "read", "allowed", "go", "mark", "readTest",
          "mayRun", "execute", "wait", "status", "write", "note"}
Statuses == {"draft_created", "tested", "active"}
Outcomes == {"passed", "failed", "manual_required", "blocked"}
Modes == {"auto", "after_approval", "mock", "manual", "real_credentials"}
Answers == Outcomes \cup {"none", "not composed", "invalid", "too risky", "unapproved", "refused",
                          "deployed", "activated", "stopped", "repaired"}

Workflow == [there : BOOLEAN, active : BOOLEAN, draft : Draft \cup {None},
             checked : Draft \cup {None}, by : Callers \cup {None}]
Document == [there : BOOLEAN, wf : Workflows \cup {None}, managed : BOOLEAN, score : Nat,
             status : Statuses, born : Nat, test : Outcomes \cup {"none"}]

\* draft: what the agent has; seen: what the call works on.
CallRecord == [at : Steps, calls : Nat, draft : Draft \cup {None}, seen : Draft \cup {None},
               wf : Workflows \cup {None}, auto : Autos \cup {None}, given : BOOLEAN,
               token : BOOLEAN, mode : Modes, score : Nat, outcome : Outcomes \cup {"none"},
               status : Statuses \cup {"none"}, answer : Answers]

Ready == [at |-> "idle", calls |-> 0, draft |-> None, seen |-> None, wf |-> None, auto |-> None,
          given |-> FALSE, token |-> FALSE, mode |-> "auto", score |-> 0, outcome |-> "none",
          status |-> "none", answer |-> "none"]

Env == setting.env

TypeOK ==
    /\ setting \in Settings
    /\ n8n \in [Workflows -> Workflow]
    /\ request \in [Autos -> Document]
    /\ repairs \in [Autos -> Nat]
    /\ approved \subseteq Callers
    /\ caller \in [Callers -> CallRecord]

Init ==
    /\ setting \in Settings
    /\ n8n = [w \in Workflows |->
                [there |-> w = OldWorkflow, active |-> w = OldWorkflow, by |-> None, checked |-> None,
                 draft |-> IF w = OldWorkflow
                             THEN [flow |-> Catalog[CHOOSE id \in setting.ids : TRUE].flow, edits |-> {}]
                             ELSE None]]
    /\ request = [a \in Autos |->
                    [there |-> a = OldAuto, wf |-> IF a = OldAuto THEN OldWorkflow ELSE None,
                     managed |-> FALSE, score |-> 0, status |-> "active", born |-> 0, test |-> "none"]]
    /\ repairs = [a \in Autos |-> 0]
    /\ approved = {}
    /\ caller = [c \in Callers |-> Ready]
    /\ run = [state |-> "none", draft |-> None, pending |-> {}, count |-> 0]

-----------------------------------------------------------------------------
\* A call ends: its variables are gone.
Rest(c, calls, word) == [Ready EXCEPT !.calls = calls, !.draft = caller[c].draft, !.answer = word]
Answer(c, word) == caller' = [caller EXCEPT ![c] = Rest(c, caller[c].calls, word)]
Goto(c, step) == caller' = [caller EXCEPT ![c].at = step]

\* A call of a tool: what it is refused at once, or its first step.
Begins(c, tool) ==
    /\ c \in setting.callers
    /\ tool \in setting.tools
    /\ caller[c].at = "idle"
    /\ MapThenSumSet(LAMBDA b : caller[b].calls, Callers) < setting.calls
Refuses(c, word) == caller' = [caller EXCEPT ![c] = Rest(c, caller[c].calls + 1, word)]
Call(c) == [caller[c] EXCEPT !.calls = @ + 1, !.answer = "none"]

\* compose_workflow, and what the agent does to its result.  told: the inputs it has.
Compose(c) ==
    /\ c \in setting.callers
    /\ caller[c].at = "idle"
    /\ caller[c].draft = None
    /\ \E id \in setting.ids \cup {UnknownPattern} :
         \E edits \in setting.edits, complete \in BOOLEAN :
           IF \/ id \notin Composable
              \/ Catalog[id].needs # {} /\ ~complete
             THEN Answer(c, "not composed")
             ELSE caller' = [caller EXCEPT ![c].draft = [flow |-> Catalog[id].flow, edits |-> edits],
                                           ![c].answer = "none"]
    /\ UNCHANGED <<setting, n8n, request, repairs, approved, run>>

\* The token of a caller's calls; a human approves it or never looks.
Approve(c) ==
    /\ c \in setting.callers \ approved
    /\ approved' = approved \cup {c}
    /\ UNCHANGED <<setting, n8n, request, repairs, caller, run>>

-----------------------------------------------------------------------------
\* deploy_automation up to its first await.  given: the call names the automation; else it
\* draws one, here at most one per agent.
Deploy(c) ==
    LET d == normalizeConnectionKeys(caller[c].draft)
        score == RiskScore(d, "running" \in d.edits, Env) IN
    /\ Begins(c, "deploy")
    /\ caller[c].draft # None
    /\ \/ \E lenient \in BOOLEAN : BlocksDeploy(d, Env, lenient) /\ Refuses(c, "invalid")
       \/ /\ ~BlocksDeploy(d, Env, TRUE)
          /\ \/ Verdict(score) = "block" /\ Refuses(c, "too risky")
             \/ Verdict(score) = "review" /\ Refuses(c, "unapproved")
       \/ /\ ~BlocksDeploy(d, Env, TRUE)
          /\ Verdict(score) # "block"
          /\ \E wf \in setting.known \cup {None}, auto \in Autos, given \in BOOLEAN :
               /\ ~given => auto = c /\ (wf = None => ~request[c].there)
               /\ caller' = [caller EXCEPT ![c] =
                    [Call(c) EXCEPT !.wf = wf, !.auto = auto, !.given = given, !.seen = d,
                       !.score = score, !.at = IF wf = None THEN "approval" ELSE "owner"]]
    /\ UNCHANGED <<setting, n8n, request, repairs, approved, run>>

Named(wf) == {a \in Autos : request[a].there /\ request[a].wf = wf}

DeployOwner(c) ==
    LET owners == Named(caller[c].wf)
        first == CHOOSE a \in owners : \A b \in owners : request[a].born <= request[b].born IN
    /\ caller[c].at = "owner"
    /\ IF owners = {} THEN Answer(c, "refused")
       ELSE IF ~request[first].managed \/ (caller[c].given /\ first # caller[c].auto)
         THEN Answer(c, "refused")
       ELSE caller' = [caller EXCEPT ![c].at = "approval", ![c].auto = first]
    /\ UNCHANGED <<setting, n8n, request, repairs, approved, run>>

DeployApproval(c) ==
    /\ caller[c].at = "approval"
    /\ IF Verdict(caller[c].score) = "review" /\ c \notin approved
         THEN Answer(c, "refused")
         ELSE Goto(c, "save")
    /\ UNCHANGED <<setting, n8n, request, repairs, approved, run>>

\* createWorkflow and updateWorkflow leave "active" out of what they send: a new workflow is
\* inactive and one that was active stays so.
DeploySave(c) ==
    LET d == [caller[c].seen EXCEPT !.edits = @ \ {"running"}] IN
    /\ caller[c].at = "save"
    /\ \/ /\ caller[c].wf # None
          /\ n8n[caller[c].wf].there
          /\ n8n' = [n8n EXCEPT ![caller[c].wf].draft = d]
          /\ Goto(c, "record")
       \/ /\ caller[c].wf = None
          /\ \E w \in {v \in Workflows : ~n8n[v].there} :
               /\ n8n' = [n8n EXCEPT ![w].there = TRUE, ![w].draft = d]
               /\ caller' = [caller EXCEPT ![c].at = "record", ![c].wf = w]
       \/ Answer(c, "failed") /\ n8n' = n8n
    /\ UNCHANGED <<setting, request, repairs, approved, run>>

\* The upsert; when it fails n8n has the workflow all the same.
DeployRecord(c) ==
    LET a == caller[c].auto
        born == IF request[a].there THEN request[a].born
                ELSE Cardinality({b \in Autos : request[b].there}) IN
    /\ caller[c].at = "record"
    /\ \/ /\ request' = [request EXCEPT ![a] =
               [@ EXCEPT !.there = TRUE, !.wf = caller[c].wf, !.managed = TRUE, !.born = born,
                         !.status = "draft_created", !.score = caller[c].score]]
          /\ Answer(c, "deployed")
       \/ Answer(c, "failed") /\ request' = request
    /\ UNCHANGED <<setting, n8n, repairs, approved, run>>

-----------------------------------------------------------------------------
\* activate_automation and test_workflow begin alike.
Find(c, tool, step, modes) ==
    /\ Begins(c, tool)
    /\ \E wf \in setting.known, auto \in Autos :
         \/ ~(auto \in Named(wf) /\ request[auto].managed) /\ Refuses(c, "refused")
         \/ /\ auto \in Named(wf) /\ request[auto].managed
            /\ \E token \in BOOLEAN, mode \in modes :
                 caller' = [caller EXCEPT ![c] =
                   [Call(c) EXCEPT !.wf = wf, !.auto = auto, !.token = token, !.mode = mode,
                                   !.score = request[auto].score, !.at = step]]
    /\ UNCHANGED <<setting, n8n, request, repairs, approved, run>>

Activate(c) == Find(c, "activate", "read", {"auto", "after_approval"})

ActivateRead(c) ==
    LET d == n8n[caller[c].wf].draft
        active == n8n[caller[c].wf].active
        score == RiskScore(d, active, Env)
        needed == ApprovalRequired(d, active, Env, caller[c].mode) IN
    /\ caller[c].at = "read"
    /\ \/ Answer(c, "failed")
       \/ ~ActivationValid(d, Env) /\ Answer(c, "refused")
       \/ Verdict(score) = "block" /\ Answer(c, "refused")
       \/ needed /\ ~caller[c].token /\ Answer(c, "refused")
       \/ /\ ActivationValid(d, Env) /\ Verdict(score) # "block"
          /\ needed => caller[c].token
          /\ caller' = [caller EXCEPT ![c].seen = d, ![c].at = IF needed THEN "allowed" ELSE "go"]
    /\ UNCHANGED <<setting, n8n, request, repairs, approved, run>>

\* Mutant: any token will do.
ActivateAnyToken(c) ==
    /\ caller[c].at = "allowed"
    /\ Goto(c, "go")
    /\ UNCHANGED <<setting, n8n, request, repairs, approved, run>>

ActivateApproval(c) ==
    /\ caller[c].at = "allowed"
    /\ IF c \in approved THEN Goto(c, "go") ELSE Answer(c, "refused")
    /\ UNCHANGED <<setting, n8n, request, repairs, approved, run>>

\* checked, by: history, what the activation had read and who made it.
ActivateGo(c) ==
    /\ caller[c].at = "go"
    /\ \/ /\ n8n' = [n8n EXCEPT ![caller[c].wf] =
                       [@ EXCEPT !.active = TRUE, !.checked = caller[c].seen, !.by = c]]
          /\ Goto(c, "mark")
       \/ Answer(c, "failed") /\ n8n' = n8n
    /\ UNCHANGED <<setting, request, repairs, approved, run>>

ActivateMark(c) ==
    /\ caller[c].at = "mark"
    /\ \/ request' = [request EXCEPT ![caller[c].auto].status = "active"] /\ Answer(c, "activated")
       \/ request' = request /\ Answer(c, "failed")
    /\ UNCHANGED <<setting, n8n, repairs, approved, run>>

-----------------------------------------------------------------------------
Test(c) == Find(c, "test", "readTest", {"mock", "manual", "real_credentials"})

\* The strict validation of what n8n has; the risk score is the one of the record.
TestRead(c) ==
    LET valid == StrictValid(n8n[caller[c].wf].draft, Env)
        real == caller[c].mode = "real_credentials"
        Ends(outcome) == caller' = [caller EXCEPT ![c].at = "status", ![c].outcome = outcome] IN
    /\ caller[c].at = "readTest"
    /\ \/ Answer(c, "failed")
       \/ caller[c].mode = "mock" /\ Ends(IF valid THEN "passed" ELSE "failed")
       \/ caller[c].mode = "manual" /\ Ends("manual_required")
       \/ real /\ (~valid \/ (caller[c].score >= 20 /\ ~caller[c].token)) /\ Ends("blocked")
       \/ real /\ valid /\ (caller[c].score < 20 \/ caller[c].token)
            /\ Goto(c, IF caller[c].token THEN "mayRun" ELSE "execute")
    /\ UNCHANGED <<setting, n8n, request, repairs, approved, run>>

TestApproval(c) ==
    /\ caller[c].at = "mayRun"
    /\ IF c \in approved THEN Goto(c, "execute") ELSE Answer(c, "refused")
    /\ UNCHANGED <<setting, n8n, request, repairs, approved, run>>

\* One item enters by each trigger.  One execution at a time, and as many as the setting has.
Starts(w) ==
    /\ run.state # "going"
    /\ run.count < setting.runs
    /\ LET first == Triggers(n8n[w].draft) IN
         run' = [state |-> IF first = {} THEN "error" ELSE "going", draft |-> n8n[w].draft,
                 count |-> run.count + 1,
                 pending |-> {[at |-> i, item |-> {}, from |-> NoNode] : i \in first}]

\* n8n runs an inactive workflow too; without /run the latest execution is looked at.
TestExecute(c) ==
    /\ caller[c].at = "execute"
    /\ \/ Starts(caller[c].wf) /\ Goto(c, "wait")
       \/ run' = run /\ Goto(c, "wait")
    /\ UNCHANGED <<setting, n8n, request, repairs, approved>>

\* The answer of /run, or after its timeout the latest execution as it is by then.
TestAnalyze(c) ==
    /\ caller[c].at = "wait"
    /\ caller' = [caller EXCEPT ![c].at = "status",
                                ![c].outcome = IF run.state = "ok" THEN "passed" ELSE "failed"]
    /\ UNCHANGED <<setting, n8n, request, repairs, approved, run>>

\* persistTestEvent: it reads the status and writes it back later; its errors are nobody's.
TestStatus(c) ==
    /\ caller[c].at = "status"
    /\ caller' = [caller EXCEPT ![c].at = "write",
         ![c].status = IF caller[c].outcome = "passed" /\ request[caller[c].auto].status # "active"
                         THEN "tested" ELSE request[caller[c].auto].status]
    /\ UNCHANGED <<setting, n8n, request, repairs, approved, run>>

TestWrite(c) ==
    /\ caller[c].at = "write"
    /\ \/ request' = [request EXCEPT ![caller[c].auto].status = caller[c].status,
                                     ![caller[c].auto].test = caller[c].outcome]
       \/ request' = request
    /\ Answer(c, caller[c].outcome)
    /\ UNCHANGED <<setting, n8n, repairs, approved, run>>

-----------------------------------------------------------------------------
\* repair_workflow: the attempts are counted, and later this one is noted.
Repair(c) ==
    /\ Begins(c, "repair")
    /\ caller[c].draft # None
    /\ \E auto \in Autos :
         IF repairs[auto] >= MAX_ATTEMPTS
           THEN Refuses(c, "stopped")
           ELSE caller' = [caller EXCEPT ![c] = [Call(c) EXCEPT !.auto = auto, !.at = "note"]]
    /\ UNCHANGED <<setting, n8n, request, repairs, approved, run>>

RepairNote(c) ==
    /\ caller[c].at = "note"
    /\ \/ /\ repairs' = [repairs EXCEPT ![caller[c].auto] = @ + 1]
          /\ caller' = [caller EXCEPT ![c] =
               [Rest(c, caller[c].calls, "repaired") EXCEPT !.draft = Repaired(@, Env)]]
       \/ repairs' = repairs /\ Answer(c, "failed")
    /\ UNCHANGED <<setting, n8n, request, approved, run>>

-----------------------------------------------------------------------------
\* n8n: the trigger of an active workflow.
Fire(w) ==
    /\ n8n[w].active
    /\ w # OldWorkflow
    /\ Triggers(n8n[w].draft) # {}
    /\ Starts(w)
    /\ UNCHANGED <<setting, n8n, request, repairs, approved, caller>>

Sources(d, i) == {link[1] : link \in {l \in Understood(d) : l[2] = i}}

\* A node runs once all that lead to it have given something.
RunNode ==
    LET d == run.draft IN
    /\ run.state = "going"
    /\ \E i \in DOMAIN Nodes(d) :
         LET mine == {p \in run.pending : p.at = i}
             node == Nodes(d)[i]
             item == UNION {p.item : p \in mine} IN
         /\ mine # {}
         /\ i \notin Triggers(d) => {p.from : p \in mine} = Sources(d, i)
         /\ \/ /\ node.kind \in {"httpRequest", "telegram"}
               /\ run' = [run EXCEPT !.state = "error", !.pending = {}]
            \/ /\ node.kind = "telegram" => "telegramMessage" \in item
               /\ \E result \in Results(node, item) :
                    LET left == (run.pending \ mine) \cup
                          IF result = NoItem THEN {}
                          ELSE {[at |-> link[2], item |-> result, from |-> i]
                                  : link \in {l \in Understood(d) : l[1] = i}} IN
                    run' = [run EXCEPT !.pending = left,
                                       !.state = IF left = {} THEN "ok" ELSE "going"]
    /\ UNCHANGED <<setting, n8n, request, repairs, approved, caller>>

Tool(c) ==
    \/ Compose(c) \/ Approve(c)
    \/ Deploy(c) \/ DeployOwner(c) \/ DeployApproval(c) \/ DeploySave(c) \/ DeployRecord(c)
    \/ Activate(c) \/ ActivateRead(c) \/ ActivateApproval(c) \/ ActivateGo(c) \/ ActivateMark(c)
    \/ Test(c) \/ TestRead(c) \/ TestApproval(c) \/ TestExecute(c) \/ TestAnalyze(c)
    \/ TestStatus(c) \/ TestWrite(c)
    \/ Repair(c) \/ RepairNote(c)

Next == (\E c \in Callers : Tool(c)) \/ (\E w \in Workflows : Fire(w)) \/ RunNode

Spec == Init /\ [][Next]_vars

-----------------------------------------------------------------------------
\* Properties.

\* What the checks may find in a text of the draft and not mind: a shared secret of 32
\* characters, and a plain http address; but that in an address only where the builder's
\* code has words of a secret itself.
Harmless(d, t) ==
    CASE t = "shared secret" -> {"key"}
      [] t = "words" /\ (\E i \in DOMAIN d.flow.nodes : d.flow.nodes[i].words # {}) -> {}
      [] OTHER -> {"plain http"}

\* Something in the request or the topology that went into the draft is not harmless.
Marked(d, env) ==
    \E i \in DOMAIN d.flow.nodes :
      \E t \in d.flow.nodes[i].texts : ~(env.says[t] \subseteq Harmless(d, t))

\* The builders, the validator and the risk score agree: what compose_workflow returns and
\* nobody edited is turned away by deploy_automation as invalid or too risky only for what
\* the request or the topology put into its parameters, never for what the builder wrote
\* itself, or when the call asks for credentials that the registry lacks.  Plain http in
\* addresses is not enough for that, however many there are; in the goal of a pattern whose
\* code speaks of tokens already (ai-scraper-to-crm) it is.
EveryPatternDeploys ==
    \A c \in Callers :
      LET d == caller[c].draft IN
      /\ caller[c].answer \in {"invalid", "too risky"}
      /\ d.edits = {}
      /\ ~Marked(d, Env)
      => caller[c].answer = "invalid" /\ MissingCredential(d, Env)

\* What that comes down to: when all that the texts say is harmless, the builders'
\* workflows have no error of a draft and nothing forbidden, and are not too risky.
Composed(id) == [flow |-> Catalog[id].flow, edits |-> {}]

Mild(t) == IF t = "shared secret" THEN {"key"} ELSE {"plain http"}
MildEnvironments ==
    {env \in [says : [Texts -> {{}, {"plain http"}, {"key"}}], has : {{}}] :
       \A t \in Texts : env.says[t] \subseteq Mild(t)}

CatalogDeploys ==
    \A id \in Composable, env \in MildEnvironments :
      ~Marked(Composed(id), env) =>
        /\ ~DraftErrors(Composed(id), env) /\ ~SecurityIssue(Composed(id), env)
        /\ Verdict(RiskScore(Composed(id), FALSE, env)) # "block"

\* The fields every item has that reaches a node, whatever way: Guaranteed narrows them from
\* all there are, and Fills says that they are that and are what the requests take.
Given(d, G, link) ==
    LET node == Nodes(d)[link[1]] IN
      {IF node.keeps THEN G[link[1]] \cup fields ELSE fields : fields \in node.gives \ {NoItem}}

Guaranteed(d) ==
    LET all == UNION {UNION Nodes(d)[i].gives : i \in DOMAIN Nodes(d)}
        after[k \in 0 .. Len(Nodes(d))] ==
          IF k = 0 THEN [i \in DOMAIN Nodes(d) |-> IF i \in Triggers(d) THEN {} ELSE all]
          ELSE [i \in DOMAIN Nodes(d) |->
                  {x \in after[k - 1][i] :
                     \A link \in Understood(d) :
                       link[2] = i => \A item \in Given(d, after[k - 1], link) : x \in item}]
    IN after[Len(Nodes(d))]

Fills(d, G) ==
    /\ \A i \in Triggers(d) : G[i] = {}
    /\ \A link \in Understood(d) : \A item \in Given(d, G, link) : G[link[2]] \subseteq item
    /\ \A i \in DOMAIN Nodes(d) : Nodes(d)[i].post => Nodes(d)[i].takes \subseteq G[i]

CatalogFills == \A id \in Composable : Fills(Composed(id), Guaranteed(Composed(id)))

\* What n8n executes is what compose_workflow made: nobody edited it.
UneditedRuns == \A s \in Settings : s.runs > 0 => s.edits \subseteq {{}}

\* A request whose body is an expression over a field of the item (the prompt for Ollama,
\* the lead for the CRM) is never sent without that field, whatever branch or answer the
\* execution took before it.
BodiesAreFilled ==
    \A p \in run.pending :
      LET node == Nodes(run.draft)[p.at] IN node.post => node.takes \subseteq p.item

\* A workflow the tools activated was, as the activation read it, valid for activation and
\* not too risky, and a human had approved it where the activation policy asks for that.
\* What a deployment has put there since passed its checks at least.
ActiveWasChecked ==
    \A w \in Workflows :
      LET d == n8n[w].checked IN
      n8n[w].active /\ n8n[w].by # None =>
        /\ ActivationValid(d, Env)
        /\ Verdict(RiskScore(d, FALSE, Env)) # "block"
        /\ ApprovalRequired(d, FALSE, Env, "auto") => n8n[w].by \in approved
        /\ ~BlocksDeploy(n8n[w].draft, Env, TRUE)
        /\ Verdict(RiskScore(n8n[w].draft, FALSE, Env)) # "block"

=============================================================================
