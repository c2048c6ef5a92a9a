------------------------------ MODULE GraphChecks ------------------------------
(***************************************************************************)
(* What the tools of tools/architect find out about a workflow before n8n  *)
(* gets or runs it: normalization of its connections, the validator with   *)
(* its graph analysis and three profiles, the risk score, the activation   *)
(* policy and the deterministic repairs.                                   *)
(***************************************************************************)
EXTENDS N8nNodes, FiniteSetsExt

\* What an agent may have done to the JSON that compose_workflow returned.  byId: the
\* connections of the first node are under its id; stray: one leads to no node; cut: the
\* first is missing; command: an executeCommand node at the end; legacy: the first
\* httpRequest goes to http://localhost:3000; moved: the repair has replaced every such
\* address by that of Mastra, and af-mongodb; bare: credentials and chatId are missing;
\* byHand: the trigger is a manualTrigger; running: active is true.
Edits == {"byId", "stray", "cut", "command", "legacy", "moved", "bare", "byHand", "running"}

\* A draft d: d.flow is what the builder made, d.edits is among Edits.
NoNode == 0

\* says: what is found in the texts of the topology and of the request; has: the
\* credentials of the registry and the chatId of the environment.
Environment == [says : [Texts -> SUBSET Words], has : SUBSET {"telegram", "gmail", "chatId"}]

\* The first httpRequest.
Requests(d) == {i \in DOMAIN d.flow.nodes : d.flow.nodes[i].kind = "httpRequest"}
FirstRequest(d) == IF Requests(d) = {} THEN NoNode ELSE Min(Requests(d))

EditedNode(d, i) ==
    LET node == d.flow.nodes[i] IN
      IF "byHand" \in d.edits /\ node.kind \in TriggerKinds THEN Trigger("manualTrigger")
      ELSE IF "legacy" \in d.edits /\ i = FirstRequest(d)
        THEN [node EXCEPT !.texts = {}, !.words = {"legacy"}]
      ELSE node

Nodes(d) ==
    [i \in DOMAIN d.flow.nodes |-> EditedNode(d, i)]
      \o IF "command" \in d.edits THEN <<Node("executeCommand")>> ELSE <<>>

Links(d) ==
    LET last == Len(d.flow.nodes) IN
      (d.flow.links \ (IF "cut" \in d.edits THEN {<<1, 2>>} ELSE {}))
        \cup (IF "stray" \in d.edits THEN {<<1, NoNode>>} ELSE {})
        \cup (IF "command" \in d.edits THEN {<<last, last + 1>>} ELSE {})

\* normalizeConnectionKeys: the ids of the builders' nodes are unique.
normalizeConnectionKeys(d) == [d EXCEPT !.edits = @ \ {"byId"}]

\* What is found in a node's parameters.
Written(node, env) == node.words \cup UNION {env.says[t] : t \in node.texts}

Found(d, i, env) ==
    LET written == Written(Nodes(d)[i], env) IN
      IF "moved" \in d.edits
        THEN (written \ {"legacy", "docker"})
               \cup (IF "legacy" \in written THEN env.says["mastra"] ELSE {})
        ELSE written

-----------------------------------------------------------------------------
\* analyzeWorkflowGraph
Understood(d) ==
    {link \in Links(d) : link[2] \in DOMAIN Nodes(d) /\ ("byId" \in d.edits => link[1] # 1)}

Triggers(d) == {i \in DOMAIN Nodes(d) : Nodes(d)[i].kind \in TriggerKinds}
Executables(d) == DOMAIN Nodes(d) \ Triggers(d)

Reachable(d) ==
    LET near[k \in 0 .. Len(Nodes(d))] ==
          IF k = 0 THEN Triggers(d)
          ELSE LET before == near[k - 1] IN
               before \cup {link[2] : link \in {l \in Understood(d) : l[1] \in before}}
    IN near[Len(Nodes(d))]

Orphans(d) == Executables(d) \ Reachable(d)

\* The errors of validateWorkflow in every profile.
Malformed(d, env) ==
    \/ DOMAIN Nodes(d) = {}
    \/ \E i \in DOMAIN Nodes(d) : Found(d, i, env) \cap {"legacy", "docker", "unusable"} # {}
    \/ "byId" \in d.edits /\ \E link \in Links(d) : link[1] = 1
    \/ \E link \in Links(d) : link[2] \notin DOMAIN Nodes(d)

SecurityIssue(d, env) ==
    \E i \in DOMAIN Nodes(d) :
      \/ Nodes(d)[i].kind \in ForbiddenKinds
      \/ Nodes(d)[i].kind = "code" /\ "code" \in Found(d, i, env)

MissingCredential(d, env) ==
    \E i \in DOMAIN Nodes(d) :
      /\ Credential(Nodes(d)[i].kind) # {}
      /\ "bare" \in d.edits \/ ~(Credential(Nodes(d)[i].kind) \subseteq env.has)

MissingConfig(d, env) ==
    /\ \E i \in DOMAIN Nodes(d) : Nodes(d)[i].kind = "telegram"
    /\ "bare" \in d.edits \/ "chatId" \notin env.has

DraftErrors(d, env) == Malformed(d, env) \/ (Cardinality(Executables(d)) > 1 /\ Links(d) = {})

StrictValid(d, env) ==
    /\ ~Malformed(d, env)
    /\ Orphans(d) = {}
    /\ ~SecurityIssue(d, env)
    /\ ~MissingCredential(d, env)
    /\ ~MissingConfig(d, env)

ActivationValid(d, env) ==
    /\ StrictValid(d, env)
    /\ \E i \in Triggers(d) : Nodes(d)[i].kind # "manualTrigger"

\* Mutant: a deployment asks for what an activation asks for.
BlocksDeployAsActivation(d, env, allowMissing) ==
    ~StrictValid(d, env) /\ (allowMissing => ~MissingCredential(d, env))

\* blocksDeploy of deploy_automation.
BlocksDeploy(d, env, allowMissing) ==
    \/ DraftErrors(d, env)
    \/ SecurityIssue(d, env)
    \/ ~allowMissing /\ MissingCredential(d, env)

-----------------------------------------------------------------------------
\* analyzeWorkflow: its findings by severity.  In code every pattern that matches is one.
\* Its cap of 100 is past both thresholds.
Criticals(d, env) ==
    {i \in DOMAIN Nodes(d) : Nodes(d)[i].kind \in ForbiddenKinds}
      \cup {i \in DOMAIN Nodes(d) : "bearer" \in Found(d, i, env)}
Suspects(d, env) ==
    {match \in (DOMAIN Nodes(d)) \X {"secret", "key", "code", "bearer"} :
       Nodes(d)[match[1]].kind = "code" /\ match[2] \in Found(d, match[1], env)}
PlainRequests(d, env) == {i \in DOMAIN Nodes(d) : "plain http" \in Found(d, i, env)}
OpenWebhooks(d) == {i \in DOMAIN Nodes(d) : Nodes(d)[i].kind = "webhook"}

RiskScore(d, active, env) ==
    80 * Cardinality(Criticals(d, env))
      + 30 * Cardinality(Suspects(d, env))
      + 15 * (Cardinality(PlainRequests(d, env)) + Cardinality(OpenWebhooks(d)))
      + (IF active THEN 15 ELSE 0)
      + (IF Triggers(d) = {} THEN 10 ELSE 0)

Verdict(score) == IF score >= 80 THEN "block" ELSE IF score >= 20 THEN "review" ELSE "approve"

\* evaluateActivationPolicy: the webhooks of the builders have no authentication.
ApprovalRequired(d, active, env, mode) ==
    \/ mode = "after_approval"
    \/ RiskScore(d, active, env) >= 20
    \/ \E i \in DOMAIN Nodes(d) : Nodes(d)[i].post \/ Nodes(d)[i].kind = "webhook"

\* applyRepairs: the nodes get the credentials and chatId there are, and other addresses.
Repaired(d, env) ==
    LET old == \E i \in DOMAIN Nodes(d) : Found(d, i, env) \cap {"legacy", "docker"} # {} IN
    [d EXCEPT !.edits = (@ \ {"running", "byId", "bare"}) \cup IF old THEN {"moved"} ELSE {}]
=============================================================================
