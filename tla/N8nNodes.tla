------------------------------- MODULE N8nNodes -------------------------------
(***************************************************************************)
(* The nodes of an n8n workflow as the builders of tools/architect make    *)
(* them: what validation, the risk score and the activation policy look    *)
(* at, and which fields of the item a node takes and gives when n8n runs   *)
(* it.  Of the fields, those one node makes for another are kept.          *)
(***************************************************************************)
EXTENDS Integers, Sequences

\* What a builder writes into the parameters of its nodes: the two addresses of
\* N8nRuntimeConfig that matter and its shared secret, the addresses among the inputs of
\* the request, and what else a person says in it (goal, prompt, keywords, path).
Texts == {"ollama", "mastra", "shared secret", "address", "words"}

\* What the validator and the risk score find in a text: legacy is http://localhost:3000,
\* docker is af-mongodb, unusable another error (an unbalanced expression, an unknown node),
\* secret a word like token or password, key 32 characters in a row, code eval and its like.
Words == {"plain http", "legacy", "docker", "unusable", "secret", "key", "code", "bearer"}

\* What a node gives when there is no item left for the next one.
NoItem == {"no item"}

TriggerKinds == {"webhook", "scheduleTrigger", "manualTrigger", "errorTrigger", "formTrigger",
                 "rssFeedReadTrigger", "telegramTrigger", "gmailTrigger"}

ForbiddenKinds == {"executeCommand"}

\* The service whose credential a node of the kind has to name.
Credential(kind) ==
    CASE kind \in {"telegram", "telegramTrigger"} -> {"telegram"}
      [] kind = "gmailTrigger" -> {"gmail"}
      [] OTHER -> {}

\* gives: the sets of fields it may turn the item into; keeps: it adds them to those that
\* came in; texts: those in its parameters; words: what is found in the builder's own code.
Node(kind) == [kind |-> kind, post |-> FALSE, texts |-> {}, words |-> {},
               takes |-> {}, gives |-> {{}}, keeps |-> FALSE]

Trigger(kind) == Node(kind)

codeNode(takes, gives) == [Node("code") EXCEPT !.takes = takes, !.gives = gives]

\* A code node that returns { ...$json, new fields }.
Extend(takes, gives) == [codeNode(takes, gives) EXCEPT !.keeps = TRUE]

\* Code with a word by which the risk score suspects a secret.
Suspect(node) == [node EXCEPT !.words = {"secret"}]

\* An address of the request, or what else it says, is written into the parameters.
Naming(node) == [node EXCEPT !.texts = @ \cup {"address"}]
Wording(node) == [node EXCEPT !.texts = @ \cup {"words"}]

\* An httpRequest gives what the server answers, nothing of the item it ran on.
Get(texts, takes, answer) ==
    [Node("httpRequest") EXCEPT !.texts = texts, !.takes = takes, !.gives = {answer}]
Post(texts, takes, answer) == [Get(texts, takes, answer) EXCEPT !.post = TRUE]

ollamaChatNode == Post({"ollama"}, {"ollamaRequest"}, {"message"})

\* With a systemPrompt the item itself is the user message.
ollamaSystemNode == Post({"ollama"}, {}, {"message"})

agentForgePostNode == Post({"mastra"}, {}, {})

telegramSendNode == [Node("telegram") EXCEPT !.takes = {"telegramMessage"}, !.gives = {{"ok"}}]

telegramTriggerNode == Trigger("telegramTrigger")
gmailTriggerNode == Trigger("gmailTrigger")

\* if, splitInBatches and respondToWebhook hand the item on.
Pass(kind, takes) == [Node(kind) EXCEPT !.takes = takes, !.keeps = TRUE]
Respond(takes) == Pass("respondToWebhook", takes)
If(takes) == [Pass("if", takes) EXCEPT !.gives = {{}, NoItem}]

NodeRecord ==
    [kind : STRING, post : BOOLEAN, texts : SUBSET Texts, words : SUBSET Words,
     takes : SUBSET STRING, gives : SUBSET SUBSET STRING, keeps : BOOLEAN]

-----------------------------------------------------------------------------
\* A workflow: its nodes and which of them a node's output goes to.
Flow == [nodes : Seq(NodeRecord), links : SUBSET (Nat \X Nat)]

Chain(nodes) == [nodes |-> nodes, links |-> {<<i, i + 1>> : i \in 1 .. Len(nodes) - 1}]

\* Mutant: code that has nothing to say returns an empty item.
ResultsOfAnything(node, item) ==
    {IF node.keeps THEN item \cup fields ELSE fields
       : fields \in {IF f = NoItem THEN {} ELSE f : f \in node.gives}}

\* What the next node gets after a node that ran on the item.
Results(node, item) ==
    {IF fields = NoItem THEN NoItem ELSE IF node.keeps THEN item \cup fields ELSE fields
       : fields \in node.gives}
=============================================================================
