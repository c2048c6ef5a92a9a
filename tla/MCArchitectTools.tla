---------------------------- MODULE MCArchitectTools ----------------------------
(***************************************************************************)
(* Model checking ArchitectTools: one agent takes each pattern of the      *)
(* catalog through a deployment and its activation or test in each         *)
(* topology; one agent has edited its JSON; two agents share workflows.    *)
(***************************************************************************)
EXTENDS ArchitectTools, Patterns

CONSTANTS a1, a2, w1, w2, w3

Perms == Permutations(Callers)

Everything == {"telegram", "gmail", "chatId"}

\* What is found in texts: nothing, a plain http address in some, other words in one.
Nothing == [t \in Texts |-> {}]
Plain(texts) == [t \in Texts |-> IF t \in texts THEN {"plain http"} ELSE {}]
With(t, words) == [Nothing EXCEPT ![t] = words]

Sayings ==
    {Nothing, Plain({"ollama", "mastra"}), Plain(Texts),
     [Plain({"ollama", "mastra", "address"}) EXCEPT !["shared secret"] = {"key"}],
     With("mastra", {"legacy"}), With("words", {"secret"})}

EachPattern ==
    [env : [says : Sayings, has : {Everything}]
             \cup [says : {Plain({"ollama", "mastra", "address"})}, has : {{}}],
     ids : {{id} : id \in PatternIds}, edits : {{{}}}, callers : {{a1}, {a2}}, known : {{w2}},
     tools : {{"deploy", "activate", "test"}}, calls : {2}, runs : {1}]

Edited ==
    [env : [says : {Plain({"ollama", "mastra", "address"})}, has : {Everything, {"telegram"}}],
     ids : {{"http-health-monitor-to-telegram"}, {"approval-request-telegram"}},
     edits : {{e} : e \in {f \in SUBSET Edits : Cardinality(f) \in 1 .. 2}},
     callers : {{a1}, {a2}}, known : {{w2}}, tools : {{"deploy", "activate", "repair"}},
     calls : {2}, runs : {0}]

Shared ==
    [env : {[says |-> Nothing, has |-> Everything]},
     ids : {{"http-health-monitor-to-telegram", "webhook-validate-respond"}},
     edits : {{{}}}, callers : {{a1, a2}}, known : {{w2}},
     tools : {{"deploy", "activate"}}, calls : {3}, runs : {0}]

Tested ==
    [env : {[says |-> Nothing, has |-> Everything]}, ids : {{"webhook-validate-respond"}},
     edits : {{{}}}, callers : {{a1, a2}}, known : {{w2}}, tools : {{"deploy", "test"}},
     calls : {3}, runs : {1}]

Repairing ==
    [env : {[says |-> Nothing, has |-> Everything]}, ids : {{"http-health-monitor-to-telegram"}},
     edits : {{{"cut"}}}, callers : {{a1, a2}}, known : {{w2}}, tools : {{"repair"}},
     calls : {6}, runs : {0}]

\* The request itself names old addresses: the repair replaces them, unless Mastra's is one.
Readdressed ==
    [env : {[says |-> [With("address", {"legacy", "docker"}) EXCEPT !["mastra"] = m],
             has |-> Everything] : m \in {{}, {"legacy"}}},
     ids : {{"http-health-monitor-to-telegram"}}, edits : {{{}}}, callers : {{a1}},
     known : {{w2}}, tools : {{"deploy", "activate", "repair"}}, calls : {3}, runs : {0}]

AllSettings == EachPattern \cup Edited \cup Shared \cup Tested \cup Repairing
                 \cup Readdressed

\* What the theorems about EveryPatternDeploys and BodiesAreFilled ask of the catalog, in
\* every topology there is, and of the settings.
ASSUME CatalogFacts == CatalogDeploys /\ CatalogFills /\ UneditedRuns
=============================================================================
