------------------------------- MODULE Patterns -------------------------------
(***************************************************************************)
(* tools/architect/builders and pattern-catalog.ts: the workflows the      *)
(* architect can compose, one definition for each builder, and the catalog *)
(* that says what each of them has to be told.                             *)
(***************************************************************************)
EXTENDS N8nNodes, TLC

buildErrorWorkflowOllamaTelegramMemory ==
    Chain(<<Trigger("errorTrigger"), codeNode({}, {{"workflowName"}}),
            Extend({}, {{"ollamaRequest"}}), ollamaChatNode,
            codeNode({"message", "workflowName"}, {{"telegramMessage"}}), agentForgePostNode,
            telegramSendNode>>)

buildRssDedupToMemoryTelegram ==
    Chain(<<Naming(Node("rssFeedRead")), Naming(codeNode({}, {{"title"}})),
            agentForgePostNode, Extend({"title"}, {{"telegramMessage"}, NoItem}),
            agentForgePostNode, telegramSendNode>>)

buildTelegramTaskTriageToAgentForgeQueue ==
    Chain(<<telegramTriggerNode, codeNode({}, {{"ollamaRequest", "rawText"}, NoItem}),
            ollamaChatNode, codeNode({"message", "rawText"}, {{"telegramMessage"}}),
            agentForgePostNode, telegramSendNode>>)

buildApprovalRequestToTelegram ==
    Chain(<<Trigger("webhook"), Suspect(codeNode({}, {{"approvalToken", "telegramMessage"}})),
            agentForgePostNode, telegramSendNode, Respond({"approvalToken"})>>)

buildTelegramApprovalRouter ==
    Chain(<<telegramTriggerNode,
            Suspect(codeNode({}, {{"approvalToken", "decision"}, NoItem})),
            agentForgePostNode,
            Suspect(codeNode({"approvalToken", "decision"}, {{"telegramMessage"}})),
            telegramSendNode>>)

buildOllamaModelHealthCheck ==
    Chain(<<Trigger("scheduleTrigger"), Get({"ollama"}, {}, {"models"}),
            codeNode({"models"}, {{"telegramMessage"}, NoItem}), telegramSendNode>>)

buildLocalModelQualityEvaluator ==
    Chain(<<Trigger("webhook"), codeNode({}, {{"ollamaRequest", "candidateModel"}, NoItem}),
            ollamaChatNode, codeNode({"message", "candidateModel"}, {{"ollamaRequest"}}),
            ollamaChatNode, codeNode({"message"}, {{"telegramMessage"}}), agentForgePostNode,
            telegramSendNode>>)

\* It has no trigger.
buildWorkflowDocumentation ==
    Chain(<<Wording(codeNode({}, {{"documentation"}})), agentForgePostNode>>)

buildDraftOnlyEmailAssistant ==
    Chain(<<gmailTriggerNode, codeNode({}, {{"from", "subject"}}),
            Extend({"from", "subject"}, {{"ollamaRequest"}}), ollamaChatNode,
            codeNode({"message", "from", "subject"}, {{"telegramMessage"}}),
            agentForgePostNode, telegramSendNode>>)

buildDailyStandup ==
    Chain(<<Trigger("scheduleTrigger"), Get({"mastra"}, {}, {"context"}),
            codeNode({}, {{"ollamaRequest"}}), ollamaChatNode, telegramSendNode>>)

\* Nor has this one.
buildRefusalPattern ==
    Chain(<<Wording(codeNode({}, {{"telegramMessage"}})), telegramSendNode>>)

buildWebhookOllamaJsonNormalizerToApi ==
    Chain(<<Wording(Trigger("webhook")), codeNode({}, {{"ollamaRequest", "rawPayload"}}),
            ollamaChatNode,
            codeNode({"message", "rawPayload"}, {{"normalized", "telegramMessage"}, {"telegramMessage"}}),
            agentForgePostNode, telegramSendNode, Respond({"normalized"})>>)

buildWebhookIdempotencyGuard ==
    Chain(<<Wording(Trigger("webhook")), codeNode({}, {{"idempotencyKey"}}), agentForgePostNode,
            Extend({"idempotencyKey"}, {{"skipped"}}), agentForgePostNode,
            Respond({"skipped", "idempotencyKey"})>>)

\* Without a question the usage goes the same way as a question.
buildTelegramMemorySearchOllamaAnswer ==
    Chain(<<telegramTriggerNode, codeNode({}, {{"query"}, {"telegramMessage"}, NoItem}),
            Get({"mastra"}, {"query"}, {"context"}), codeNode({"query"}, {{"ollamaRequest"}}),
            ollamaChatNode, codeNode({"message"}, {{"telegramMessage"}}), telegramSendNode>>)

buildFormLeadQualifierToCrm ==
    Chain(<<Trigger("formTrigger"), codeNode({}, {{"ollamaRequest", "rawLead"}}),
            ollamaChatNode, codeNode({"message", "rawLead"}, {{"telegramMessage"}}),
            agentForgePostNode, telegramSendNode>>)

\* No output leads back to the splitInBatches node.
buildBatchUrlResearchDigest ==
    Chain(<<Trigger("scheduleTrigger"), Naming(codeNode({}, {{"url"}})),
            Pass("splitInBatches", {}), Get({}, {"url"}, {"page"}),
            codeNode({"url"}, {{"ollamaRequest", "url"}}), ollamaChatNode,
            codeNode({"message", "url"}, {{"summary"}}),
            [Node("aggregate") EXCEPT !.gives = {{"researchItems"}}],
            codeNode({"researchItems"}, {{"telegramMessage"}}), telegramSendNode>>)

buildAgentForgeBacklogPrioritizer ==
    Chain(<<Trigger("scheduleTrigger"), Get({"mastra"}, {}, {"context"}),
            codeNode({}, {{"ollamaRequest"}}), ollamaChatNode,
            codeNode({"message"}, {{"telegramMessage"}}), agentForgePostNode,
            telegramSendNode>>)

buildTelegramToOllamaReply ==
    Chain(<<telegramTriggerNode, ollamaSystemNode, telegramSendNode>>)

buildTelegramModelRouter ==
    Chain(<<telegramTriggerNode, codeNode({}, {{"model"}}), ollamaSystemNode,
            telegramSendNode>>)

buildTelegramAutomationRequestToAgentForge ==
    Chain(<<telegramTriggerNode, agentForgePostNode, telegramSendNode>>)

buildRssOllamaClassifierToTelegram ==
    Chain(<<Naming(Trigger("rssFeedReadTrigger")), ollamaSystemNode, If({"classification"}),
            telegramSendNode>>)

buildCompetitorResearchToMemoryAndTelegram ==
    Chain(<<Trigger("webhook"), ollamaSystemNode, agentForgePostNode, telegramSendNode>>)

buildTelegramRememberToMemory ==
    Chain(<<telegramTriggerNode, agentForgePostNode, telegramSendNode>>)

buildDailyMemoryDigestToTelegram ==
    Chain(<<Trigger("scheduleTrigger"), Get({"mastra"}, {}, {"context"}), ollamaSystemNode,
            telegramSendNode>>)

buildN8nFailedExecutionExplainer ==
    Chain(<<Trigger("errorTrigger"), ollamaSystemNode, telegramSendNode>>)

buildLocalLlmWithGeminiFallback ==
    Chain(<<Trigger("webhook"), ollamaSystemNode, If({"success"}), Post({"mastra"}, {}, {})>>)

buildLeadWebhookOllamaExtractToCrm ==
    Chain(<<Trigger("webhook"), ollamaSystemNode, agentForgePostNode>>)

buildPromptModelComparisonBench ==
    [nodes |-> <<Trigger("webhook"), ollamaSystemNode, ollamaSystemNode, Pass("merge", {}),
                 telegramSendNode>>,
     links |-> {<<1, 2>>, <<1, 3>>, <<2, 4>>, <<3, 4>>, <<4, 5>>}]

buildHttpHealthMonitorToTelegram ==
    Chain(<<Trigger("scheduleTrigger"), Get({"address"}, {}, {"page"}),
            Wording(Naming(codeNode({}, {{"telegramMessage"}, NoItem}))), telegramSendNode>>)

buildMultiUrlMonitorToTelegram ==
    Chain(<<Trigger("scheduleTrigger"), Naming(codeNode({}, {{"url"}})),
            Get({}, {"url"}, {"page"}), Wording(codeNode({"url"}, {{"telegramMessage"}, NoItem})),
            telegramSendNode>>)

buildRssKeywordToTelegram ==
    Chain(<<Naming(Node("rssFeedRead")), Wording(Extend({}, {{"telegramMessage"}, NoItem})),
            telegramSendNode>>)

buildScheduledAgentForgeTask ==
    Chain(<<Trigger("scheduleTrigger"), Wording(codeNode({}, {{"taskType"}})),
            Post({"address"}, {}, {}), Wording(codeNode({}, {{"telegramMessage"}})),
            telegramSendNode>>)

buildScheduledHttpKeywordToTelegram ==
    Chain(<<Trigger("scheduleTrigger"), Get({"address"}, {}, {"page"}),
            Wording(Naming(codeNode({}, {{"telegramMessage"}, NoItem}))), telegramSendNode>>)

buildAiScraperToCrm ==
    [nodes |-> <<Trigger("scheduleTrigger"), Get({"address"}, {}, {"data"}),
                 [Node("html") EXCEPT !.takes = {"data"}, !.gives = {{"main_content"}}],
                 Suspect(Wording(codeNode({"main_content"}, {{"prompt"}}))), ollamaSystemNode,
                 codeNode({"message"}, {{"lead", "telegramMessage"}, NoItem}),
                 agentForgePostNode, telegramSendNode>>,
     links |-> {<<i, i + 1>> : i \in 1 .. 6} \cup {<<6, 8>>}]

\* A command without a prompt is sent to the queue like the others.
buildWebhookCommandRouterToAgentForge ==
    Chain(<<Wording(Trigger("webhook")), codeNode({}, {{"taskType"}, {"error"}}),
            Post({"address"}, {}, {}), Respond({"taskType"})>>)

buildWebhookLeadToAgentForgeCrm ==
    Chain(<<Wording(Trigger("webhook")), codeNode({}, {{"lead", "telegramMessage"}}),
            Post({"address"}, {"lead"}, {}), telegramSendNode, Respond({})>>)

\* What fails the token check goes to Telegram as well, without a message.
buildWebhookSecurityFilteredTelegram ==
    Chain(<<Wording(Trigger("webhook")),
            [Suspect(codeNode({}, {{"telegramMessage"}, {"error"}})) EXCEPT !.texts = {"shared secret"}],
            telegramSendNode, Respond({})>>)

buildWebhookValidateRespond ==
    Chain(<<Wording(Trigger("webhook")), codeNode({}, {{"payload"}, {"error"}}),
            Respond({})>>)

-----------------------------------------------------------------------------
\* needs: requiredInputs.
Entry(flow, needs) == [executable |-> TRUE, flow |-> flow, needs |-> needs]

Abstract == [executable |-> FALSE, flow |-> Chain(<<>>), needs |-> {}]


\* The first nine, each with a file of its own.
MonitorPatterns ==
       "rss-keyword-to-telegram" :>
         Entry(buildRssKeywordToTelegram, {"rssUrl", "keywords"})
    @@ "scheduled-http-keyword-to-telegram" :>
         Entry(buildScheduledHttpKeywordToTelegram, {"url", "keywords"})
    @@ "multi-url-monitor-to-telegram" :>
         Entry(buildMultiUrlMonitorToTelegram, {"urls", "keywords"})
    @@ "webhook-validate-respond" :>
         Entry(buildWebhookValidateRespond, {"path"})
    @@ "webhook-lead-to-agentforge-crm" :>
         Entry(buildWebhookLeadToAgentForgeCrm, {"path", "crmEndpoint"})
    @@ "scheduled-agentforge-task" :>
         Entry(buildScheduledAgentForgeTask, {"taskType", "prompt", "endpoint"})
    @@ "http-health-monitor-to-telegram" :>
         Entry(buildHttpHealthMonitorToTelegram, {"url"})
    @@ "webhook-command-router-to-agentforge" :>
         Entry(buildWebhookCommandRouterToAgentForge, {"path", "taskEndpoint"})
    @@ "webhook-security-filtered-telegram" :>
         Entry(buildWebhookSecurityFilteredTelegram, {"path"})

\* The short ones of extendedPatterns.ts.
ShortPatterns ==
       "telegram-to-ollama-reply" :>
         Entry(buildTelegramToOllamaReply, {})
    @@ "telegram-model-router" :>
         Entry(buildTelegramModelRouter, {})
    @@ "telegram-automation-request-to-agentforge" :>
         Entry(buildTelegramAutomationRequestToAgentForge, {})
    @@ "rss-ollama-classifier-to-telegram" :>
         Entry(buildRssOllamaClassifierToTelegram, {"rssUrl", "topics"})
    @@ "competitor-research-to-memory-and-telegram" :>
         Entry(buildCompetitorResearchToMemoryAndTelegram, {"urls"})
    @@ "telegram-remember-to-memory" :>
         Entry(buildTelegramRememberToMemory, {})
    @@ "daily-memory-digest-to-telegram" :>
         Entry(buildDailyMemoryDigestToTelegram, {})
    @@ "n8n-failed-execution-explainer" :>
         Entry(buildN8nFailedExecutionExplainer, {})
    @@ "local-llm-with-gemini-fallback" :>
         Entry(buildLocalLlmWithGeminiFallback, {"prompt"})
    @@ "lead-webhook-ollama-extract-to-crm" :>
         Entry(buildLeadWebhookOllamaExtractToCrm, {"path"})
    @@ "prompt-model-comparison-bench" :>
         Entry(buildPromptModelComparisonBench, {"prompt"})

\* advancedPatterns.ts.
AssistantPatterns ==
       "error-workflow-ollama-telegram-memory" :>
         Entry(buildErrorWorkflowOllamaTelegramMemory, {})
    @@ "rss-dedup-memory-telegram" :>
         Entry(buildRssDedupToMemoryTelegram, {"rssUrl"})
    @@ "telegram-task-triage-agentforge-queue" :>
         Entry(buildTelegramTaskTriageToAgentForgeQueue, {})
    @@ "approval-request-telegram" :>
         Entry(buildApprovalRequestToTelegram, {})
    @@ "telegram-approval-router" :>
         Entry(buildTelegramApprovalRouter, {})
    @@ "ollama-model-health-check" :>
         Entry(buildOllamaModelHealthCheck, {})
    @@ "local-model-quality-evaluator" :>
         Entry(buildLocalModelQualityEvaluator, {"prompt"})
    @@ "webhook-ollama-json-normalizer-api" :>
         Entry(buildWebhookOllamaJsonNormalizerToApi, {"path"})
    @@ "workflow-documentation" :>
         Entry(buildWorkflowDocumentation, {})

SafetyPatterns ==
       "draft-only-email-assistant" :>
         Entry(buildDraftOnlyEmailAssistant, {})
    @@ "agentforge-daily-standup" :>
         Entry(buildDailyStandup, {})
    @@ "automation-refusal-safety" :>
         Entry(buildRefusalPattern, {})

\* The long ones of extendedPatterns.ts.
GuardPatterns ==
       "webhook-idempotency-guard" :>
         Entry(buildWebhookIdempotencyGuard, {"path"})
    @@ "telegram-memory-search-ollama-answer" :>
         Entry(buildTelegramMemorySearchOllamaAnswer, {})
    @@ "form-lead-qualifier-to-crm" :>
         Entry(buildFormLeadQualifierToCrm, {})
    @@ "batch-url-research-digest" :>
         Entry(buildBatchUrlResearchDigest, {"urls"})
    @@ "agentforge-backlog-prioritizer" :>
         Entry(buildAgentForgeBacklogPrioritizer, {})

\* executable: false; their build returns {}.
AbstractPatterns ==
    [id \in { "execute-subworkflow-llm-json-normalizer", "llm-json-retry-guard",
             "cache-before-llm", "gemini-escalation-approval",
             "workflow-drift-detector"} |-> Abstract]

ScraperPatterns ==
       "ai-scraper-to-crm" :>
         Entry(buildAiScraperToCrm, {"url"})

PATTERN_CATALOG ==
    MonitorPatterns @@ ShortPatterns @@ AssistantPatterns @@ SafetyPatterns @@ GuardPatterns
      @@ AbstractPatterns @@ ScraperPatterns

\* getExecutablePatterns
Executable == {id \in DOMAIN PATTERN_CATALOG : PATTERN_CATALOG[id].executable}
=============================================================================
