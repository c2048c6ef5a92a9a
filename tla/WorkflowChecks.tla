---------------------------- MODULE WorkflowChecks ----------------------------
(***************************************************************************)
(* What the automation code finds out about an n8n workflow: the validator *)
(* with its three profiles, the risk score and the deterministic repairs.  *)
(* A workflow is the set of its flaws, one for each class of findings that *)
(* these functions treat differently.                                      *)
(***************************************************************************)
EXTENDS Integers

CONSTANTS
    ChatIdKnown,    \* N8N_TELEGRAM_CHAT_ID is set
    MastraUrlPlain  \* the API address for n8n is http and not a local one

ASSUME ChecksAssumption == {ChatIdKnown, MastraUrlPlain} \subseteq BOOLEAN

\* structure: errors no repair removes; legacyUrl: http://localhost:3000; noCredential: one
\* the registry has not, for the others are put in first; sendsData: nodes that may write
\* or send data outside.
Flaws == {"structure", "legacyUrl", "forbidden", "noCredential", "noChatId", "orphan",
          "manualOnly", "openWebhook", "plainHttp", "riskyCode", "sendsData"}

\* validateWorkflow, profile draft: its errors and security issues.
DraftErrors(flow) == flow \cap {"structure", "legacyUrl", "forbidden"}

StrictValid(flow) ==
    flow \cap {"structure", "legacyUrl", "forbidden", "noCredential", "noChatId", "orphan"} = {}

ActivationValid(flow) == StrictValid(flow) /\ "manualOnly" \notin flow

Points(flaw, flow, points) == IF flaw \in flow THEN points ELSE 0

\* analyzeWorkflow, without the points of malformed nodes; a workflow that is active counts.
RiskScore(flow, active) ==
    Points("forbidden", flow, 80) + Points("riskyCode", flow, 30) + Points("plainHttp", flow, 15)
      + Points("openWebhook", flow, 15) + (IF active THEN 15 ELSE 0)

Verdict(score) == IF score >= 80 THEN "block" ELSE IF score >= 20 THEN "review" ELSE "approve"

RiskVerdict(flow, active) == Verdict(RiskScore(flow, active))

ActivationReasons(flow, active) ==
    RiskScore(flow, active) >= 20 \/ flow \cap {"openWebhook", "sendsData"} # {}

\* applyRepairs; it also sets active to false, which is a change of its own.
Repaired(flow) ==
    (flow \ ({"legacyUrl"} \cup (IF ChatIdKnown THEN {"noChatId"} ELSE {})))
      \cup (IF "legacyUrl" \in flow /\ MastraUrlPlain THEN {"plainHttp"} ELSE {})

Repairable(flow, active) == active \/ Repaired(flow) # flow
=============================================================================
