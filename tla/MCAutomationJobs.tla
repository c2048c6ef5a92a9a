---------------------------- MODULE MCAutomationJobs ----------------------------
EXTENDS AutomationJobs

Ask(flow, wf, activate, token) ==
    [flow |-> flow, name |-> "n", wf |-> wf, auto |-> NoWorkflow, activate |-> activate,
     token |-> token, complete |-> FALSE]

\* The job: a tricky workflow that needs an approval and a repair, or one no repair makes
\* valid.  Beside it: one that is activated, one for the workflow somebody else owns, or
\* one under the automation of that workflow.
MCInputs ==
    [j \in Runs |->
       IF j \in Jobs
       THEN {Ask({"riskyCode", "noChatId"}, NoWorkflow, FALSE, TRUE),
             Ask({"legacyUrl", "orphan"}, NoWorkflow, FALSE, FALSE)}
       ELSE {Ask({"noChatId"}, NoWorkflow, TRUE, FALSE),
             Ask({}, "w0", FALSE, FALSE),
             [Ask({}, NoWorkflow, FALSE, FALSE) EXCEPT !.auto = "a0"]}]

MCOldWorkflow == [w \in {"w0"} |-> [name |-> "old", flow |-> {"riskyCode"}, active |-> TRUE]]
MCOldRecord == [a \in {"a0"} |-> "w0"]
=============================================================================
