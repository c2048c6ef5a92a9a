------------------------------- MODULE ClientHunt -------------------------------
(***************************************************************************)
(* workflows/automation-client-hunt-strategy.ts: firms that might want     *)
(* automations become leads without an address, with a draft that somebody *)
(* is to complete.                                                         *)
(***************************************************************************)
EXTENDS LeadCrm

CONSTANT Firms  \* what a discovery may bring: sets of companies

ASSUME FirmsAssumption == Firms \subseteq SUBSET Companies

MinimumScore == 2

\* The score of the keywords, and of the model, which is asked from one point on.  Two
\* points stand for more.
Qualifies(words, judged) == words + (IF words >= 1 THEN judged ELSE 0) >= MinimumScore

-------------------------------------------------------------------------------
\* Queries that fail are passed over.
DiscoverLeads(r) ==
    /\ At(r, "discover_leads")
    /\ \E found \in Firms : Goto(r, "dedup_and_crm_check", found)
    /\ UNCHANGED <<leads, mailbox, mark, records, others>> /\ Fine

\* On an error the company counts as new.
CrmCheck(r, c) ==
    /\ At(r, "dedup_and_crm_check") /\ c \in run[r].todo
    /\ \/ Fine /\ IF Named(c) # {} THEN Drop(r, c) ELSE Keep(r, c, c)
       \/ Trouble /\ Keep(r, c, c)
    /\ UNCHANGED <<leads, mailbox, mark, records, others>>

EnrichAndQualify(r, c) ==
    /\ At(r, "enrich_and_qualify") /\ c \in run[r].todo
    /\ \E words, judged \in 0..2 :
         IF Qualifies(words, judged) THEN Keep(r, c, c) ELSE Drop(r, c)
    /\ UNCHANGED <<leads, mailbox, mark, records, others>> /\ Fine

\* Three at a time, with the template where the model fails: each gets its mail.
GenerateColdEmails(r) ==
    /\ At(r, "generate_cold_emails")
    /\ Goto(r, "create_crm_and_drafts", run[r].todo)
    /\ UNCHANGED <<leads, mailbox, mark, records, others>> /\ Fine

\* 1. The lead.  A failure loses its id, be the lead inserted or not.
CreateCrmLead(r, c) ==
    LET new == [company |-> c, email |-> NoAddress, region |-> FALSE, status |-> "nowy",
                meeting |-> FALSE, last |-> "never"]
    IN  /\ At(r, "create_crm_and_drafts") /\ run[r].hand = {} /\ c \in run[r].todo
        /\ \/ Fine /\ leads' = Append(leads, new)
              /\ Hold(r, c, [id |-> Len(leads'), draft |-> 0])
           \/ Trouble /\ leads' \in {leads, Append(leads, new)}
              /\ Hold(r, c, [id |-> 0, draft |-> 0])
        /\ UNCHANGED <<mailbox, mark, records, others>>

\* 2. The draft, to nobody.  3. follows only when both are there.
CreateEmptyDraft(r) ==
    LET new == Append(gmail, [to |-> NoAddress, by |-> r])
    IN  /\ At(r, "create_crm_and_drafts")
        /\ \E item \in run[r].hand :
             /\ item.draft = 0
             /\ \/ /\ Fine /\ gmail' = new
                   /\ IF item.id = 0 THEN Settle(r, item)
                      ELSE Hold(r, item, [item EXCEPT !.draft = Len(gmail')])
                \/ Trouble /\ gmail' \in {gmail, new} /\ Settle(r, item)
        /\ UNCHANGED <<leads, mails, mark, records, others>>

\* 3. The link.
LinkDraft(r) ==
    /\ At(r, "create_crm_and_drafts")
    /\ \E item \in run[r].hand :
         /\ item.draft # 0
         /\ \/ Fine /\ leads' = [leads EXCEPT ![item.id].status = "draft_gotowy"]
            \/ Trouble /\ UNCHANGED leads
         /\ Settle(r, item)
    /\ UNCHANGED <<mailbox, mark, records, others>>

\* The report that is kept for the memory may fail.
Report(r) ==
    /\ At(r, "create_crm_and_drafts") /\ NothingLeft(r)
    /\ Goto(r, "done", {})
    /\ UNCHANGED <<leads, mailbox, mark, records, others>> /\ Fine

ClientSteps == [dedup_and_crm_check |-> "enrich_and_qualify",
                enrich_and_qualify |-> "generate_cold_emails"]

NextClientStep(r) ==
    /\ run[r].step \in DOMAIN ClientSteps /\ run[r].todo = {}
    /\ Goto(r, ClientSteps[run[r].step], run[r].done)
    /\ UNCHANGED <<leads, mailbox, mark, records, others>> /\ Fine

ClientStep(r) ==
    \/ DiscoverLeads(r) \/ NextClientStep(r) \/ GenerateColdEmails(r)
    \/ \E item \in run[r].todo :
         CrmCheck(r, item) \/ EnrichAndQualify(r, item) \/ CreateCrmLead(r, item)
    \/ CreateEmptyDraft(r) \/ LinkDraft(r) \/ Report(r)
===============================================================================
