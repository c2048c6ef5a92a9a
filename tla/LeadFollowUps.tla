----------------------------- MODULE LeadFollowUps -----------------------------
(***************************************************************************)
(* workflows/marketing and workflows/sales: what happens to a lead after   *)
(* the first mail.  inbox-monitor.ts reads what has come in, sync-crm.ts   *)
(* what has gone out, and automated-followup.ts drafts another mail for    *)
(* those who have not answered; meeting-scheduler.ts and                   *)
(* proposal-generator.ts are for those who have, after a person has        *)
(* approved what the agent wrote.  A mail is in gmail_messages from the    *)
(* moment it is sent.                                                      *)
(***************************************************************************)
EXTENDS LeadCrm

(***************************************************************************)
(* inbox-monitor                                                           *)
(***************************************************************************)
ScanInbox(r) ==
    /\ At(r, "scan_inbox")
    /\ Goto(r, "categorize_and_draft",
            {[from |-> a, known |-> WithEmail(a) # {}] : a \in {b \in Addresses : wrote[b] = "recent"}})
    /\ UNCHANGED <<leads, mailbox, mark, records, others>> /\ Fine

\* positive and meeting_request, negative, and the rest, by the status they lead to
Categories == {"odpowiedzial", "odrzucony", "other"}

\* The agent may leave mails out, all of them when its answer cannot be read.
CategorizeAndDraft(r) ==
    /\ At(r, "categorize_and_draft")
    /\ \E some \in SUBSET run[r].todo : \E category \in [some -> Categories] :
         Goto(r, "apply_actions", {[mail |-> m, category |-> category[m]] : m \in some})
    /\ UNCHANGED <<leads, mailbox, mark, records, others>> /\ Fine

\* A mutant: the leads of the company that has the address.
SendersOfCompany(mail) ==
    {i \in DOMAIN leads : \E j \in WithEmail(mail.from) : leads[i].company = leads[j].company}

\* Whose address is known; the lead that is updated is one with the domain of the sender
\* anywhere in its address.
Senders(mail) ==
    IF mail.known THEN {i \in DOMAIN leads : leads[i].email \in ContainsDomain[mail.from]} ELSE {}

ApplyAction(r, item) ==
    /\ At(r, "apply_actions") /\ item \in run[r].todo
    /\ LET Answered(doc) ==
             [doc EXCEPT !.last = "recent",
                         !.status = IF item.category = "other" THEN @ ELSE item.category]
       IN  UpdateOne(Senders(item.mail), Answered)
    /\ Drop(r, item)
    /\ UNCHANGED <<mailbox, mark, records, others>> /\ Fine

(***************************************************************************)
(* sync-crm                                                                *)
(***************************************************************************)
\* Without mails the mark stays.
FetchSentEmails(r) ==
    /\ At(r, "fetch_sent_emails")
    /\ LET sent == (mark + 1)..Len(mails)
       IN  Goto(r, IF sent = {} THEN "done" ELSE "begin_match", sent)
    /\ UNCHANGED <<leads, mailbox, mark, records, others>> /\ Fine

\* The next step takes the time at its beginning.
BeginMatch(r) ==
    /\ At(r, "begin_match")
    /\ Goto(r, "match_and_sync", {[mail |-> k, now |-> Len(mails)] : k \in run[r].todo})
    /\ UNCHANGED <<leads, mailbox, mark, records, others>> /\ Fine

MatchEmail(r, item) ==
    /\ At(r, "match_and_sync") /\ run[r].hand = {} /\ item \in run[r].todo
    /\ LET found == WithEmail(mails[item.mail].to)
       IN  IF found = {} THEN Keep(r, item, item)
           ELSE \E i \in found :
                  Hold(r, item, [item |-> item, lead |-> i, new |-> leads[i].status = "nowy"])
    /\ UNCHANGED <<leads, mailbox, mark, records, others>> /\ Fine

\* What the lead was is what it was when it was found.
SyncLead(r) ==
    /\ At(r, "match_and_sync")
    /\ \E held \in run[r].hand :
         /\ leads' = [leads EXCEPT ![held.lead].last = "recent",
                                   ![held.lead].status = IF held.new THEN "sent" ELSE @]
         /\ Settle(r, held.item)
    /\ UNCHANGED <<mailbox, mark, records, others>> /\ Fine

EndSync(r) ==
    /\ At(r, "match_and_sync") /\ NothingLeft(r)
    /\ \E item \in run[r].done : mark' = item.now
    /\ Goto(r, "done", {})
    /\ UNCHANGED <<leads, mailbox, records, others>> /\ Fine

(***************************************************************************)
(* automated-followup                                                      *)
(***************************************************************************)
FindStaleLeads(r) ==
    /\ At(r, "find_stale_leads")
    /\ Goto(r, "generate_followup_drafts",
            {i \in DOMAIN leads : /\ leads[i].status = "sent" /\ leads[i].last = "old"
                                  /\ leads[i].email # NoAddress})
    /\ UNCHANGED <<leads, mailbox, mark, records, others>> /\ Fine

\* The ids an agent may name: those of leads, and 0 for one that no lead has.  The prompts
\* hold no ids, and nothing compares the answer with the leads that were asked about.
Ids == 0..Len(leads)

GenerateFollowups(r) ==
    /\ At(r, "generate_followup_drafts")
    /\ \E drafted \in SUBSET Ids :
         Goto(r, "save_followup_drafts", IF run[r].todo = {} THEN {} ELSE drafted)
    /\ UNCHANGED <<leads, mailbox, mark, records, others>> /\ Fine

\* By its id, whatever has become of the lead in the meantime.
SaveFollowup(r, i) ==
    /\ At(r, "save_followup_drafts") /\ i \in run[r].todo
    /\ LET FollowedUp(doc) == [doc EXCEPT !.status = "draft_gotowy", !.last = "recent"]
       IN  UpdateOne({i} \cap DOMAIN leads, FollowedUp)
    /\ Drop(r, i)
    /\ UNCHANGED <<mailbox, mark, records, others>> /\ Fine

\* The loop of the last step is over.
EndFollowUp(r) ==
    /\ run[r].step \in {"apply_actions", "save_followup_drafts"} /\ NothingLeft(r)
    /\ Goto(r, "done", {})
    /\ UNCHANGED <<leads, mailbox, mark, records, others>> /\ Fine

FollowUpStep(r) ==
    \/ ScanInbox(r) \/ CategorizeAndDraft(r)
    \/ FetchSentEmails(r) \/ BeginMatch(r) \/ SyncLead(r) \/ EndSync(r)
    \/ FindStaleLeads(r) \/ GenerateFollowups(r)
    \/ \E item \in run[r].todo : ApplyAction(r, item) \/ MatchEmail(r, item) \/ SaveFollowup(r, item)
    \/ EndFollowUp(r)

-------------------------------------------------------------------------------
(***************************************************************************)
(* meeting-scheduler                                                       *)
(***************************************************************************)
Hot(doc) == doc.status = "odpowiedzial" /\ ~doc.meeting /\ doc.email # NoAddress

FindHotLeads(r) ==
    /\ At(r, "find_hot_leads")
    /\ Goto(r, "generate_meeting_proposals", {i \in DOMAIN leads : Hot(leads[i])})
    /\ UNCHANGED <<leads, mailbox, mark, records, others>> /\ Fine

GenerateMeetingProposals(r) ==
    /\ At(r, "generate_meeting_proposals")
    /\ \E some \in SUBSET Ids :
         IF run[r].todo = {} \/ some = {} THEN Goto(r, "done", {})
         ELSE Goto(r, "meeting_approval", some)
    /\ UNCHANGED <<leads, mailbox, mark, records, others>> /\ Fine

\* A mutant: the list is looked at before the answer.
LetThroughUnasked(proposed, approved, chosen) ==
    IF chosen = {} THEN proposed ELSE IF approved THEN proposed \cap chosen ELSE {}

\* An empty list of leads approves all.
LetThrough(proposed, approved, chosen) ==
    IF ~approved THEN {} ELSE IF chosen = {} THEN proposed ELSE proposed \cap chosen

ResumeMeeting(r, approved, chosen) ==
    /\ At(r, "meeting_approval")
    /\ LET some == LetThrough(run[r].todo, approved, chosen)
       IN  Goto(r, IF some = {} THEN "done" ELSE "schedule_and_update", some)
    /\ agreed' = agreed \cup
         {[lead |-> i, by |-> r] : i \in {j \in run[r].todo : approved /\ (chosen = {} \/ j \in chosen)}}
    /\ UNCHANGED <<leads, mailbox, mark, events, approvals, allowed, others>> /\ Fine

InsertEvent(r, i) ==
    /\ At(r, "schedule_and_update") /\ run[r].hand = {} /\ i \in run[r].todo
    /\ events' = events \cup {[lead |-> i, by |-> r]}
    /\ Hold(r, i, i)
    /\ UNCHANGED <<leads, mailbox, mark, approvals, allowed, agreed, others>> /\ Fine

MarkMeeting(r) ==
    /\ At(r, "schedule_and_update")
    /\ \E i \in run[r].hand :
         /\ LET Meets(doc) == [doc EXCEPT !.status = "spotkanie_umowione", !.meeting = TRUE,
                                          !.last = "recent"]
            IN  UpdateOne({i} \cap DOMAIN leads, Meets)
         /\ Settle(r, i)
    /\ UNCHANGED <<mailbox, mark, records, others>> /\ Fine

EndMeeting(r) ==
    /\ At(r, "schedule_and_update") /\ NothingLeft(r)
    /\ Goto(r, "done", {})
    /\ UNCHANGED <<leads, mailbox, mark, records, others>> /\ Fine

(***************************************************************************)
(* proposal-generator                                                      *)
(***************************************************************************)
\* A lead that is not there is passed through the steps without anybody being asked.
LoadLead(r) ==
    /\ At(r, "load_lead")
    /\ \/ Goto(r, "done", {})
       \/ \E i \in DOMAIN leads : Goto(r, "generate_proposal", {i})
    /\ UNCHANGED <<leads, mailbox, mark, records, others>> /\ Fine

GenerateProposal(r) ==
    /\ At(r, "generate_proposal")
    /\ Goto(r, "proposal_approval", run[r].todo)
    /\ UNCHANGED <<leads, mailbox, mark, records, others>> /\ Fine

ResumeProposal(r, approved) ==
    /\ At(r, "proposal_approval")
    /\ IF approved THEN Goto(r, "save_proposal", run[r].todo) ELSE Goto(r, "done", {})
    /\ UNCHANGED <<leads, mailbox, mark, records, others>> /\ Fine

SaveProposal(r) ==
    /\ At(r, "save_proposal")
    /\ \E i \in run[r].todo :
         leads' = [leads EXCEPT ![i].status = "draft_gotowy", ![i].last = "recent"]
    /\ Goto(r, "done", {})
    /\ UNCHANGED <<mailbox, mark, records, others>> /\ Fine

SalesStep(r) ==
    \/ FindHotLeads(r) \/ GenerateMeetingProposals(r)
    \/ \E i \in run[r].todo : InsertEvent(r, i)
    \/ MarkMeeting(r) \/ EndMeeting(r)
    \/ LoadLead(r) \/ GenerateProposal(r) \/ SaveProposal(r)

AnswerSales(r) ==
    \E approved \in BOOLEAN :
      \/ \E chosen \in SUBSET run[r].todo : ResumeMeeting(r, approved, chosen)
      \/ ResumeProposal(r, approved)
===============================================================================
