------------------------------ MODULE ProducerHunt ------------------------------
(***************************************************************************)
(* workflows/producer-hunt.ts: find suppliers, rate them, research them,   *)
(* draft a mail to each, have a person approve the drafts and send them.   *)
(* What agents, searches and notebooks come back with is a choice from     *)
(* Offers, Findings and AddressesOf.                                       *)
(***************************************************************************)
EXTENDS LeadCrm, LeadQuality

CONSTANTS
    Offers,      \* what the discovery of a run may bring: sets of candidates
    Findings,    \* profiles a research may come to
    AddressesOf, \* the addresses the pages of a company have
    Wanted,      \* acceptableSupplierTypes
    Count        \* how many leads a hunt is asked for

Candidate == [company : Companies, email : Addresses \cup {NoAddress}, profile : Profile]

ASSUME HuntConstants ==
    /\ Offers \in [Runs -> SUBSET (SUBSET Candidate)]
    /\ Findings \subseteq Profile
    /\ AddressesOf \in [Companies -> SUBSET Addresses]
    /\ Wanted \subseteq Types \ {"unknown"}

HasMail(l) == l.email # NoAddress

-------------------------------------------------------------------------------
\* Researcher and searches may fail or find nothing; the hunt goes on in any case.
GatherSources(r) ==
    /\ At(r, "gather_sources")
    /\ \E sources \in SUBSET {"source"} : Goto(r, "discover_via_nlm", sources)
    /\ UNCHANGED <<leads, mailbox, mark, records, others>> /\ Fine

\* Candidates with the same domain of the address, or without one the same name, are one.
Key(l) == IF HasMail(l) THEN <<"domain", DomainOf[l.email]>> ELSE <<"name", l.company>>

Distinct(offer) ==
    LET keys == {Key(l) : l \in offer}
        n == IF Cardinality(keys) <= Count THEN Cardinality(keys) ELSE Count
    IN  {some \in SUBSET offer : /\ Cardinality(some) = n
                                 /\ \A l, m \in some : Key(l) = Key(m) => l = m}

DiscoverViaNlm(r) ==
    /\ At(r, "discover_via_nlm")
    /\ \E offer \in IF run[r].todo = {} THEN {{}} ELSE Offers[r] : \E some \in Distinct(offer) :
         Goto(r, "create_research_leads", some)
    /\ UNCHANGED <<leads, mailbox, mark, records, others>> /\ Fine

\* The metadata is replaced, and a note of a meeting with it.
CreateResearchLead(r, l) ==
    /\ At(r, "create_research_leads") /\ l \in run[r].todo
    /\ LET decision == Decision(l.profile, HasMail(l))
           status == IF decision = "draft_candidate" THEN "research_queued" ELSE "research_needed"
           Renew(doc) == [doc EXCEPT !.status = status, !.meeting = FALSE]
       IN  IF decision = "reject" \/ InferredType(l.profile) \notin Wanted
           THEN Drop(r, l) /\ UNCHANGED leads
           ELSE /\ Keep(r, l, l)
                /\ Upsert(OfRegion(l.company), Renew,
                          [company |-> l.company, email |-> NoAddress, region |-> TRUE,
                           status |-> status, meeting |-> FALSE, last |-> "never"])
    /\ UNCHANGED <<mailbox, mark, records, others>> /\ Fine

\* A mutant: the rating from before the research decides.
RatedBefore(r, l, rated) ==
    IF Decision(l.profile, HasMail(l)) = "reject" THEN Drop(r, l) ELSE Keep(r, l, rated)

Rated(r, l, rated) ==
    IF Decision(rated.profile, HasMail(rated)) = "reject" THEN Drop(r, l) ELSE Keep(r, l, rated)

\* An address of its own goes before one that is found.
Addressed(l) == IF HasMail(l) THEN {l.email} ELSE AddressesOf[l.company] \cup {NoAddress}

Merged(l, profile, a) == [l EXCEPT !.profile = profile, !.email = a]

\* What searches, a notebook and the models come to.  When the answer does not fit its
\* schema the lead stays what it was.
Researches(l) ==
    {l} \cup {Merged(l, Researched(found, doubts), a) :
                found \in Findings, doubts \in SUBSET Doubts, a \in Addressed(l)}

EnrichLead(r, l) ==
    /\ At(r, "enrich_leads") /\ l \in run[r].todo
    /\ \E rated \in Researches(l) :
         LET Rate(doc) == [doc EXCEPT !.status =
               IF Decision(rated.profile, HasMail(rated)) = "reject" THEN "research_rejected"
               ELSE "research_enriched"]
         IN  Rated(r, l, rated) /\ UpdateOne(OfRegion(l.company), Rate)
    /\ UNCHANGED <<mailbox, mark, records, others>> /\ Fine

\* The outer catch: what the research has written so far is kept and rated with the lead,
\* but not entered, unless the write itself came through and only its answer did not.
EnrichFails(r, l) ==
    /\ At(r, "enrich_leads") /\ l \in run[r].todo
    /\ Trouble
    /\ \E text \in {{}} \cup {found.signals : found \in Findings} :
         Rated(r, l, [l EXCEPT !.profile.signals = @ \cup text])
    /\ \/ UNCHANGED leads
       \/ \E status \in {"research_enriched", "research_rejected"} :
            LET Rate(doc) == [doc EXCEPT !.status = status]
            IN  UpdateOne(OfRegion(l.company), Rate)
    /\ UNCHANGED <<mailbox, mark, records, others>>

\* A regular expression, a local and a cloud model in turn.
ExtractEmail(r, l) ==
    /\ At(r, "extract_emails") /\ l \in run[r].todo
    /\ \E a \in Addressed(l) : Keep(r, l, [l EXCEPT !.email = a])
    /\ UNCHANGED <<leads, mailbox, mark, records, others>> /\ Fine

\* Whatever the models write, there is a draft: the fallback passes validateDraft.
DraftColdEmail(r, l) ==
    /\ At(r, "draft_cold_emails") /\ l \in run[r].todo
    /\ IF HasMail(l) THEN Keep(r, l, [lead |-> l, draft |-> 0]) ELSE Drop(r, l)
    /\ UNCHANGED <<leads, mailbox, mark, records, others>> /\ Fine

\* Without Gmail the draft goes on without a number, be it that Gmail has it or not.
CreateGmailDraft(r, d) ==
    /\ At(r, "create_gmail_drafts") /\ d \in run[r].todo
    /\ \/ /\ Fine
          /\ gmail' = Append(gmail, [to |-> d.lead.email, by |-> r])
          /\ Keep(r, d, [d EXCEPT !.draft = Len(gmail')])
       \/ /\ Trouble
          /\ gmail' \in {gmail, Append(gmail, [to |-> d.lead.email, by |-> r])}
          /\ Keep(r, d, d)
    /\ UNCHANGED <<leads, mails, mark, records, others>>

\* A file that cannot be written is passed over.
SaveDrafts(r) ==
    /\ At(r, "save_drafts_fs")
    /\ Goto(r, "update_crm", run[r].todo)
    /\ UNCHANGED <<leads, mailbox, mark, records, others>> /\ Fine

\* A mutant: a new lead does not get the address it was looked for by.
DraftedWithoutAddress(l) ==
    [company |-> l.company, email |-> NoAddress, region |-> TRUE, status |-> "draft_gotowy",
     meeting |-> FALSE, last |-> "never"]

Drafted(l) ==
    [company |-> l.company, email |-> l.email, region |-> TRUE, status |-> "draft_gotowy",
     meeting |-> FALSE, last |-> "never"]

\* By the address: the lead that the research has written has none, and stays beside it.
UpdateCrm(r, d) ==
    /\ At(r, "update_crm") /\ d \in run[r].todo
    /\ LET Draft(doc) == [doc EXCEPT !.company = d.lead.company, !.region = TRUE,
                                     !.status = "draft_gotowy", !.meeting = FALSE]
       IN  Upsert(WithEmail(d.lead.email), Draft, Drafted(d.lead))
    /\ Keep(r, d, d)
    /\ UNCHANGED <<mailbox, mark, records, others>> /\ Fine

\* A mutant: somebody is asked in any case.
AskApprovalAlways(r) ==
    /\ At(r, "ask_approval")
    /\ Goto(r, "await_approval", run[r].todo)
    /\ \/ Fine /\ approvals' = [approvals EXCEPT ![r] = "pending"]
       \/ Trouble /\ UNCHANGED approvals
    /\ UNCHANGED <<leads, mailbox, mark, events, allowed, agreed, others>>

\* Without drafts nobody is asked.  The record for the dashboard may fail.
AskApproval(r) ==
    /\ At(r, "ask_approval")
    /\ IF run[r].todo = {} THEN Goto(r, "send_on_approve", {}) /\ UNCHANGED approvals /\ Fine
       ELSE /\ Goto(r, "await_approval", run[r].todo)
            /\ \/ Fine /\ approvals' = [approvals EXCEPT ![r] = "pending"]
               \/ Trouble /\ UNCHANGED approvals
    /\ UNCHANGED <<leads, mailbox, mark, events, allowed, agreed, others>>

\* A mutant: a list of rejected drafts is only read without an approval.
PassedAll(drafts, approved, rejected) == IF approved THEN drafts ELSE {}

\* What an answer lets through.
Passed(drafts, approved, rejected) == IF approved THEN drafts \ rejected ELSE {}

ResumeHunt(r, approved, rejected) ==
    /\ At(r, "await_approval")
    /\ LET passed == Passed(run[r].todo, approved, rejected)
       IN  run' = [run EXCEPT ![r] = [@ EXCEPT !.step = "send_on_approve", !.todo = passed,
                                              !.approved = passed # {}]]
    /\ allowed' = IF approved THEN allowed \cup {d.draft : d \in run[r].todo \ rejected}
                  ELSE allowed
    /\ UNCHANGED <<leads, mailbox, mark, events, approvals, agreed, others>> /\ Fine

\* A draft without a number is skipped, and one that Gmail does not send: it fails, has
\* gone out by hand, or goes out and the answer is lost.
SendDraft(r, d) ==
    LET mail == [to |-> d.lead.email, by |-> r, draft |-> d.draft]
    IN  /\ At(r, "send_on_approve") /\ run[r].hand = {} /\ d \in run[r].todo
        /\ IF d.draft = 0 \/ Sent(d.draft) THEN Keep(r, d, d) /\ UNCHANGED mails /\ Fine
           ELSE \/ Fine /\ mails' = Append(mails, mail) /\ Hold(r, d, d)
                \/ Trouble /\ mails' \in {mails, Append(mails, mail)} /\ Keep(r, d, d)
        /\ UNCHANGED <<leads, gmail, mark, records, others>>

\* A mutant: the lead is looked for by its company.
MailedLeadsByCompany(d) == Named(d.lead.company)

MailedLeads(d) == WithEmail(d.lead.email)

RecordSent(r) ==
    /\ At(r, "send_on_approve")
    /\ \E d \in run[r].hand :
         LET Note(doc) == [doc EXCEPT !.status = "email_sent"]
         IN  /\ \/ Fine /\ UpdateOne(MailedLeads(d), Note)
                \/ Trouble /\ UNCHANGED leads
             /\ Settle(r, d)
    /\ UNCHANGED <<mailbox, mark, records, others>>

\* The record for the dashboard gets its answer when the answer let drafts through.
EndHunt(r) ==
    /\ At(r, "send_on_approve") /\ NothingLeft(r)
    /\ \/ /\ run[r].approved /\ Fine
          /\ approvals' = [approvals EXCEPT ![r] = IF @ = "pending" THEN "approved" ELSE @]
       \/ run[r].approved /\ Trouble /\ UNCHANGED approvals
       \/ ~run[r].approved /\ Fine /\ UNCHANGED approvals
    /\ Goto(r, "done", {})
    /\ UNCHANGED <<leads, mailbox, mark, events, allowed, agreed, others>>

\* From one step to the next.
HuntSteps == [create_research_leads |-> "enrich_leads", enrich_leads |-> "extract_emails",
              extract_emails |-> "draft_cold_emails", draft_cold_emails |-> "create_gmail_drafts",
              create_gmail_drafts |-> "save_drafts_fs", update_crm |-> "ask_approval"]

NextHuntStep(r) ==
    /\ run[r].step \in DOMAIN HuntSteps /\ run[r].todo = {}
    /\ Goto(r, HuntSteps[run[r].step], run[r].done)
    /\ UNCHANGED <<leads, mailbox, mark, records, others>> /\ Fine

HuntStep(r) ==
    \/ GatherSources(r) \/ DiscoverViaNlm(r) \/ NextHuntStep(r)
    \/ \E item \in run[r].todo :
         \/ CreateResearchLead(r, item) \/ EnrichLead(r, item) \/ EnrichFails(r, item)
         \/ ExtractEmail(r, item) \/ DraftColdEmail(r, item)
         \/ CreateGmailDraft(r, item) \/ UpdateCrm(r, item) \/ SendDraft(r, item)
    \/ SaveDrafts(r) \/ AskApproval(r) \/ RecordSent(r) \/ EndHunt(r)

AnswerHunt(r) ==
    \E approved \in BOOLEAN, rejected \in SUBSET run[r].todo : ResumeHunt(r, approved, rejected)
===============================================================================
