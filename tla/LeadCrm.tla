-------------------------------- MODULE LeadCrm --------------------------------
(***************************************************************************)
(* The collection of leads that the business workflows share, with the     *)
(* mailbox, the calendar and the approvals around it, and what everybody   *)
(* else does to them: the tools of tools/crm, people who write, answer and *)
(* send drafts by hand, time, and failures.  The workflows themselves are  *)
(* in the modules that extend this one.                                    *)
(***************************************************************************)
EXTENDS Naturals, Sequences, FiniteSets

CONSTANTS
    Runs,          \* runs of workflows, and calls of tools of more than one await
    FirstStep,     \* the first step of each run, which also tells its workflow
    Schedules,     \* the runs that go on at the same time, how often the surroundings act (tools,
                   \* mails that come in or are sent by hand, weeks that pass), and how many
                   \* calls of services fail or restarts of the server come in between
    Companies, Addresses, NoAddress,
    DomainOf,      \* the domain of an address
    ContainsDomain,\* for an address, the addresses in whose text its domain occurs
    InitialLeads,  \* sequences of leads the collection may start with
    SetByTools     \* the statuses that callers of the tools choose

\* tools/crm/search-leads.ts, with ASCII letters: what the tools accept.
CrmStatuses == {"research_needed", "draft_gotowy", "followup_draft_gotowy", "sent", "odpowiedzial",
                "zainteresowany", "aktywny_klient", "opt-out", "brak_odpowiedzi", "wyslany_email_1",
                "wyslany_email_2", "wyslany_email_3", "zarejestrowany"}

\* What the workflows write besides.
Statuses == CrmStatuses \cup {"nowy", "research_queued", "research_enriched", "research_rejected",
                              "email_sent", "odrzucony", "spotkanie_umowione"}

Ages == {"never", "recent", "old"}

\* region: whether it is the one of the hunts.  meeting: metadata.meetingScheduled.
\* last: lastInteractionAt, old when a lead counts as stale.
Lead == [company : Companies, email : Addresses \cup {NoAddress}, region : BOOLEAN,
         status : Statuses, meeting : BOOLEAN, last : Ages]

ASSUME CrmConstants ==
    /\ NoAddress \notin Addresses /\ "person" \notin Runs
    /\ InitialLeads \subseteq Seq(Lead)
    /\ Schedules \subseteq [runs : SUBSET Runs, outside : Nat, troubles : Nat]
    /\ SetByTools \subseteq CrmStatuses
    /\ ContainsDomain \in [Addresses -> SUBSET Addresses]
    /\ \A a \in Addresses : a \in ContainsDomain[a]

\* The mails of the runs, the answers to them and the meetings are all to come.
ASSUME NobodyMailedYet ==
    \A s \in InitialLeads : \A i \in DOMAIN s :
      s[i].status \notin {"email_sent", "odpowiedzial", "spotkanie_umowione"}

VARIABLES
    leads,      \* the collection, in the order of the insertions
    gmail,      \* drafts in Gmail: to whom, and the run that made them
    mails,      \* mails sent, in order: to whom, by whom, and which draft
    wrote,      \* who has written to us, and when
    mark,       \* lastSyncAt: how many mails had been sent then
    events,     \* calendar_events: the lead, by its place in the collection, and the run
    approvals,  \* the record a hunt makes for the dashboard
    allowed,    \* drafts a person has let a run send (history)
    agreed,     \* meetings a person has let a run enter (history)
    vouched,    \* leads a caller of a tool has entered as having answered (history)
    taken,      \* addresses that a caller of a tool has taken from a lead (history)
    outside,    \* how often the surroundings may still act
    troubles,   \* failures and restarts that may still come
    run         \* the runs: step, items to do and done in it, the item in hand

mailbox == <<gmail, mails>>
others == <<wrote, vouched, taken, outside>>
records == <<events, approvals, allowed, agreed>>
crmVars == <<leads, mailbox, mark, records, others, troubles, run>>

\* A run waits, or is not in execution.
Resting == {"idle", "await_approval", "meeting_approval", "proposal_approval", "done", "failed"}
Executes(r) == run[r].step \notin Resting

InitRun(step) ==
    [step |-> step, todo |-> {}, done |-> {}, hand |-> {}, approved |-> FALSE]

CrmInit ==
    /\ leads \in InitialLeads
    /\ gmail = <<>> /\ mails = <<>> /\ mark = 0 /\ events = {}
    /\ wrote = [a \in Addresses |-> "never"]
    /\ approvals = [r \in Runs |-> "none"]
    /\ allowed = {} /\ agreed = {} /\ vouched = {} /\ taken = {}
    /\ \E schedule \in Schedules :
         /\ run = [r \in Runs |-> InitRun(IF r \in schedule.runs THEN FirstStep[r] ELSE "idle")]
         /\ outside = schedule.outside /\ troubles = schedule.troubles

-------------------------------------------------------------------------------
(***************************************************************************)
(* The database.                                                           *)
(***************************************************************************)
WithEmail(a) == {i \in DOMAIN leads : leads[i].email = a}
OfRegion(c) == {i \in DOMAIN leads : leads[i].company = c /\ leads[i].region}
Named(c) == {i \in DOMAIN leads : leads[i].company = c}

\* updateOne: without a match nothing happens; of several it takes any one.
UpdateOne(found, Change(_)) ==
    IF found = {} THEN UNCHANGED leads
    ELSE \E i \in found : leads' = [leads EXCEPT ![i] = Change(@)]

\* updateOne with upsert
Upsert(found, Change(_), new) ==
    IF found = {} THEN leads' = Append(leads, new) ELSE UpdateOne(found, Change)

Fine == UNCHANGED troubles
Trouble == troubles > 0 /\ troubles' = troubles - 1

(***************************************************************************)
(* A step of a workflow goes through a set of items.                       *)
(***************************************************************************)
At(r, step) == run[r].step = step

Goto(r, step, todo) ==
    run' = [run EXCEPT ![r] = [@ EXCEPT !.step = step, !.todo = todo, !.done = {}, !.hand = {}]]

Drop(r, item) == run' = [run EXCEPT ![r].todo = @ \ {item}]

Keep(r, item, kept) ==
    run' = [run EXCEPT ![r].todo = @ \ {item}, ![r].done = @ \cup {kept}]

\* Between two awaits of one item.
Hold(r, item, held) ==
    run' = [run EXCEPT ![r].todo = @ \ {item}, ![r].hand = {held}]

Settle(r, kept) == run' = [run EXCEPT ![r].hand = {}, ![r].done = @ \cup {kept}]

NothingLeft(r) == run[r].todo = {} /\ run[r].hand = {}

Sent(d) == \E i \in DOMAIN mails : mails[i].draft = d

-------------------------------------------------------------------------------
(***************************************************************************)
(* tools/crm.  An agent names a lead by id, or by an address.              *)
(***************************************************************************)
FromOutside == outside > 0 /\ outside' = outside - 1 /\ Fine

ToolCall ==
    /\ FromOutside
    /\ UNCHANGED <<mailbox, mark, records, wrote, run>>

Vouches(i, status) ==
    vouched' = IF status = "odpowiedzial" THEN vouched \cup {i} ELSE vouched

\* crm_update_status, and crm_update_lead with a status
UpdateStatus(i, status) ==
    /\ ToolCall
    /\ leads' = [leads EXCEPT ![i].status = status, ![i].last = "recent"]
    /\ Vouches(i, status) /\ UNCHANGED taken

\* crm_update_lead sets any other field of any lead.  Several at once are as many calls in
\* a row; the id is taken to stay.
Updates(doc) ==
    {[doc EXCEPT !.company = c] : c \in Companies}
      \cup {[doc EXCEPT !.email = a] : a \in Addresses \cup {NoAddress}}
      \cup {[doc EXCEPT !.region = given] : given \in BOOLEAN}
      \cup {[doc EXCEPT !.meeting = given] : given \in BOOLEAN}

UpdateLead(i, doc) ==
    /\ ToolCall
    /\ leads' = [leads EXCEPT ![i] = [doc EXCEPT !.last = "recent"]]
    /\ taken' = IF doc.email = leads[i].email THEN taken
                ELSE taken \cup {[lead |-> i, address |-> leads[i].email]}
    /\ UNCHANGED vouched

RecordEmailDraft(i) ==
    /\ ToolCall
    /\ leads' = [leads EXCEPT ![i].status = "draft_gotowy", ![i].last = "recent"]
    /\ UNCHANGED <<vouched, taken>>

AddInteraction(i) ==
    /\ ToolCall
    /\ leads' = [leads EXCEPT ![i].last = "recent"]
    /\ UNCHANGED <<vouched, taken>>

\* crm_create_lead looks for the address, or without one for the company ...
FindLead(r) ==
    /\ At(r, "find_lead")
    /\ \E c \in Companies, a \in Addresses \cup {NoAddress} :
         LET found == IF a = NoAddress THEN Named(c) ELSE WithEmail(a)
         IN  Goto(r, "write_lead", {[company |-> c, email |-> a, found |-> found # {}]})
    /\ UNCHANGED <<leads, mailbox, mark, records, others>> /\ Fine

\* ... and updates what it has found, or inserts.  A region, metadata that go over those it
\* has read, and the status of a new lead come from the caller.
WriteLead(r) ==
    /\ At(r, "write_lead")
    /\ \E call \in run[r].todo, region, meeting \in BOOLEAN,
          status \in SetByTools \cup {"research_needed"} :
         LET Rewrite(doc) == [doc EXCEPT !.company = call.company, !.region = region,
                                         !.meeting = meeting]
             found == IF call.email = NoAddress THEN Named(call.company)
                      ELSE WithEmail(call.email)
         IN  IF call.found THEN UpdateOne(found, Rewrite) /\ UNCHANGED vouched
             ELSE /\ leads' = Append(leads,
                       [company |-> call.company, email |-> call.email, region |-> region,
                        status |-> status, meeting |-> meeting, last |-> "recent"])
                  /\ Vouches(Len(leads'), status)
    /\ Goto(r, "done", {})
    /\ UNCHANGED <<mailbox, mark, records, wrote, taken, outside>> /\ Fine

\* The tool answers with the error.
CreateLeadFails(r) ==
    /\ run[r].step \in {"find_lead", "write_lead"}
    /\ Trouble
    /\ Goto(r, "done", {})
    /\ UNCHANGED <<leads, mailbox, mark, records, others>>

CreateLead(r) == FindLead(r) \/ WriteLead(r) \/ CreateLeadFails(r)

Tools ==
    \E i \in DOMAIN leads :
      \/ \E status \in SetByTools : UpdateStatus(i, status)
      \/ \E doc \in Updates(leads[i]) : UpdateLead(i, doc)
      \/ RecordEmailDraft(i)
      \/ AddInteraction(i)

-------------------------------------------------------------------------------
(***************************************************************************)
(* People, time and failures.                                              *)
(***************************************************************************)
Writes(a) ==
    /\ wrote[a] # "recent"
    /\ FromOutside
    /\ wrote' = [wrote EXCEPT ![a] = "recent"]
    /\ UNCHANGED <<leads, mailbox, mark, records, vouched, taken, run>>

\* A draft without an address gets one.
SendByHand(d, a) ==
    /\ ~Sent(d)
    /\ gmail[d].to \in {a, NoAddress}
    /\ mails' = Append(mails, [to |-> a, by |-> "person", draft |-> d])
    /\ FromOutside
    /\ UNCHANGED <<leads, gmail, mark, records, wrote, vouched, taken, run>>

Older(age) == IF age = "recent" THEN "old" ELSE age

TimePasses ==
    /\ leads' = [i \in DOMAIN leads |-> [leads[i] EXCEPT !.last = Older(@)]]
    /\ wrote' = [a \in Addresses |-> Older(wrote[a])]
    /\ <<leads, wrote>>' # <<leads, wrote>>
    /\ FromOutside
    /\ UNCHANGED <<mailbox, mark, records, vouched, taken, run>>

\* Steps in which an error of a service ends the run, at any item or before the first one.
Throwing == {"create_research_leads", "update_crm", "find_stale_leads", "generate_followup_drafts",
             "save_followup_drafts", "scan_inbox", "categorize_and_draft", "apply_actions",
             "fetch_sent_emails", "match_and_sync", "find_hot_leads",
             "generate_meeting_proposals", "schedule_and_update", "load_lead",
             "generate_proposal", "save_proposal"}
ThrowingAtFirst == {"enrich_leads", "save_drafts_fs", "send_on_approve", "dedup_and_crm_check",
                    "create_crm_and_drafts"}

\* A refusal is not looked at in the database.
StepThrows(r) ==
    /\ \/ run[r].step \in Throwing
       \/ /\ run[r].step \in ThrowingAtFirst
          /\ run[r].done = {} /\ run[r].hand = {}
          /\ At(r, "send_on_approve") => run[r].approved
    /\ Trouble
    /\ Goto(r, "failed", {})
    /\ UNCHANGED <<leads, mailbox, mark, records, others>>

\* Suspended runs are in the store; nothing takes up one that was in execution.
ServerRestarts ==
    /\ \E r \in Runs : Executes(r)
    /\ Trouble
    /\ run' = [r \in Runs |-> IF Executes(r) THEN InitRun("failed") ELSE run[r]]
    /\ UNCHANGED <<leads, mailbox, mark, records, others>>

Surroundings ==
    \/ Tools
    \/ \E a \in Addresses : Writes(a)
    \/ \E d \in DOMAIN gmail, a \in Addresses : SendByHand(d, a)
    \/ TimePasses
    \/ \E r \in Runs : StepThrows(r)
    \/ ServerRestarts
===============================================================================
