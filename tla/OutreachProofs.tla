---------------------------- MODULE OutreachProofs ----------------------------
(***************************************************************************)
(* The promises of the business workflows, for any number of runs, leads,  *)
(* mails and failures.  One inductive invariant carries all of them: for   *)
(* every step of a workflow, what its items are known to be while          *)
(* everybody else goes on changing the collection (RunsOK), and what the   *)
(* mails, the leads and the events say by themselves.                      *)
(***************************************************************************)
EXTENDS Outreach, SequenceTheorems, TLAPS

-------------------------------------------------------------------------------
(* The invariant.                                                              *)

GmailDraft == [to : Addresses \cup {NoAddress}, by : Runs]
SentMail == [to : Addresses \cup {NoAddress}, by : Runs \cup {"person"}, draft : Nat]

IsRun(x) ==
    x = [step |-> x.step, todo |-> x.todo, done |-> x.done, hand |-> x.hand,
         approved |-> x.approved]

Shapes ==
    /\ leads \in Seq(Lead)
    /\ gmail \in Seq(GmailDraft)
    /\ mails \in Seq(SentMail)
    /\ DOMAIN wrote = Addresses
    /\ DOMAIN run = Runs /\ \A r \in Runs : IsRun(run[r])

HasWritten(a) == a \in Addresses /\ wrote[a] # "never"

\* A caller has entered the lead as having answered, or somebody wrote from its domain.
Replied(i) ==
    \/ i \in vouched
    \/ \E a \in Addresses : wrote[a] # "never" /\ \E b \in ContainsDomain[a] : Had(i, b)

InCrm(a) == \E i \in DOMAIN leads : Had(i, a)

Mailed(r, a) == \E k \in DOMAIN mails : mails[k].to = a /\ mails[k].by = r

\* Whoever is left of the research is worth a mail, should an address be found.
Worthy(l) == l \in Candidate /\ Decision(l.profile, TRUE) # "reject"

\* A draft of the run, which has the number of its own draft in Gmail, or none.
DraftOf(r, d) ==
    /\ d \in [lead : Candidate, draft : Nat]
    /\ Worthy(d.lead) /\ HasMail(d.lead)
    /\ d.draft # 0 => d.draft \in DOMAIN gmail /\ gmail[d.draft].by = r

Drafting == {"create_gmail_drafts", "save_drafts_fs", "update_crm", "ask_approval",
             "await_approval", "send_on_approve"}
Clients == {"dedup_and_crm_check", "enrich_and_qualify", "generate_cold_emails",
            "create_crm_and_drafts"}

\* What an item is known to be that is still to be treated in a step, ...
TodoFits(r, s, x) ==
    /\ s \in {"create_research_leads", "enrich_leads"} => x \in Candidate
    /\ s \in {"extract_emails", "draft_cold_emails"} => Worthy(x)
    /\ s \in Drafting => DraftOf(r, x)
    /\ s \in {"ask_approval", "await_approval", "send_on_approve"} => InCrm(x.lead.email)
    /\ s = "send_on_approve" => x.draft = 0 \/ x.draft \in allowed
    /\ s \in Clients => x \in Companies
    /\ s = "write_lead" =>
         x.company \in Companies /\ x.email \in Addresses \cup {NoAddress}
    /\ s = "categorize_and_draft" => HasWritten(x.from)
    /\ s = "apply_actions" =>
         HasWritten(x.mail.from) /\ x.category \in Categories
    /\ s = "schedule_and_update" => [lead |-> x, by |-> r] \in agreed

\* ... one that has been treated ...
DoneFits(r, s, x) ==
    /\ s = "create_research_leads" => x \in Candidate
    /\ s \in {"enrich_leads", "extract_emails"} => Worthy(x)
    /\ s \in {"draft_cold_emails", "create_gmail_drafts", "update_crm"} => DraftOf(r, x)
    /\ s = "update_crm" => InCrm(x.lead.email)
    /\ s \in Clients => x \in Companies \/ s = "create_crm_and_drafts"

\* ... and one in hand: of a hunt, only one whose mail is out and has yet to be recorded,
\* and a lead whose meeting is in the calendar.
HandFits(r, s, x) ==
    /\ s \in Drafting => /\ s = "send_on_approve"
                         /\ DraftOf(r, x) /\ Mailed(r, x.lead.email)
    /\ s = "schedule_and_update" => [lead |-> x, by |-> r] \in events

Fits(r) ==
    /\ \A x \in run[r].todo : TodoFits(r, run[r].step, x)
    /\ \A x \in run[r].done : DoneFits(r, run[r].step, x)
    /\ \A x \in run[r].hand : HandFits(r, run[r].step, x)

RunsOK == \A r \in Runs : Fits(r)

MailsOK ==
    /\ MailedWasApproved /\ MailedIsKnown
    /\ \A i \in DOMAIN mails : mails[i].by \in Runs => mails[i].to # NoAddress
    /\ \A i \in DOMAIN mails : mails[i].draft \in DOMAIN gmail

\* What stands behind a status that tells something.
ToldOf(i, status) ==
    /\ status = "email_sent" =>
         \E k \in DOMAIN mails : mails[k].by \in Runs /\ Had(i, mails[k].to)
    /\ status = "odpowiedzial" => Replied(i)
    /\ status = "spotkanie_umowione" => \E e \in events : e.lead = i

LeadsOK == \A i \in DOMAIN leads : ToldOf(i, leads[i].status)

EventsOK == events \subseteq agreed

OutreachInv == Shapes /\ RunsOK /\ MailsOK /\ LeadsOK /\ EventsOK

-------------------------------------------------------------------------------
(* What steps do to leads.                                                     *)

\* Addresses that are known stay, in the place they have, or are taken from it.
AddressesStay ==
    /\ leads' \in Seq(Lead)
    /\ DOMAIN leads \subseteq DOMAIN leads'
    /\ \A i \in DOMAIN leads : leads[i].email # NoAddress =>
         \/ leads'[i].email = leads[i].email
         \/ [lead |-> i, address |-> leads[i].email] \in taken'

Telling == {"email_sent", "odpowiedzial", "spotkanie_umowione"}

\* And no lead comes to a status that tells of a mail, of an answer or of a meeting.
NothingTold ==
    /\ AddressesStay
    /\ \A i \in DOMAIN leads : \/ leads'[i].status = leads[i].status
                               \/ leads'[i].status \notin Telling
    /\ \A i \in DOMAIN leads' \ DOMAIN leads : leads'[i].status \notin Telling

\* One lead becomes another document with the address it had, or one that takes its place.
LEMMA OneLeadChanges ==
    ASSUME leads \in Seq(Lead), NEW i, NEW doc, leads' = [leads EXCEPT ![i] = doc],
           i \in DOMAIN leads =>
             /\ doc \in Lead
             /\ \/ doc.email = leads[i].email
                \/ [lead |-> i, address |-> leads[i].email] \in taken'
             /\ doc.status = leads[i].status \/ doc.status \notin Telling
    PROVE  NothingTold
  <1>1. DOMAIN leads' = DOMAIN leads /\ Len(leads) \in Nat /\ DOMAIN leads = 1..Len(leads)
    OBVIOUS
  <1>2. \A j \in DOMAIN leads : leads'[j] = IF j = i THEN doc ELSE leads[j]
    OBVIOUS
  <1>3. \A j \in DOMAIN leads : leads'[j] \in Lead
    BY <1>2
  <1>4. leads' \in Seq(Lead)
    <2>1. CASE i \in DOMAIN leads
      BY <1>1, <2>1, ExceptSeq
    <2>2. CASE i \notin DOMAIN leads
      <3>1. leads = [j \in DOMAIN leads |-> leads[j]]
        OBVIOUS
      <3>2. leads' = [j \in DOMAIN leads |-> leads[j]]
        BY <2>2, <3>1, Zenon
      <3> QED BY <3>1, <3>2
    <2> QED BY <2>1, <2>2
  <1> QED BY <1>1, <1>2, <1>4 DEF NothingTold, AddressesStay

LEMMA LeadEnters ==
    ASSUME leads \in Seq(Lead), NEW doc \in Lead, doc.status \notin Telling,
           leads' = Append(leads, doc)
    PROVE  /\ NothingTold
           /\ \E i \in DOMAIN leads' : leads'[i] = doc
  <1>1. /\ leads' \in Seq(Lead) /\ Len(leads) \in Nat /\ Len(leads') = Len(leads) + 1
        /\ leads'[Len(leads) + 1] = doc
        /\ \A i \in DOMAIN leads : leads'[i] = leads[i]
        /\ DOMAIN leads = 1..Len(leads) /\ DOMAIN leads' = 1..Len(leads')
    OBVIOUS
  <1>2. \A i \in DOMAIN leads' \ DOMAIN leads : i = Len(leads) + 1
    BY <1>1
  <1> QED BY <1>1, <1>2 DEF NothingTold, AddressesStay

\* The document may tell something: what it owes is told by ToldLead.
LEMMA OneLeadBecomes ==
    ASSUME leads \in Seq(Lead), NEW i \in DOMAIN leads, NEW doc \in Lead,
           doc.email = leads[i].email, leads' = [leads EXCEPT ![i] = doc]
    PROVE  /\ AddressesStay /\ DOMAIN leads' = DOMAIN leads /\ leads'[i] = doc
           /\ \A j \in DOMAIN leads \ {i} : leads'[j] = leads[j]
  <1>1. leads' \in Seq(Lead)
    BY ExceptSeq
  <1>2. DOMAIN leads' = DOMAIN leads
        /\ \A j \in DOMAIN leads : leads'[j] = IF j = i THEN doc ELSE leads[j]
    OBVIOUS
  <1> QED BY <1>1, <1>2 DEF AddressesStay

LEMMA LeadsUnchanged ==
    ASSUME leads \in Seq(Lead), UNCHANGED leads
    PROVE  NothingTold
  BY DEF NothingTold, AddressesStay

-------------------------------------------------------------------------------
(* What stays true of the items of a run, whatever the others do.              *)

\* The mailbox, the history and the addresses only grow.
Grows ==
    /\ AddressesStay
    /\ \A k \in DOMAIN gmail : k \in DOMAIN gmail' /\ gmail'[k] = gmail[k]
    /\ \A k \in DOMAIN mails : k \in DOMAIN mails' /\ mails'[k] = mails[k]
    /\ allowed \subseteq allowed' /\ vouched \subseteq vouched'
    /\ taken \subseteq taken' /\ events \subseteq events' /\ agreed \subseteq agreed'
    /\ \A a \in Addresses : wrote[a] # "never" => wrote'[a] # "never"

LEMMA HadStays ==
    ASSUME Grows, NEW i \in DOMAIN leads, NEW a, a # NoAddress, Had(i, a)
    PROVE  Had(i, a)' /\ i \in DOMAIN leads'
  BY DEF Grows, AddressesStay, Had

LEMMA RepliedStays ==
    ASSUME Grows, NEW i \in DOMAIN leads, Replied(i)
    PROVE  Replied(i)'
  <1>1. CASE i \in vouched
    BY <1>1 DEF Grows, Replied
  <1>2. ASSUME NEW a \in Addresses, wrote[a] # "never", NEW b \in ContainsDomain[a], Had(i, b)
        PROVE  Replied(i)'
    <2>1. b # NoAddress
      BY CrmConstants
    <2>2. Had(i, b)'
      BY <1>2, <2>1, HadStays
    <2> QED BY <1>2, <2>2 DEF Grows, Replied
  <1> QED BY <1>1, <1>2 DEF Replied

LEMMA ToldStays ==
    ASSUME OutreachInv, Grows, NEW i \in DOMAIN leads, NEW status, ToldOf(i, status)
    PROVE  ToldOf(i, status)'
  <1>1. ASSUME NEW k \in DOMAIN mails, mails[k].by \in Runs, Had(i, mails[k].to)
        PROVE  (k \in DOMAIN mails /\ mails[k].by \in Runs /\ Had(i, mails[k].to))'
    <2>1. mails'[k] = mails[k] /\ k \in DOMAIN mails' /\ mails[k].to # NoAddress
      BY <1>1 DEF Grows, OutreachInv, MailsOK
    <2>2. PICK a : a = mails[k].to
      OBVIOUS
    <2>3. Had(i, a)'
      BY <1>1, <2>1, <2>2, HadStays
    <2> QED BY <1>1, <2>1, <2>2, <2>3 DEF Had
  <1>2. status = "email_sent" =>
          (\E k \in DOMAIN mails : mails[k].by \in Runs /\ Had(i, mails[k].to))'
    BY <1>1 DEF ToldOf
  <1>3. status = "odpowiedzial" => Replied(i)'
    BY RepliedStays DEF ToldOf
  <1>4. status = "spotkanie_umowione" => \E e \in events' : e.lead = i
    BY DEF ToldOf, Grows
  <1> QED BY <1>2, <1>3, <1>4 DEF ToldOf

LEMMA DraftStays ==
    ASSUME Grows, NEW r \in Runs, NEW d, DraftOf(r, d)
    PROVE  DraftOf(r, d)'
  BY DEF Grows, DraftOf, Worthy, HasMail

LEMMA AddressStays ==
    ASSUME Grows, NEW a, a # NoAddress
    PROVE  /\ InCrm(a) => InCrm(a)'
           /\ \A r \in Runs : Mailed(r, a) => Mailed(r, a)'
           /\ HasWritten(a) => HasWritten(a)'
  BY HadStays DEF Grows, InCrm, Mailed, HasWritten

LEMMA ItemsStay ==
    ASSUME Shapes, Grows, NEW r \in Runs, NEW s, NEW x
    PROVE  /\ TodoFits(r, s, x) => TodoFits(r, s, x)'
           /\ DoneFits(r, s, x) => DoneFits(r, s, x)'
           /\ HandFits(r, s, x) => HandFits(r, s, x)'
  <1>1. DraftOf(r, x) => DraftOf(r, x)' /\ x.lead.email # NoAddress
    BY DraftStays DEF DraftOf, HasMail
  <1>2. DraftOf(r, x) => (InCrm(x.lead.email) => InCrm(x.lead.email)')
                         /\ (Mailed(r, x.lead.email) => Mailed(r, x.lead.email)')
    BY <1>1, AddressStays
  <1>3. ASSUME TodoFits(r, s, x) PROVE TodoFits(r, s, x)'
    <2>1. s \in {"ask_approval", "await_approval", "send_on_approve"} => InCrm(x.lead.email)'
      BY <1>1, <1>2, <1>3 DEF TodoFits, Drafting
    <2>2. /\ s = "categorize_and_draft" => HasWritten(x.from)'
          /\ s = "apply_actions" => HasWritten(x.mail.from)'
      BY <1>3 DEF TodoFits, HasWritten, Grows
    <2>3. s = "schedule_and_update" => [lead |-> x, by |-> r] \in agreed'
      BY <1>3 DEF TodoFits, Grows
    <2>4. s = "send_on_approve" => x.draft = 0 \/ x.draft \in allowed'
      BY <1>3 DEF TodoFits, Grows
    <2> QED BY <1>1, <1>3, <2>1, <2>2, <2>3, <2>4 DEF TodoFits, Worthy
  <1>4. ASSUME DoneFits(r, s, x) PROVE DoneFits(r, s, x)'
    BY <1>1, <1>2, <1>4 DEF DoneFits, Worthy
  <1>5. ASSUME HandFits(r, s, x) PROVE HandFits(r, s, x)'
    BY <1>1, <1>2, <1>5 DEF HandFits, Grows
  <1> QED BY <1>3, <1>4, <1>5

LEMMA FitsStays ==
    ASSUME Shapes, Grows, NEW r \in Runs, Fits(r), run'[r] = run[r]
    PROVE  Fits(r)'
  BY ItemsStay DEF Fits

-------------------------------------------------------------------------------
(* Where a step leaves its run, and what it owes to the rest of the invariant. *)

\* The step is one of r alone.
Moves(r) ==
    /\ DOMAIN run' = Runs /\ IsRun(run'[r])
    /\ \A s \in Runs \ {r} : run'[s] = run[s]

LEMMA GotoMoves ==
    ASSUME Shapes, NEW r \in Runs, NEW step, NEW todo, Goto(r, step, todo)
    PROVE  /\ Moves(r)
           /\ run'[r].step = step /\ run'[r].todo = todo
           /\ run'[r].done = {} /\ run'[r].hand = {} /\ run'[r].approved = run[r].approved
  <1>1. /\ DOMAIN run' = Runs /\ \A s \in Runs \ {r} : run'[s] = run[s]
        /\ run'[r] = [run[r] EXCEPT !.step = step, !.todo = todo, !.done = {}, !.hand = {}]
    BY DEF Shapes, Goto
  <1>2. IsRun(run[r])
    BY DEF Shapes
  <1> QED BY <1>1, <1>2 DEF IsRun, Moves

LEMMA DropMoves ==
    ASSUME Shapes, NEW r \in Runs, NEW item, Drop(r, item)
    PROVE  /\ Moves(r)
           /\ run'[r].step = run[r].step /\ run'[r].todo = run[r].todo \ {item}
           /\ run'[r].done = run[r].done /\ run'[r].hand = run[r].hand
  <1>1. /\ DOMAIN run' = Runs /\ \A s \in Runs \ {r} : run'[s] = run[s]
        /\ run'[r] = [run[r] EXCEPT !.todo = run[r].todo \ {item}]
    BY DEF Shapes, Drop
  <1>2. IsRun(run[r])
    BY DEF Shapes
  <1> QED BY <1>1, <1>2 DEF IsRun, Moves

LEMMA KeepMoves ==
    ASSUME Shapes, NEW r \in Runs, NEW item, NEW kept, Keep(r, item, kept)
    PROVE  /\ Moves(r)
           /\ run'[r].step = run[r].step /\ run'[r].todo = run[r].todo \ {item}
           /\ run'[r].done = run[r].done \cup {kept} /\ run'[r].hand = run[r].hand
  <1>1. /\ DOMAIN run' = Runs /\ \A s \in Runs \ {r} : run'[s] = run[s]
        /\ run'[r] = [run[r] EXCEPT !.todo = run[r].todo \ {item}, !.done = run[r].done \cup {kept}]
    BY DEF Shapes, Keep
  <1>2. IsRun(run[r])
    BY DEF Shapes
  <1> QED BY <1>1, <1>2 DEF IsRun, Moves

LEMMA HoldMoves ==
    ASSUME Shapes, NEW r \in Runs, NEW item, NEW held, Hold(r, item, held)
    PROVE  /\ Moves(r)
           /\ run'[r].step = run[r].step /\ run'[r].todo = run[r].todo \ {item}
           /\ run'[r].done = run[r].done /\ run'[r].hand = {held}
  <1>1. /\ DOMAIN run' = Runs /\ \A s \in Runs \ {r} : run'[s] = run[s]
        /\ run'[r] = [run[r] EXCEPT !.todo = run[r].todo \ {item}, !.hand = {held}]
    BY DEF Shapes, Hold
  <1>2. IsRun(run[r])
    BY DEF Shapes
  <1> QED BY <1>1, <1>2 DEF IsRun, Moves

LEMMA SettleMoves ==
    ASSUME Shapes, NEW r \in Runs, NEW kept, Settle(r, kept)
    PROVE  /\ Moves(r)
           /\ run'[r].step = run[r].step /\ run'[r].todo = run[r].todo
           /\ run'[r].done = run[r].done \cup {kept} /\ run'[r].hand = {}
  <1>1. /\ DOMAIN run' = Runs /\ \A s \in Runs \ {r} : run'[s] = run[s]
        /\ run'[r] = [run[r] EXCEPT !.hand = {}, !.done = run[r].done \cup {kept}]
    BY DEF Shapes, Settle
  <1>2. IsRun(run[r])
    BY DEF Shapes
  <1> QED BY <1>1, <1>2 DEF IsRun, Moves

\* A step of r keeps what is known of all items if it keeps it of its own.
LEMMA StepKeepsItems ==
    ASSUME OutreachInv, Grows, NEW r \in Runs, Moves(r), Fits(r)'
    PROVE  RunsOK'
  BY FitsStays DEF OutreachInv, RunsOK, Moves

\* Where the rest of the world stays as it is, or only leads change that tell nothing.
World == <<gmail, mails, wrote, vouched, taken, events, allowed, agreed>>

LEMMA TellingStays ==
    ASSUME OutreachInv, Grows, NothingTold
    PROVE  LeadsOK'
  <1> SUFFICES ASSUME NEW i \in DOMAIN leads', NEW status, status = leads'[i].status
               PROVE  ToldOf(i, status)'
    BY DEF LeadsOK, ToldOf, Replied, Had
  <1>2. CASE status \in Telling
    <2>1. i \in DOMAIN leads /\ leads[i].status = status
      BY <1>2 DEF NothingTold
    <2>2. ToldOf(i, status)
      BY <2>1 DEF OutreachInv, LeadsOK
    <2> QED BY <2>1, <2>2, ToldStays
  <1>3. CASE status \notin Telling
    BY <1>3 DEF ToldOf, Telling
  <1> QED BY <1>2, <1>3

\* One lead comes to a status for which it has what it takes.
LEMMA ToldLead ==
    ASSUME OutreachInv, Grows, NEW i, NEW status, leads'[i].status = status, ToldOf(i, status)',
           DOMAIN leads' \subseteq DOMAIN leads \cup {i},
           \A j \in DOMAIN leads' \ {i} : leads'[j].status = leads[j].status
    PROVE  LeadsOK'
  <1> SUFFICES ASSUME NEW j \in DOMAIN leads', NEW told, told = leads'[j].status
               PROVE  ToldOf(j, told)'
    BY DEF LeadsOK, ToldOf, Replied, Had
  <1>1. CASE j = i
    BY <1>1
  <1>2. CASE j # i
    <2>1. j \in DOMAIN leads /\ ToldOf(j, told)
      BY <1>2 DEF OutreachInv, LeadsOK
    <2> QED BY <2>1, ToldStays
  <1> QED BY <1>1, <1>2

LEMMA EventsStay ==
    ASSUME OutreachInv, Grows, UNCHANGED events
    PROVE  EventsOK'
  BY DEF OutreachInv, EventsOK, Grows

LEMMA MailsStay ==
    ASSUME OutreachInv, Grows, UNCHANGED mails
    PROVE  MailsOK'
  <1> USE DEF OutreachInv, MailsOK
  <1>1. MailedWasApproved'
    BY DEF MailedWasApproved, Grows
  <1>2. MailedIsKnown'
    <2> SUFFICES ASSUME NEW i \in DOMAIN mails, mails[i].by \in Runs
                 PROVE  InCrm(mails[i].to)'
      BY DEF MailedIsKnown, InCrm, Had
    <2>1. InCrm(mails[i].to) /\ mails[i].to # NoAddress
      BY DEF MailedIsKnown, InCrm
    <2>2. PICK a : a = mails[i].to
      OBVIOUS
    <2>3. InCrm(a)'
      BY <2>1, <2>2, AddressStays
    <2> QED BY <2>2, <2>3 DEF InCrm, Had
  <1> QED BY <1>1, <1>2 DEF Grows

\* A step of a run that changes leads without telling anything, and nothing else.
LEMMA QuietStep ==
    ASSUME OutreachInv, NEW r \in Runs, Moves(r), Fits(r)', NothingTold, UNCHANGED World
    PROVE  OutreachInv'
  <1>1. Grows
    BY DEF Grows, NothingTold, World
  <1>2. Shapes'
    BY DEF OutreachInv, Shapes, Moves, World, NothingTold, AddressesStay
  <1> QED BY <1>1, <1>2, StepKeepsItems, TellingStays, EventsStay, MailsStay
          DEF OutreachInv, World

\* Nor leads: what fits before the step fits after it.
FitsNow(r) ==
    /\ \A x \in run'[r].todo : TodoFits(r, run'[r].step, x)
    /\ \A x \in run'[r].done : DoneFits(r, run'[r].step, x)
    /\ \A x \in run'[r].hand : HandFits(r, run'[r].step, x)

LEMMA NowIsLater ==
    ASSUME Shapes, Grows, NEW r \in Runs, FitsNow(r)
    PROVE  Fits(r)'
  <1>1. PICK s : s = run'[r].step
    OBVIOUS
  <1>2. /\ \A x \in run'[r].todo : TodoFits(r, s, x)
        /\ \A x \in run'[r].done : DoneFits(r, s, x)
        /\ \A x \in run'[r].hand : HandFits(r, s, x)
    BY <1>1 DEF FitsNow
  <1>3. /\ \A x \in run'[r].todo : TodoFits(r, s, x)'
        /\ \A x \in run'[r].done : DoneFits(r, s, x)'
        /\ \A x \in run'[r].hand : HandFits(r, s, x)'
    BY <1>2, ItemsStay
  <1> QED BY <1>1, <1>3 DEF Fits

LEMMA StillStep ==
    ASSUME OutreachInv, NEW r \in Runs, Moves(r), FitsNow(r), UNCHANGED <<leads, World>>
    PROVE  OutreachInv'
  <1>1. NothingTold
    BY LeadsUnchanged DEF OutreachInv, Shapes
  <1>2. Grows
    BY <1>1 DEF Grows, NothingTold, World
  <1>3. Fits(r)'
    BY <1>2, NowIsLater DEF OutreachInv
  <1> QED BY <1>1, <1>3, QuietStep

-------------------------------------------------------------------------------
(* The hunt for suppliers.                                                     *)

\* An address speaks for a lead: who is worth it without one is with one.
LEMMA BetterContact ==
    ASSUME NEW p, NEW mail, NEW other, Decision(p, mail) # "reject",
           ContactPoints(p, mail) \in Int, ContactPoints(p, other) \in Int,
           ContactPoints(p, other) >= ContactPoints(p, mail)
    PROVE  Decision(p, other) # "reject"
  <1>1. TypePoints(p) \in Int /\ TradePoints(p) \in Int /\ SourcePoints(p) \in Int
    BY DEF TypePoints, TradePoints, SourcePoints, Points
  <1>2. /\ Score(p, mail) \in Int /\ Score(p, other) \in Int
        /\ Score(p, other) >= Score(p, mail)
    BY <1>1 DEF Score
  <1> QED BY <1>2 DEF Decision

LEMMA AddressSpeaksFor ==
    ASSUME NEW p, NEW mail \in BOOLEAN, Decision(p, mail) # "reject"
    PROVE  Decision(p, TRUE) # "reject"
  <1>1. /\ ContactPoints(p, TRUE) \in Int /\ ContactPoints(p, mail) \in Int
        /\ ContactPoints(p, TRUE) >= ContactPoints(p, mail)
    BY DEF ContactPoints, Points
  <1> QED BY <1>1, BetterContact

LEMMA RatedFits ==
    ASSUME OutreachInv, NEW r \in Runs, NEW l, NEW rated \in Candidate,
           At(r, "enrich_leads"), Rated(r, l, rated)
    PROVE  Moves(r) /\ FitsNow(r)
  <1> DEFINE todo == run[r].todo
  <1>1. CASE Drop(r, l)
    BY <1>1, DropMoves DEF OutreachInv, RunsOK, Fits, FitsNow, At
  <1>2. CASE Keep(r, l, rated) /\ Decision(rated.profile, HasMail(rated)) # "reject"
    <2>1. Worthy(rated)
      BY <1>2, AddressSpeaksFor DEF Worthy, HasMail
    <2>2. DoneFits(r, "enrich_leads", rated)
      BY <2>1 DEF DoneFits, Clients
    <2> QED BY <1>2, <2>2, KeepMoves DEF OutreachInv, RunsOK, Fits, FitsNow, At
  <1> QED BY <1>1, <1>2 DEF Rated

\* What a research comes to is a candidate again.
LEMMA AddressedType ==
    ASSUME NEW l \in Candidate, NEW a \in Addressed(l)
    PROVE  a \in Addresses \cup {NoAddress} /\ [l EXCEPT !.email = a] \in Candidate
  <1>1. a \in Addresses \cup {NoAddress}
    BY HuntConstants DEF Candidate, Addressed
  <1> QED BY <1>1 DEF Candidate

LEMMA ResearchesType ==
    ASSUME NEW l \in Candidate, NEW rated \in Researches(l)
    PROVE  rated \in Candidate
  <1>1. ASSUME NEW found \in Findings, NEW doubts \in SUBSET Doubts
        PROVE  Researched(found, doubts) \in Profile
    BY HuntConstants DEF Researched, Profile, Signals
  <1>2. ASSUME NEW p \in Profile, NEW a \in Addressed(l)
        PROVE  Merged(l, p, a) \in Candidate
    BY AddressedType DEF Candidate, Merged
  <1>3. rated = l \/ \E found \in Findings, doubts \in SUBSET Doubts, a \in Addressed(l) :
                        rated = Merged(l, Researched(found, doubts), a)
    BY DEF Researches
  <1> QED BY <1>1, <1>2, <1>3

LEMMA QuietNow ==
    ASSUME OutreachInv, NEW r \in Runs, Moves(r), FitsNow(r), NothingTold, UNCHANGED World
    PROVE  OutreachInv'
  <1>1. Grows
    BY DEF Grows, NothingTold, World
  <1>2. Fits(r)'
    BY <1>1, NowIsLater DEF OutreachInv
  <1> QED BY <1>2, QuietStep

\* Steps of a hunt that leave the leads alone, up to the drafts.
LEMMA HuntMovesOn ==
    ASSUME OutreachInv, NEW r \in Runs,
           \/ GatherSources(r) \/ DiscoverViaNlm(r) \/ NextHuntStep(r) \/ SaveDrafts(r)
           \/ AskApproval(r) \/ EndHunt(r)
           \/ \E item \in run[r].todo : ExtractEmail(r, item) \/ DraftColdEmail(r, item)
    PROVE  OutreachInv'
  <1> USE DEF At, mailbox, records, others, World
  <1>0. Shapes /\ Fits(r)
    BY DEF OutreachInv, RunsOK
  <1>1. CASE GatherSources(r)
    <2>1. PICK sources : Goto(r, "discover_via_nlm", sources)
      BY <1>1 DEF GatherSources
    <2>2. Moves(r) /\ FitsNow(r)
      BY <1>0, <2>1, GotoMoves DEF FitsNow, TodoFits, Drafting, Clients
    <2> QED BY <1>1, <2>2, StillStep DEF GatherSources
  <1>2. CASE DiscoverViaNlm(r)
    <2>1. PICK offer \in IF run[r].todo = {} THEN {{}} ELSE Offers[r] :
            \E some \in Distinct(offer) : Goto(r, "create_research_leads", some)
      BY <1>2 DEF DiscoverViaNlm
    <2>2. PICK some \in SUBSET offer : Goto(r, "create_research_leads", some)
      BY <2>1 DEF Distinct
    <2>3. some \subseteq Candidate
      BY HuntConstants, <2>1, <2>2
    <2>4. Moves(r) /\ FitsNow(r)
      BY <1>0, <2>2, <2>3, GotoMoves DEF FitsNow, TodoFits, Drafting, Clients
    <2> QED BY <1>2, <2>4, StillStep DEF DiscoverViaNlm
  <1>3. CASE NextHuntStep(r)
    <2>1. PICK s \in DOMAIN HuntSteps : run[r].step = s /\ Goto(r, HuntSteps[s], run[r].done)
      BY <1>3 DEF NextHuntStep
    <2>2. \A x \in run[r].done : TodoFits(r, HuntSteps[s], x)
      BY <1>0, <2>1 DEF Fits, DoneFits, TodoFits, HuntSteps, Drafting, Clients
    <2>3. Moves(r) /\ FitsNow(r)
      BY <1>0, <2>1, <2>2, GotoMoves DEF FitsNow
    <2> QED BY <1>3, <2>3, StillStep DEF NextHuntStep
  <1>4. CASE SaveDrafts(r)
    <2>1. run[r].step = "save_drafts_fs" /\ Goto(r, "update_crm", run[r].todo)
      BY <1>4 DEF SaveDrafts
    <2>2. \A x \in run[r].todo : TodoFits(r, "update_crm", x)
      BY <1>0, <2>1 DEF Fits, TodoFits, Drafting, Clients
    <2>3. Moves(r) /\ FitsNow(r)
      BY <1>0, <2>1, <2>2, GotoMoves DEF FitsNow
    <2> QED BY <1>4, <2>3, StillStep DEF SaveDrafts
  <1>5. CASE AskApproval(r)
    <2>1. CASE Goto(r, "send_on_approve", {})
      <3>1. Moves(r) /\ FitsNow(r)
        BY <1>0, <2>1, GotoMoves DEF FitsNow
      <3> QED BY <1>5, <3>1, StillStep DEF AskApproval
    <2>2. CASE run[r].step = "ask_approval" /\ Goto(r, "await_approval", run[r].todo)
      <3>1. \A x \in run[r].todo : TodoFits(r, "await_approval", x)
        BY <1>0, <2>2 DEF Fits, TodoFits, Drafting, Clients
      <3>2. Moves(r) /\ FitsNow(r)
        BY <1>0, <2>2, <3>1, GotoMoves DEF FitsNow
      <3> QED BY <1>5, <3>2, StillStep DEF AskApproval
    <2> QED BY <1>5, <2>1, <2>2 DEF AskApproval
  <1>6. CASE EndHunt(r)
    <2>1. Goto(r, "done", {})
      BY <1>6 DEF EndHunt
    <2>2. Moves(r) /\ FitsNow(r)
      BY <1>0, <2>1, GotoMoves DEF FitsNow
    <2> QED BY <1>6, <2>2, StillStep DEF EndHunt
  <1>7. ASSUME NEW l \in run[r].todo, ExtractEmail(r, l)
        PROVE  OutreachInv'
    <2>1. PICK a \in Addressed(l) : Keep(r, l, [l EXCEPT !.email = a])
      BY <1>7 DEF ExtractEmail
    <2> DEFINE kept == [l EXCEPT !.email = a]
    <2>2. Worthy(l)
      BY <1>0, <1>7 DEF ExtractEmail, Fits, TodoFits
    <2>3. Worthy(kept)
      BY <2>2, AddressedType DEF Worthy, Candidate
    <2>4. DoneFits(r, "extract_emails", kept)
      BY <2>3 DEF DoneFits, Clients
    <2> HIDE DEF kept
    <2>5. Moves(r) /\ FitsNow(r)
      BY <1>0, <1>7, <2>1, <2>4, KeepMoves DEF FitsNow, Fits, ExtractEmail, kept
    <2> QED BY <1>7, <2>5, StillStep DEF ExtractEmail
  <1>8. ASSUME NEW l \in run[r].todo, DraftColdEmail(r, l)
        PROVE  OutreachInv'
    <2>1. CASE Drop(r, l)
      <3>1. Moves(r) /\ FitsNow(r)
        BY <1>0, <2>1, DropMoves DEF FitsNow, Fits
      <3> QED BY <1>8, <3>1, StillStep DEF DraftColdEmail
    <2>2. CASE HasMail(l) /\ Keep(r, l, [lead |-> l, draft |-> 0])
      <3> DEFINE kept == [lead |-> l, draft |-> 0]
      <3>1. Worthy(l)
        BY <1>0, <1>8 DEF DraftColdEmail, Fits, TodoFits
      <3>2. DraftOf(r, kept)
        BY <2>2, <3>1 DEF DraftOf, Worthy
      <3>3. DoneFits(r, "draft_cold_emails", kept)
        BY <3>2 DEF DoneFits, Clients
      <3> HIDE DEF kept
      <3>4. Moves(r) /\ FitsNow(r)
        BY <1>0, <1>8, <2>2, <3>3, KeepMoves DEF FitsNow, Fits, DraftColdEmail, kept
      <3> QED BY <1>8, <3>4, StillStep DEF DraftColdEmail
    <2> QED BY <1>8, <2>1, <2>2 DEF DraftColdEmail
  <1> QED BY <1>1, <1>2, <1>3, <1>4, <1>5, <1>6, <1>7, <1>8

\* A lead of the database gets another status, and with it maybe another name and region.
LEMMA StatusChanges ==
    ASSUME leads \in Seq(Lead), NEW i \in DOMAIN leads, NEW status \in Statuses \ Telling,
           leads' = [leads EXCEPT ![i] = [leads[i] EXCEPT !.status = status]]
    PROVE  NothingTold
  <1> DEFINE doc == [leads[i] EXCEPT !.status = status]
  <1>1. leads[i] \in Lead
    OBVIOUS
  <1>2. doc \in Lead /\ doc.email = leads[i].email /\ doc.status = status
    BY <1>1 DEF Lead
  <1> HIDE DEF doc
  <1>3. leads' = [leads EXCEPT ![i] = doc]
    BY DEF doc
  <1> QED BY <1>2, <1>3, OneLeadChanges

LEMMA RateChanges ==
    ASSUME leads \in Seq(Lead), NEW c, NEW status \in {"research_enriched", "research_rejected"},
           \/ UNCHANGED leads
           \/ \E i \in OfRegion(c) : leads' = [leads EXCEPT ![i] = [@ EXCEPT !.status = status]]
    PROVE  NothingTold
  <1>1. status \in Statuses \ Telling
    BY DEF Statuses, Telling
  <1>2. CASE UNCHANGED leads
    BY <1>2, LeadsUnchanged
  <1>3. ASSUME NEW i \in OfRegion(c), leads' = [leads EXCEPT ![i] = [@ EXCEPT !.status = status]]
        PROVE  NothingTold
    <2>1. i \in DOMAIN leads /\ leads' = [leads EXCEPT ![i] = [leads[i] EXCEPT !.status = status]]
      BY <1>3 DEF OfRegion
    <2> QED BY <1>1, <2>1, StatusChanges
  <1> QED BY <1>2, <1>3

LEMMA ResearchKeeps ==
    ASSUME OutreachInv, NEW r \in Runs, NEW l \in run[r].todo,
           EnrichLead(r, l) \/ EnrichFails(r, l)
    PROVE  OutreachInv'
  <1> USE DEF mailbox, records, others, World
  <1>1. Shapes /\ Fits(r) /\ leads \in Seq(Lead)
    BY DEF OutreachInv, RunsOK, Shapes
  <1>2. At(r, "enrich_leads")
    BY DEF EnrichLead, EnrichFails
  <1>3. l \in Candidate
    BY <1>1, <1>2 DEF Fits, TodoFits, At
  <1>4. CASE EnrichLead(r, l)
    <2>1. PICK rated \in Researches(l), status \in {"research_enriched", "research_rejected"} :
            /\ Rated(r, l, rated)
            /\ \/ UNCHANGED leads
               \/ \E i \in OfRegion(l.company) :
                    leads' = [leads EXCEPT ![i] = [@ EXCEPT !.status = status]]
      BY <1>4 DEF EnrichLead, UpdateOne
    <2>2. NothingTold
      BY <1>1, <2>1, RateChanges
    <2>3. Moves(r) /\ FitsNow(r)
      BY <1>2, <1>3, <2>1, ResearchesType, RatedFits
    <2> QED BY <1>4, <2>2, <2>3, QuietNow DEF EnrichLead
  <1>5. CASE EnrichFails(r, l)
    <2>1. PICK text \in {{}} \cup {found.signals : found \in Findings} :
            Rated(r, l, [l EXCEPT !.profile.signals = @ \cup text])
      BY <1>5 DEF EnrichFails
    <2>2. PICK status \in {"research_enriched", "research_rejected"} :
            \/ UNCHANGED leads
            \/ \E i \in OfRegion(l.company) :
                 leads' = [leads EXCEPT ![i] = [@ EXCEPT !.status = status]]
      BY <1>5 DEF EnrichFails, UpdateOne
    <2>3. NothingTold
      BY <1>1, <2>2, RateChanges
    <2> DEFINE rated == [l EXCEPT !.profile.signals = @ \cup text]
    <2>4. text \subseteq Signals
      BY <2>1, HuntConstants DEF Profile
    <2>5. rated \in Candidate
      <3>1. l.profile \in Profile
        BY <1>3 DEF Candidate
      <3>2. [l.profile EXCEPT !.signals = @ \cup text] \in Profile
        BY <2>4, <3>1 DEF Profile
      <3> QED BY <1>3, <3>2 DEF Candidate
    <2>6. Rated(r, l, rated)
      BY <2>1
    <2> HIDE DEF rated
    <2>7. Moves(r) /\ FitsNow(r)
      BY <1>2, <2>5, <2>6, RatedFits
    <2> QED BY <1>5, <2>3, <2>7, QuietNow DEF EnrichFails
  <1> QED BY <1>4, <1>5

LEMMA CandidatesEnter ==
    ASSUME OutreachInv, NEW r \in Runs, NEW l \in run[r].todo, CreateResearchLead(r, l)
    PROVE  OutreachInv'
  <1> USE DEF mailbox, records, others, World
  <1>1. Shapes /\ Fits(r) /\ leads \in Seq(Lead)
    BY DEF OutreachInv, RunsOK, Shapes
  <1>2. run[r].step = "create_research_leads" /\ l \in Candidate
    BY <1>1 DEF CreateResearchLead, Fits, TodoFits, At
  <1>3. PICK status \in {"research_queued", "research_needed"} :
          \/ Drop(r, l) /\ UNCHANGED leads
          \/ /\ Keep(r, l, l)
             /\ \/ leads' = Append(leads, [company |-> l.company, email |-> NoAddress,
                                           region |-> TRUE, status |-> status,
                                           meeting |-> FALSE, last |-> "never"])
                \/ \E i \in OfRegion(l.company) :
                     leads' = [leads EXCEPT ![i] = [@ EXCEPT !.status = status, !.meeting = FALSE]]
    BY DEF CreateResearchLead, Upsert, UpdateOne
  <1>4. status \in Statuses \ Telling
    BY DEF Statuses, CrmStatuses, Telling
  <1>5. NothingTold
    <2>1. CASE UNCHANGED leads
      BY <1>1, <2>1, LeadsUnchanged
    <2>2. CASE leads' = Append(leads, [company |-> l.company, email |-> NoAddress,
                                       region |-> TRUE, status |-> status,
                                       meeting |-> FALSE, last |-> "never"])
      <3> DEFINE doc == [company |-> l.company, email |-> NoAddress, region |-> TRUE,
                         status |-> status, meeting |-> FALSE, last |-> "never"]
      <3>1. doc \in Lead /\ doc.status \notin Telling
        BY <1>2, <1>4 DEF Lead, Candidate, Ages
      <3>2. leads' = Append(leads, doc)
        BY <2>2
      <3> HIDE DEF doc
      <3> QED BY <1>1, <3>1, <3>2, LeadEnters
    <2>3. ASSUME NEW i \in OfRegion(l.company),
                 leads' = [leads EXCEPT ![i] = [@ EXCEPT !.status = status, !.meeting = FALSE]]
          PROVE  NothingTold
      <3> DEFINE doc == [leads[i] EXCEPT !.status = status, !.meeting = FALSE]
      <3>1. i \in DOMAIN leads /\ leads[i] \in Lead
        BY <1>1 DEF OfRegion
      <3>2. doc \in Lead /\ doc.email = leads[i].email /\ doc.status \notin Telling
        BY <1>4, <3>1 DEF Lead
      <3>3. leads' = [leads EXCEPT ![i] = doc]
        BY <2>3
      <3> HIDE DEF doc
      <3> QED BY <1>1, <3>1, <3>2, <3>3, OneLeadChanges
    <2> QED BY <1>3, <2>1, <2>2, <2>3
  <1>6. DoneFits(r, "create_research_leads", l)
    BY <1>2 DEF DoneFits, Clients
  <1>7. Moves(r) /\ FitsNow(r)
    <2>1. CASE Drop(r, l)
      BY <1>1, <2>1, DropMoves DEF FitsNow, Fits
    <2>2. CASE Keep(r, l, l)
      BY <1>1, <1>2, <1>6, <2>2, KeepMoves DEF FitsNow, Fits
    <2> QED BY <1>3, <2>1, <2>2
  <1> QED BY <1>5, <1>7, QuietNow DEF CreateResearchLead

\* Drafts get a number, and the collection the leads they are for.
LEMMA WorldGrows ==
    ASSUME OutreachInv, Grows, NothingTold, Shapes', RunsOK', UNCHANGED <<mails, events>>
    PROVE  OutreachInv'
  BY TellingStays, EventsStay, MailsStay DEF OutreachInv

LEMMA DraftsEnter ==
    ASSUME OutreachInv, NEW r \in Runs, NEW d \in run[r].todo, CreateGmailDraft(r, d)
    PROVE  OutreachInv'
  <1> USE DEF mailbox, records, others
  <1> DEFINE new == [to |-> d.lead.email, by |-> r]
  <1>1. Shapes /\ Fits(r) /\ gmail \in Seq(GmailDraft) /\ leads \in Seq(Lead)
    BY DEF OutreachInv, RunsOK, Shapes
  <1>2. run[r].step = "create_gmail_drafts" /\ DraftOf(r, d)
    BY <1>1 DEF CreateGmailDraft, Fits, TodoFits, At, Drafting
  <1>3. UNCHANGED <<leads, mails, wrote, vouched, taken, events, allowed, agreed>>
    BY DEF CreateGmailDraft
  <1>4. new \in GmailDraft /\ new.by = r
    BY <1>2 DEF DraftOf, GmailDraft, Candidate
  <1>5. PICK kept : /\ Keep(r, d, kept)
                    /\ \/ gmail' = gmail /\ kept = d
                       \/ gmail' = Append(gmail, new)
                          /\ kept \in {d, [d EXCEPT !.draft = Len(gmail')]}
    BY DEF CreateGmailDraft
  <1> HIDE DEF new
  <1>6. /\ gmail' \in Seq(GmailDraft) /\ Len(gmail) \in Nat
        /\ \A k \in DOMAIN gmail : k \in DOMAIN gmail' /\ gmail'[k] = gmail[k]
        /\ gmail' = Append(gmail, new) =>
             Len(gmail') \in DOMAIN gmail' /\ gmail'[Len(gmail')] = new /\ Len(gmail') \in Nat
    BY <1>1, <1>4, <1>5
  <1>7. Grows /\ NothingTold
    BY <1>1, <1>3, <1>6, LeadsUnchanged DEF Grows, NothingTold
  <1>8. DraftOf(r, kept)'
    <2>1. CASE kept = d
      BY <1>2, <1>7, <2>1, DraftStays
    <2>2. CASE gmail' = Append(gmail, new) /\ kept = [d EXCEPT !.draft = Len(gmail')]
      <3>1. PICK n : n = Len(gmail')
        OBVIOUS
      <3>2. n \in Nat /\ n \in DOMAIN gmail' /\ gmail'[n] = new
        BY <1>6, <2>2, <3>1
      <3>3. kept \in [lead : Candidate, draft : Nat] /\ kept.lead = d.lead /\ kept.draft = n
        BY <1>2, <2>2, <3>1, <3>2 DEF DraftOf
      <3> QED BY <1>2, <1>4, <3>2, <3>3 DEF DraftOf, Worthy, HasMail
    <2> QED BY <1>5, <2>1, <2>2
  <1>9. Moves(r) /\ Fits(r)'
    <2>1. /\ Moves(r) /\ run'[r].step = "create_gmail_drafts"
          /\ run'[r].todo = run[r].todo \ {d} /\ run'[r].done = run[r].done \cup {kept}
          /\ run'[r].hand = run[r].hand
      BY <1>1, <1>2, <1>5, KeepMoves
    <2>2. DoneFits(r, "create_gmail_drafts", kept)'
      BY <1>8 DEF DoneFits, Clients
    <2>3. /\ \A x \in run[r].todo : TodoFits(r, "create_gmail_drafts", x)'
          /\ \A x \in run[r].done : DoneFits(r, "create_gmail_drafts", x)'
          /\ \A x \in run[r].hand : HandFits(r, "create_gmail_drafts", x)'
      BY <1>1, <1>2, <1>7, ItemsStay DEF Fits
    <2> QED BY <2>1, <2>2, <2>3 DEF Fits
  <1>10. RunsOK' /\ Shapes'
    BY <1>1, <1>3, <1>6, <1>7, <1>9, StepKeepsItems DEF Shapes, Moves
  <1> QED BY <1>3, <1>7, <1>10, WorldGrows

\* The lead a draft is for is found by its address, or enters with it.
LeadIsDrafted(d) ==
    \/ WithEmail(d.lead.email) = {} /\ leads' = Append(leads, Drafted(d.lead))
    \/ \E i \in WithEmail(d.lead.email) :
         leads' = [leads EXCEPT ![i] = [@ EXCEPT !.company = d.lead.company, !.region = TRUE,
                                                !.status = "draft_gotowy", !.meeting = FALSE]]

LEMMA DraftedLead ==
    ASSUME leads \in Seq(Lead), NEW d, d.lead \in Candidate, HasMail(d.lead),
           LeadIsDrafted(d)
    PROVE  NothingTold /\ InCrm(d.lead.email)'
  <1>1. CASE WithEmail(d.lead.email) = {} /\ leads' = Append(leads, Drafted(d.lead))
    <2>1. Drafted(d.lead) \in Lead /\ Drafted(d.lead).email = d.lead.email
          /\ Drafted(d.lead).status \notin Telling
      BY DEF Drafted, Lead, Candidate, Statuses, CrmStatuses, Ages, Telling
    <2> QED BY <1>1, <2>1, LeadEnters DEF InCrm, Had
  <1>2. ASSUME NEW i \in WithEmail(d.lead.email),
               leads' = [leads EXCEPT ![i] = [@ EXCEPT !.company = d.lead.company, !.region = TRUE,
                                                      !.status = "draft_gotowy", !.meeting = FALSE]]
        PROVE  NothingTold /\ InCrm(d.lead.email)'
    <2> DEFINE doc == [leads[i] EXCEPT !.company = d.lead.company, !.region = TRUE,
                                       !.status = "draft_gotowy", !.meeting = FALSE]
    <2>1. i \in DOMAIN leads /\ leads[i] \in Lead /\ leads[i].email = d.lead.email
      BY <1>2 DEF WithEmail
    <2>2. doc \in Lead /\ doc.email = leads[i].email /\ doc.status = "draft_gotowy"
      BY <2>1 DEF Lead, Candidate, Statuses, CrmStatuses
    <2>3. leads' = [leads EXCEPT ![i] = doc]
      BY <1>2
    <2> HIDE DEF doc
    <2>4. NothingTold
      BY <2>1, <2>2, <2>3, OneLeadChanges DEF Telling
    <2>5. leads'[i].email = d.lead.email
      BY <2>1, <2>2, <2>3
    <2> QED BY <2>1, <2>4, <2>5 DEF NothingTold, AddressesStay, InCrm, Had
  <1> QED BY <1>1, <1>2 DEF LeadIsDrafted

LEMMA DraftedLeadsEnter ==
    ASSUME OutreachInv, NEW r \in Runs, NEW d \in run[r].todo, UpdateCrm(r, d)
    PROVE  OutreachInv'
  <1> USE DEF mailbox, records, others, World
  <1>1. Shapes /\ Fits(r) /\ leads \in Seq(Lead)
    BY DEF OutreachInv, RunsOK, Shapes
  <1>2. run[r].step = "update_crm" /\ DraftOf(r, d)
    BY <1>1 DEF UpdateCrm, Fits, TodoFits, At, Drafting
  <1>3. UNCHANGED <<gmail, mails, wrote, vouched, taken, events, allowed, agreed>> /\ Keep(r, d, d)
    BY DEF UpdateCrm
  <1>4. LeadIsDrafted(d)
    BY DEF UpdateCrm, Upsert, UpdateOne, LeadIsDrafted
  <1>5. NothingTold /\ InCrm(d.lead.email)'
    BY <1>1, <1>2, <1>4, DraftedLead DEF DraftOf
  <1>6. Grows
    BY <1>3, <1>5 DEF Grows, NothingTold
  <1>7. DoneFits(r, "update_crm", d)'
    BY <1>2, <1>5, <1>6, DraftStays DEF DoneFits, Clients
  <1>8. /\ Moves(r) /\ run'[r].step = "update_crm"
        /\ run'[r].todo = run[r].todo \ {d} /\ run'[r].done = run[r].done \cup {d}
        /\ run'[r].hand = run[r].hand
    BY <1>1, <1>2, <1>3, KeepMoves
  <1>9. /\ \A x \in run[r].todo : TodoFits(r, "update_crm", x)'
        /\ \A x \in run[r].done : DoneFits(r, "update_crm", x)'
        /\ \A x \in run[r].hand : HandFits(r, "update_crm", x)'
    BY <1>1, <1>2, <1>6, ItemsStay DEF Fits
  <1>10. Fits(r)'
    BY <1>7, <1>8, <1>9 DEF Fits
  <1> QED BY <1>3, <1>5, <1>8, <1>10, QuietStep

\* The answer of a person: what it lets through is what may be sent.
LEMMA AnswerKeeps ==
    ASSUME OutreachInv, NEW r \in Runs, AnswerHunt(r)
    PROVE  OutreachInv'
  <1> USE DEF mailbox, records, others
  <1>1. Shapes /\ Fits(r) /\ leads \in Seq(Lead)
    BY DEF OutreachInv, RunsOK, Shapes
  <1>2. PICK approved \in BOOLEAN, rejected \in SUBSET run[r].todo : ResumeHunt(r, approved, rejected)
    BY DEF AnswerHunt
  <1> DEFINE passed == IF approved THEN run[r].todo \ rejected ELSE {}
  <1>3. /\ run[r].step = "await_approval"
        /\ UNCHANGED <<leads, gmail, mails, wrote, vouched, taken, events, agreed>>
        /\ allowed \subseteq allowed'
        /\ \A d \in passed : d.draft \in allowed'
    BY <1>2 DEF ResumeHunt, At
  <1>4. /\ DOMAIN run' = Runs /\ \A s \in Runs \ {r} : run'[s] = run[s]
        /\ run'[r] = [run[r] EXCEPT !.step = "send_on_approve", !.todo = passed,
                                    !.approved = passed # {}]
    BY <1>1, <1>2 DEF ResumeHunt, Passed, Shapes
  <1>5. /\ Moves(r) /\ run'[r].step = "send_on_approve" /\ run'[r].todo = passed
        /\ run'[r].done = run[r].done /\ run'[r].hand = run[r].hand
    BY <1>1, <1>4 DEF Moves, IsRun, Shapes
  <1>6. Grows /\ NothingTold
    BY <1>1, <1>3, LeadsUnchanged DEF Grows, NothingTold
  <1>7. \A x \in passed : TodoFits(r, "send_on_approve", x)'
    <2> SUFFICES ASSUME NEW x \in passed PROVE TodoFits(r, "send_on_approve", x)'
      OBVIOUS
    <2>1. TodoFits(r, "await_approval", x)'
      BY <1>1, <1>3, <1>6, ItemsStay DEF Fits
    <2> QED BY <1>3, <2>1 DEF TodoFits, Drafting, Clients
  <1>8. run[r].hand = {}
    BY <1>1, <1>3 DEF Fits, HandFits, Drafting
  <1>9. Fits(r)'
    BY <1>5, <1>7, <1>8 DEF Fits, DoneFits, Clients
  <1>10. RunsOK' /\ Shapes'
    BY <1>1, <1>3, <1>5, <1>6, <1>9, StepKeepsItems DEF Shapes, Moves
  <1> QED BY <1>3, <1>6, <1>10, WorldGrows

\* A mail goes out that was let through and has not gone out before.
LEMMA MailGoesOut ==
    ASSUME OutreachInv, Grows, NEW mail \in SentMail, mails' = Append(mails, mail),
           ~Sent(mail.draft), mail.draft \in DOMAIN gmail, UNCHANGED <<leads, gmail>>,
           mail.by \in Runs => /\ mail.draft \in allowed /\ gmail[mail.draft].by = mail.by
                               /\ InCrm(mail.to) /\ mail.to # NoAddress
    PROVE  MailsOK'
  <1>1. mails \in Seq(SentMail) /\ MailsOK
    BY DEF OutreachInv, Shapes
  <1>2. /\ Len(mails) \in Nat /\ DOMAIN mails = 1..Len(mails)
        /\ DOMAIN mails' = 1..(Len(mails) + 1) /\ mails'[Len(mails) + 1] = mail
        /\ \A i \in DOMAIN mails : mails'[i] = mails[i]
    BY <1>1
  <1>3. \A i \in DOMAIN mails' : i \in DOMAIN mails \/ i = Len(mails) + 1
    BY <1>2
  <1>4. \A i \in DOMAIN mails : mails[i].draft # mail.draft
    BY DEF Sent
  <1>5. MailedWasApproved'
    <2> SUFFICES ASSUME NEW i \in DOMAIN mails', NEW j \in DOMAIN mails'
                 PROVE  /\ mails'[i].by \in Runs =>
                             mails'[i].draft \in allowed' /\ gmail'[mails'[i].draft].by = mails'[i].by
                        /\ mails'[i].draft = mails'[j].draft => i = j
      BY DEF MailedWasApproved
    <2>1. mails'[i].by \in Runs =>
             mails'[i].draft \in allowed' /\ gmail'[mails'[i].draft].by = mails'[i].by
      BY <1>1, <1>2, <1>3 DEF MailsOK, MailedWasApproved, Grows
    <2>2. mails'[i].draft = mails'[j].draft => i = j
      BY <1>1, <1>2, <1>3, <1>4 DEF MailsOK, MailedWasApproved
    <2> QED BY <2>1, <2>2
  <1>6. MailedIsKnown'
    <2> SUFFICES ASSUME NEW i \in DOMAIN mails', mails'[i].by \in Runs,
                        NEW a, a = mails'[i].to
                 PROVE  InCrm(a)'
      BY DEF MailedIsKnown, InCrm, Had
    <2>1. a # NoAddress /\ InCrm(a)
      BY <1>1, <1>2, <1>3 DEF MailsOK, MailedIsKnown, InCrm
    <2> QED BY <2>1, AddressStays
  <1> QED BY <1>1, <1>2, <1>3, <1>5, <1>6 DEF MailsOK

LEMMA SendingKeeps ==
    ASSUME OutreachInv, NEW r \in Runs, NEW d \in run[r].todo, SendDraft(r, d)
    PROVE  OutreachInv'
  <1> USE DEF mailbox, records, others
  <1> DEFINE mail == [to |-> d.lead.email, by |-> r, draft |-> d.draft]
  <1>1. Shapes /\ Fits(r) /\ leads \in Seq(Lead) /\ mails \in Seq(SentMail)
    BY DEF OutreachInv, RunsOK, Shapes
  <1>2. run[r].step = "send_on_approve" /\ TodoFits(r, "send_on_approve", d)
    BY <1>1 DEF SendDraft, Fits, At
  <1>3. DraftOf(r, d) /\ InCrm(d.lead.email) /\ (d.draft = 0 \/ d.draft \in allowed)
    BY <1>2 DEF TodoFits, Drafting
  <1>4. UNCHANGED <<leads, gmail, wrote, vouched, taken, events, allowed, agreed>>
    BY DEF SendDraft
  <1>5. mail \in SentMail /\ mail.by = r /\ mail.draft = d.draft /\ mail.to = d.lead.email
    BY <1>3 DEF SentMail, DraftOf, Candidate
  <1>6. \/ mails' = mails /\ Keep(r, d, d)
        \/ /\ d.draft # 0 /\ ~Sent(d.draft) /\ mails' = Append(mails, mail)
           /\ Keep(r, d, d) \/ Hold(r, d, d)
    BY DEF SendDraft
  <1> HIDE DEF mail
  <1>7. /\ mails' \in Seq(SentMail) /\ Len(mails) \in Nat
        /\ \A k \in DOMAIN mails : k \in DOMAIN mails' /\ mails'[k] = mails[k]
        /\ mails' = Append(mails, mail) =>
             Len(mails) + 1 \in DOMAIN mails' /\ mails'[Len(mails) + 1] = mail
    BY <1>1, <1>5, <1>6
  <1>8. Grows /\ NothingTold
    BY <1>1, <1>4, <1>7, LeadsUnchanged DEF Grows, NothingTold
  <1>9. MailsOK'
    <2>1. CASE mails' = mails
      BY <1>8, <2>1, MailsStay
    <2>2. CASE d.draft # 0 /\ ~Sent(d.draft) /\ mails' = Append(mails, mail)
      BY <1>3, <1>4, <1>5, <1>8, <2>2, MailGoesOut DEF DraftOf, HasMail
    <2> QED BY <1>6, <2>1, <2>2
  <1>10. Moves(r) /\ Fits(r)'
    <2>1. /\ \A x \in run[r].todo : TodoFits(r, "send_on_approve", x)'
          /\ \A x \in run[r].done : DoneFits(r, "send_on_approve", x)'
          /\ \A x \in run[r].hand : HandFits(r, "send_on_approve", x)'
      BY <1>1, <1>2, <1>8, ItemsStay DEF Fits
    <2>2. CASE Keep(r, d, d)
      BY <1>1, <1>2, <2>1, <2>2, KeepMoves DEF Fits, DoneFits, Clients
    <2>3. CASE mails' = Append(mails, mail) /\ Hold(r, d, d)
      <3>1. Mailed(r, d.lead.email)'
        BY <1>5, <1>7, <2>3 DEF Mailed
      <3>2. HandFits(r, "send_on_approve", d)'
        BY <1>3, <1>8, <3>1, DraftStays DEF HandFits
      <3> QED BY <1>1, <1>2, <2>1, <2>3, <3>2, HoldMoves DEF Fits
    <2> QED BY <1>6, <2>2, <2>3
  <1>11. RunsOK' /\ Shapes'
    BY <1>1, <1>4, <1>7, <1>8, <1>10, StepKeepsItems DEF Shapes, Moves
  <1> QED BY <1>4, <1>8, <1>9, <1>11, TellingStays, EventsStay DEF OutreachInv

\* The status says that a mail went out to leads with the address of one that did.
LEMMA RecordKeeps ==
    ASSUME OutreachInv, NEW r \in Runs, RecordSent(r)
    PROVE  OutreachInv'
  <1> USE DEF mailbox, records, others
  <1>1. Shapes /\ Fits(r) /\ leads \in Seq(Lead)
    BY DEF OutreachInv, RunsOK, Shapes
  <1>2. PICK d \in run[r].hand :
          /\ \/ UNCHANGED leads
             \/ \E i \in WithEmail(d.lead.email) :
                  leads' = [leads EXCEPT ![i] = [@ EXCEPT !.status = "email_sent"]]
          /\ Settle(r, d)
    BY DEF RecordSent, UpdateOne, MailedLeads
  <1>3. run[r].step = "send_on_approve" /\ DraftOf(r, d) /\ Mailed(r, d.lead.email)
    BY <1>1 DEF RecordSent, Fits, HandFits, At, Drafting
  <1>4. UNCHANGED <<gmail, mails, wrote, vouched, taken, events, allowed, agreed>>
    BY DEF RecordSent
  <1>5. AddressesStay /\ (Grows => LeadsOK')
    <2>1. CASE UNCHANGED leads
      BY <1>1, <2>1, LeadsUnchanged, TellingStays DEF NothingTold
    <2>2. ASSUME NEW i \in WithEmail(d.lead.email),
                 leads' = [leads EXCEPT ![i] = [@ EXCEPT !.status = "email_sent"]]
          PROVE  AddressesStay /\ (Grows => LeadsOK')
      <3> DEFINE doc == [leads[i] EXCEPT !.status = "email_sent"]
      <3>1. i \in DOMAIN leads /\ leads[i] \in Lead /\ leads[i].email = d.lead.email
        BY <1>1 DEF WithEmail
      <3>2. doc \in Lead /\ doc.email = leads[i].email /\ doc.status = "email_sent"
        BY <3>1 DEF Lead, Statuses
      <3>3. leads' = [leads EXCEPT ![i] = doc]
        BY <2>2
      <3> HIDE DEF doc
      <3>4. /\ AddressesStay /\ DOMAIN leads' = DOMAIN leads /\ leads'[i] = doc
            /\ \A j \in DOMAIN leads \ {i} : leads'[j] = leads[j]
        BY <1>1, <3>1, <3>2, <3>3, OneLeadBecomes
      <3>5. ToldOf(i, "email_sent")'
        BY <1>3, <1>4, <3>1, <3>2, <3>4 DEF ToldOf, Mailed, Had
      <3> QED BY <3>2, <3>4, <3>5, ToldLead
    <2> QED BY <1>2, <2>1, <2>2
  <1>6. Grows
    BY <1>4, <1>5 DEF Grows
  <1>7. LeadsOK'
    BY <1>5, <1>6
  <1>8. FitsNow(r) /\ Moves(r)
    BY <1>1, <1>2, <1>3, SettleMoves DEF FitsNow, Fits, DoneFits, Clients
  <1>9. RunsOK' /\ Shapes'
    BY <1>1, <1>4, <1>5, <1>6, <1>8, NowIsLater, StepKeepsItems
       DEF Shapes, Moves, AddressesStay
  <1> QED BY <1>4, <1>6, <1>7, <1>9, EventsStay, MailsStay DEF OutreachInv

LEMMA HuntKeeps ==
    ASSUME OutreachInv, NEW r \in Runs, HuntStep(r)
    PROVE  OutreachInv'
  BY HuntMovesOn, ResearchKeeps, CandidatesEnter, DraftsEnter, DraftedLeadsEnter, SendingKeeps,
     RecordKeeps DEF HuntStep

-------------------------------------------------------------------------------
(* The hunt for clients.                                                       *)

\* What is in hand, or done, of a run that is no hunt for suppliers is nobody's concern.
LEMMA FreeHands ==
    ASSUME NEW r, NEW x, NEW s, s \notin Drafting \cup {"schedule_and_update"}
    PROVE  HandFits(r, s, x)
  BY DEF HandFits

LEMMA LastStepIsFree ==
    ASSUME NEW r, NEW x
    PROVE  DoneFits(r, "create_crm_and_drafts", x)
  BY DEF DoneFits, Clients

LEMMA ClientsMoveOn ==
    ASSUME OutreachInv, NEW r \in Runs,
           \/ DiscoverLeads(r) \/ NextClientStep(r) \/ GenerateColdEmails(r) \/ Report(r)
           \/ \E item \in run[r].todo : CrmCheck(r, item) \/ EnrichAndQualify(r, item)
    PROVE  OutreachInv'
  <1> USE DEF At, mailbox, records, others, World
  <1>0. Shapes /\ Fits(r)
    BY DEF OutreachInv, RunsOK
  <1>1. CASE DiscoverLeads(r)
    <2>1. PICK found \in Firms : Goto(r, "dedup_and_crm_check", found)
      BY <1>1 DEF DiscoverLeads
    <2>2. \A x \in found : TodoFits(r, "dedup_and_crm_check", x)
      BY FirmsAssumption DEF TodoFits, Drafting
    <2>3. Moves(r) /\ FitsNow(r)
      BY <1>0, <2>1, <2>2, GotoMoves DEF FitsNow
    <2> QED BY <1>1, <2>3, StillStep DEF DiscoverLeads
  <1>2. CASE NextClientStep(r)
    <2>1. PICK s \in DOMAIN ClientSteps : run[r].step = s /\ Goto(r, ClientSteps[s], run[r].done)
      BY <1>2 DEF NextClientStep
    <2>2. \A x \in run[r].done : TodoFits(r, ClientSteps[s], x)
      BY <1>0, <2>1 DEF Fits, DoneFits, TodoFits, ClientSteps, Drafting, Clients
    <2>3. Moves(r) /\ FitsNow(r)
      BY <1>0, <2>1, <2>2, GotoMoves DEF FitsNow
    <2> QED BY <1>2, <2>3, StillStep DEF NextClientStep
  <1>3. CASE GenerateColdEmails(r)
    <2>1. run[r].step = "generate_cold_emails" /\ Goto(r, "create_crm_and_drafts", run[r].todo)
      BY <1>3 DEF GenerateColdEmails
    <2>2. \A x \in run[r].todo : TodoFits(r, "create_crm_and_drafts", x)
      BY <1>0, <2>1 DEF Fits, TodoFits, Drafting, Clients
    <2>3. Moves(r) /\ FitsNow(r)
      BY <1>0, <2>1, <2>2, GotoMoves DEF FitsNow
    <2> QED BY <1>3, <2>3, StillStep DEF GenerateColdEmails
  <1>4. CASE Report(r)
    <2>1. Moves(r) /\ FitsNow(r)
      BY <1>0, <1>4, GotoMoves DEF FitsNow, Report
    <2> QED BY <1>4, <2>1, StillStep DEF Report
  <1>5. ASSUME NEW c \in run[r].todo, CrmCheck(r, c) \/ EnrichAndQualify(r, c)
        PROVE  OutreachInv'
    <2>1. run[r].step \in {"dedup_and_crm_check", "enrich_and_qualify"}
          /\ (Drop(r, c) \/ Keep(r, c, c)) /\ UNCHANGED <<leads, World>>
      BY <1>5 DEF CrmCheck, EnrichAndQualify
    <2>2. DoneFits(r, run[r].step, c)
      BY <1>0, <2>1 DEF Fits, TodoFits, DoneFits, Clients
    <2>3. CASE Drop(r, c)
      BY <1>0, <2>1, <2>3, DropMoves, StillStep DEF FitsNow, Fits
    <2>4. CASE Keep(r, c, c)
      BY <1>0, <2>1, <2>2, <2>4, KeepMoves, StillStep DEF FitsNow, Fits
    <2> QED BY <2>1, <2>3, <2>4
  <1> QED BY <1>1, <1>2, <1>3, <1>4, <1>5

\* A lead without an address, and a draft to nobody.
LEMMA ClientsEnter ==
    ASSUME OutreachInv, NEW r \in Runs,
           \/ \E c \in run[r].todo : CreateCrmLead(r, c)
           \/ CreateEmptyDraft(r) \/ LinkDraft(r)
    PROVE  OutreachInv'
  <1> USE DEF At, mailbox, records, others, World
  <1>0. Shapes /\ Fits(r) /\ leads \in Seq(Lead) /\ gmail \in Seq(GmailDraft)
    BY DEF OutreachInv, RunsOK, Shapes
  <1>1. ASSUME NEW c \in run[r].todo, CreateCrmLead(r, c)
        PROVE  OutreachInv'
    <2> DEFINE new == [company |-> c, email |-> NoAddress, region |-> FALSE, status |-> "nowy",
                       meeting |-> FALSE, last |-> "never"]
    <2>1. run[r].step = "create_crm_and_drafts" /\ c \in Companies
      BY <1>0, <1>1 DEF CreateCrmLead, Fits, TodoFits, Clients
    <2>2. new \in Lead /\ new.status \notin Telling
      BY <2>1 DEF Lead, Statuses, Ages, Telling
    <2>3. UNCHANGED World /\ (UNCHANGED leads \/ leads' = Append(leads, new))
      BY <1>1 DEF CreateCrmLead
    <2> HIDE DEF new
    <2>4. NothingTold
      BY <1>0, <2>2, <2>3, LeadEnters, LeadsUnchanged
    <2>5. PICK held : Hold(r, c, held)
      BY <1>1 DEF CreateCrmLead
    <2>6. Moves(r) /\ FitsNow(r)
      BY <1>0, <2>1, <2>5, HoldMoves, FreeHands DEF FitsNow, Fits, Drafting
    <2> QED BY <2>3, <2>4, <2>6, QuietNow
  <1>2. CASE CreateEmptyDraft(r)
    <2> DEFINE new == [to |-> NoAddress, by |-> r]
    <2>1. PICK item \in run[r].hand :
            /\ Settle(r, item) \/ \E held : Hold(r, item, held)
            /\ gmail' = gmail \/ gmail' = Append(gmail, new)
      BY <1>2 DEF CreateEmptyDraft
    <2>2. UNCHANGED <<leads, mails, wrote, vouched, taken, events, allowed, agreed>>
          /\ run[r].step = "create_crm_and_drafts"
      BY <1>2 DEF CreateEmptyDraft
    <2>3. new \in GmailDraft
      BY DEF GmailDraft
    <2> HIDE DEF new
    <2>4. /\ gmail' \in Seq(GmailDraft)
          /\ \A k \in DOMAIN gmail : k \in DOMAIN gmail' /\ gmail'[k] = gmail[k]
      BY <1>0, <2>1, <2>3
    <2>5. Grows /\ NothingTold
      BY <1>0, <2>2, <2>4, LeadsUnchanged DEF Grows, NothingTold
    <2>6. Moves(r) /\ FitsNow(r)
      <3>1. CASE Settle(r, item)
        BY <1>0, <2>2, <3>1, SettleMoves, LastStepIsFree DEF FitsNow, Fits
      <3>2. ASSUME NEW held, Hold(r, item, held)
            PROVE  Moves(r) /\ FitsNow(r)
        BY <1>0, <2>2, <3>2, HoldMoves, FreeHands DEF FitsNow, Fits, Drafting
      <3> QED BY <2>1, <3>1, <3>2
    <2>7. RunsOK' /\ Shapes'
      BY <1>0, <2>2, <2>4, <2>5, <2>6, NowIsLater, StepKeepsItems DEF Shapes, Moves
    <2> QED BY <2>2, <2>5, <2>7, WorldGrows
  <1>3. CASE LinkDraft(r)
    <2>1. PICK item \in run[r].hand :
            /\ Settle(r, item)
            /\ \/ UNCHANGED leads
               \/ leads' = [leads EXCEPT ![item.id].status = "draft_gotowy"]
      BY <1>3 DEF LinkDraft
    <2>2. NothingTold
      <3>1. CASE UNCHANGED leads
        BY <1>0, <3>1, LeadsUnchanged
      <3>2. CASE leads' = [leads EXCEPT ![item.id].status = "draft_gotowy"]
        <4> DEFINE doc == [leads[item.id] EXCEPT !.status = "draft_gotowy"]
        <4>1. item.id \in DOMAIN leads => /\ doc \in Lead /\ doc.email = leads[item.id].email
                                          /\ doc.status \notin Telling
          <5> SUFFICES ASSUME item.id \in DOMAIN leads
                       PROVE  /\ doc \in Lead /\ doc.email = leads[item.id].email
                              /\ doc.status \notin Telling
            OBVIOUS
          <5>1. leads[item.id] \in Lead
            BY <1>0
          <5> QED BY <5>1 DEF Lead, Statuses, CrmStatuses, Telling
        <4>2. leads' = [leads EXCEPT ![item.id] = doc]
          BY <3>2
        <4> HIDE DEF doc
        <4> QED BY <1>0, <4>1, <4>2, OneLeadChanges
      <3> QED BY <2>1, <3>1, <3>2
    <2>3. Moves(r) /\ FitsNow(r)
      BY <1>0, <1>3, <2>1, SettleMoves, LastStepIsFree DEF FitsNow, Fits, LinkDraft
    <2> QED BY <1>3, <2>2, <2>3, QuietNow DEF LinkDraft
  <1> QED BY <1>1, <1>2, <1>3

LEMMA ClientsKeep ==
    ASSUME OutreachInv, NEW r \in Runs, ClientStep(r)
    PROVE  OutreachInv'
  BY ClientsMoveOn, ClientsEnter DEF ClientStep

-------------------------------------------------------------------------------
(* After the first mail: the inbox, the synchronisation and the follow-ups.    *)

\* Somebody has been busy with the lead: its status, and when.
LEMMA LeadIsTouched ==
    ASSUME leads \in Seq(Lead), NEW i, NEW status, NEW last \in Ages,
           leads' = [leads EXCEPT ![i] = [@ EXCEPT !.status = status, !.last = last]],
           i \in DOMAIN leads => status = leads[i].status \/ status \in Statuses \ Telling
    PROVE  NothingTold
  <1> DEFINE doc == [leads[i] EXCEPT !.status = status, !.last = last]
  <1>1. ASSUME i \in DOMAIN leads
        PROVE  /\ doc \in Lead /\ doc.email = leads[i].email
               /\ doc.status = leads[i].status \/ doc.status \notin Telling
    <2>1. leads[i] \in Lead
      BY <1>1
    <2>2. status \in Statuses
      BY <1>1, <2>1 DEF Lead
    <2> QED BY <1>1, <2>1, <2>2 DEF Lead
  <1>2. leads' = [leads EXCEPT ![i] = doc]
    OBVIOUS
  <1> HIDE DEF doc
  <1> QED BY <1>1, <1>2, OneLeadChanges

LEMMA FollowUpsMoveOn ==
    ASSUME OutreachInv, NEW r \in Runs,
           \/ ScanInbox(r) \/ CategorizeAndDraft(r) \/ FetchSentEmails(r) \/ BeginMatch(r)
           \/ EndSync(r) \/ FindStaleLeads(r) \/ GenerateFollowups(r) \/ EndFollowUp(r)
           \/ \E item \in run[r].todo : MatchEmail(r, item)
    PROVE  OutreachInv'
  <1> USE DEF At, mailbox, records, others, World
  <1>0. Shapes /\ Fits(r)
    BY DEF OutreachInv, RunsOK
  <1>1. CASE ScanInbox(r)
    <2> DEFINE inbox == {[from |-> a, known |-> WithEmail(a) # {}] :
                            a \in {b \in Addresses : wrote[b] = "recent"}}
    <2>1. \A x \in inbox : TodoFits(r, "categorize_and_draft", x)
      BY DEF TodoFits, HasWritten, Drafting, Clients
    <2>2. Goto(r, "categorize_and_draft", inbox)
      BY <1>1 DEF ScanInbox
    <2> HIDE DEF inbox
    <2>3. Moves(r) /\ FitsNow(r)
      BY <1>0, <2>1, <2>2, GotoMoves DEF FitsNow
    <2> QED BY <1>1, <2>3, StillStep DEF ScanInbox
  <1>2. CASE CategorizeAndDraft(r)
    <2>1. PICK some \in SUBSET run[r].todo : \E category \in [some -> Categories] :
            Goto(r, "apply_actions", {[mail |-> m, category |-> category[m]] : m \in some})
      BY <1>2 DEF CategorizeAndDraft
    <2>2. PICK category \in [some -> Categories] :
            Goto(r, "apply_actions", {[mail |-> m, category |-> category[m]] : m \in some})
      BY <2>1
    <2> DEFINE items == {[mail |-> m, category |-> category[m]] : m \in some}
    <2>3. \A m \in some : HasWritten(m.from)
      BY <1>0, <1>2, <2>1 DEF CategorizeAndDraft, Fits, TodoFits
    <2>4. \A x \in items : TodoFits(r, "apply_actions", x)
      BY <2>2, <2>3 DEF TodoFits, Drafting, Clients
    <2>5. Goto(r, "apply_actions", items)
      BY <2>2
    <2> HIDE DEF items
    <2>6. Moves(r) /\ FitsNow(r)
      BY <1>0, <2>4, <2>5, GotoMoves DEF FitsNow
    <2> QED BY <1>2, <2>6, StillStep DEF CategorizeAndDraft
  <1>3. ASSUME NEW s \in {"done", "begin_match", "match_and_sync", "generate_followup_drafts",
                          "save_followup_drafts"},
               NEW todo, Goto(r, s, todo), UNCHANGED <<leads, World>>
        PROVE  OutreachInv'
    <2>1. \A x \in todo : TodoFits(r, s, x)
      BY DEF TodoFits, Drafting, Clients
    <2> QED BY <1>0, <1>3, <2>1, GotoMoves, StillStep DEF FitsNow
  <1>4. ASSUME FetchSentEmails(r) \/ BeginMatch(r) \/ EndSync(r) \/ FindStaleLeads(r)
               \/ GenerateFollowups(r) \/ EndFollowUp(r)
        PROVE  \E s \in {"done", "begin_match", "match_and_sync", "generate_followup_drafts",
                         "save_followup_drafts"} : \E todo : Goto(r, s, todo)
    BY <1>4 DEF FetchSentEmails, BeginMatch, EndSync, FindStaleLeads, GenerateFollowups,
                EndFollowUp
  <1>5. ASSUME NEW item \in run[r].todo, MatchEmail(r, item)
        PROVE  OutreachInv'
    <2>1. CASE Keep(r, item, item)
      BY <1>0, <1>5, <2>1, KeepMoves, StillStep DEF MatchEmail, FitsNow, Fits, DoneFits, Clients
    <2>2. ASSUME NEW held, Hold(r, item, held)
          PROVE  OutreachInv'
      BY <1>0, <1>5, <2>2, HoldMoves, StillStep, FreeHands
         DEF MatchEmail, FitsNow, Fits, Drafting
    <2> QED BY <1>5, <2>1, <2>2 DEF MatchEmail
  <1> QED BY <1>1, <1>2, <1>3, <1>4, <1>5
          DEF FetchSentEmails, BeginMatch, EndSync, FindStaleLeads, GenerateFollowups, EndFollowUp

\* Who has written from the domain of a lead has answered for it.
LEMMA AnswerIsApplied ==
    ASSUME OutreachInv, NEW r \in Runs, NEW item \in run[r].todo, ApplyAction(r, item)
    PROVE  OutreachInv'
  <1> USE DEF mailbox, records, others
  <1>1. Shapes /\ Fits(r) /\ leads \in Seq(Lead)
    BY DEF OutreachInv, RunsOK, Shapes
  <1>2. /\ run[r].step = "apply_actions" /\ Drop(r, item)
        /\ UNCHANGED <<gmail, mails, wrote, vouched, taken, events, allowed, agreed>>
    BY DEF ApplyAction, At
  <1>3. HasWritten(item.mail.from) /\ item.category \in Categories
    BY <1>1, <1>2 DEF Fits, TodoFits
  <1>4. \/ UNCHANGED leads
        \/ \E i \in DOMAIN leads :
             /\ leads[i].email \in ContainsDomain[item.mail.from]
             /\ leads' = [leads EXCEPT ![i] = [leads[i] EXCEPT
                  !.last = "recent",
                  !.status = IF item.category = "other" THEN leads[i].status ELSE item.category]]
    BY DEF ApplyAction, UpdateOne, Senders
  <1>5. AddressesStay /\ (Grows => LeadsOK')
    <2>1. CASE UNCHANGED leads
      BY <1>1, <2>1, LeadsUnchanged, TellingStays DEF NothingTold
    <2>2. ASSUME NEW i \in DOMAIN leads, leads[i].email \in ContainsDomain[item.mail.from],
                 leads' = [leads EXCEPT ![i] = [leads[i] EXCEPT
                   !.last = "recent",
                   !.status = IF item.category = "other" THEN leads[i].status ELSE item.category]]
          PROVE  AddressesStay /\ (Grows => LeadsOK')
      <3> DEFINE status == IF item.category = "other" THEN leads[i].status ELSE item.category
      <3> DEFINE doc == [leads[i] EXCEPT !.last = "recent", !.status = status]
      <3>1. leads[i] \in Lead
        BY <1>1
      <3>2. status \in Statuses /\ status \in {leads[i].status, "odrzucony", "odpowiedzial"}
        BY <1>3, <3>1 DEF Lead, Categories, Statuses, CrmStatuses
      <3>3. leads' = [leads EXCEPT ![i] = doc]
        BY <2>2
      <3> HIDE DEF status
      <3>4. doc \in Lead /\ doc.email = leads[i].email /\ doc.status = status
        BY <3>1, <3>2 DEF Lead, Ages
      <3> HIDE DEF doc
      <3>5. /\ AddressesStay /\ DOMAIN leads' = DOMAIN leads /\ leads'[i] = doc
            /\ \A j \in DOMAIN leads \ {i} : leads'[j] = leads[j]
        BY <1>1, <3>3, <3>4, OneLeadBecomes
      <3>6. ASSUME Grows PROVE LeadsOK'
        <4>1. PICK new : new = status
          OBVIOUS
        <4>2. CASE new = leads[i].status
          <5>1. ToldOf(i, new)
            BY <4>2 DEF OutreachInv, LeadsOK
          <5>2. ToldOf(i, new)'
            BY <3>6, <5>1, ToldStays
          <5> QED BY <3>4, <3>5, <3>6, <4>1, <5>2, ToldLead
        <4>3. CASE new = "odrzucony"
          <5>1. ToldOf(i, new)'
            BY <4>3 DEF ToldOf
          <5> QED BY <3>4, <3>5, <3>6, <4>1, <5>1, ToldLead
        <4>4. CASE new = "odpowiedzial"
          <5>1. Replied(i)'
            BY <1>2, <1>3, <2>2, <3>4, <3>5 DEF Replied, HasWritten, Had
          <5>2. ToldOf(i, new)'
            BY <4>4, <5>1 DEF ToldOf
          <5> QED BY <3>4, <3>5, <3>6, <4>1, <5>2, ToldLead
        <4> QED BY <3>2, <4>1, <4>2, <4>3, <4>4
      <3> QED BY <3>5, <3>6
    <2> QED BY <1>4, <2>1, <2>2
  <1>6. Grows
    BY <1>2, <1>5 DEF Grows
  <1>7. LeadsOK'
    BY <1>5, <1>6
  <1>8. FitsNow(r) /\ Moves(r)
    BY <1>1, <1>2, DropMoves DEF FitsNow, Fits
  <1>9. RunsOK' /\ Shapes'
    BY <1>1, <1>2, <1>5, <1>6, <1>8, NowIsLater, StepKeepsItems
       DEF Shapes, Moves, AddressesStay
  <1> QED BY <1>2, <1>6, <1>7, <1>9, EventsStay, MailsStay DEF OutreachInv

LEMMA FollowUpsTreat ==
    ASSUME OutreachInv, NEW r \in Runs,
           SyncLead(r) \/ \E i \in run[r].todo : SaveFollowup(r, i)
    PROVE  OutreachInv'
  <1> USE DEF mailbox, records, others, World
  <1>0. Shapes /\ Fits(r) /\ leads \in Seq(Lead)
    BY DEF OutreachInv, RunsOK, Shapes
  <1>1. CASE SyncLead(r)
    <2>1. PICK held \in run[r].hand :
            /\ leads' = [leads EXCEPT ![held.lead].last = "recent",
                                      ![held.lead].status = IF held.new THEN "sent" ELSE @]
            /\ Settle(r, held.item)
      BY <1>1 DEF SyncLead
    <2>2. PICK status :
            /\ leads' = [leads EXCEPT ![held.lead] =
                           [@ EXCEPT !.status = status, !.last = "recent"]]
            /\ status \in {leads[held.lead].status, "sent"}
      BY <2>1
    <2>3. "sent" \in Statuses \ Telling /\ "recent" \in Ages
      BY DEF Statuses, CrmStatuses, Telling, Ages
    <2>4. NothingTold
      BY <1>0, <2>2, <2>3, LeadIsTouched
    <2>5. Moves(r) /\ FitsNow(r)
      BY <1>0, <1>1, <2>1, SettleMoves DEF SyncLead, At, FitsNow, Fits, DoneFits, Clients
    <2> QED BY <1>1, <2>4, <2>5, QuietNow DEF SyncLead
  <1>2. ASSUME NEW i \in run[r].todo, SaveFollowup(r, i)
        PROVE  OutreachInv'
    <2>1. \/ UNCHANGED leads
          \/ leads' = [leads EXCEPT ![i] = [@ EXCEPT !.status = "draft_gotowy", !.last = "recent"]]
      BY <1>2 DEF SaveFollowup, UpdateOne
    <2>2. NothingTold
      BY <1>0, <2>1, LeadIsTouched, LeadsUnchanged DEF Statuses, CrmStatuses, Telling, Ages
    <2>3. Moves(r) /\ FitsNow(r)
      BY <1>0, <1>2, DropMoves DEF SaveFollowup, At, FitsNow, Fits
    <2> QED BY <1>2, <2>2, <2>3, QuietNow DEF SaveFollowup
  <1> QED BY <1>1, <1>2

LEMMA FollowUpsKeep ==
    ASSUME OutreachInv, NEW r \in Runs, FollowUpStep(r)
    PROVE  OutreachInv'
  BY FollowUpsMoveOn, AnswerIsApplied, FollowUpsTreat DEF FollowUpStep

-------------------------------------------------------------------------------
(* Meetings, proposals, and the tool that creates leads.                       *)

Talks == {"done", "generate_meeting_proposals", "meeting_approval", "generate_proposal",
          "proposal_approval", "save_proposal"}

LEMMA SalesMoveOn ==
    ASSUME OutreachInv, NEW r \in Runs,
           \/ FindHotLeads(r) \/ GenerateMeetingProposals(r) \/ EndMeeting(r) \/ LoadLead(r)
           \/ GenerateProposal(r) \/ \E approved \in BOOLEAN : ResumeProposal(r, approved)
    PROVE  OutreachInv'
  <1> USE DEF At, mailbox, records, others, World
  <1>0. Shapes /\ Fits(r)
    BY DEF OutreachInv, RunsOK
  <1>1. PICK s \in Talks : \E some : Goto(r, s, some)
    BY DEF Talks, FindHotLeads, GenerateMeetingProposals, EndMeeting, LoadLead, GenerateProposal,
           ResumeProposal
  <1>2. PICK some : Goto(r, s, some)
    BY <1>1
  <1>3. UNCHANGED <<leads, World>>
    BY DEF FindHotLeads, GenerateMeetingProposals, EndMeeting, LoadLead, GenerateProposal,
           ResumeProposal
  <1>4. \A x \in some : TodoFits(r, s, x)
    BY DEF TodoFits, Drafting, Clients, Talks
  <1>5. Moves(r) /\ FitsNow(r)
    BY <1>0, <1>2, <1>4, GotoMoves DEF FitsNow
  <1> QED BY <1>3, <1>5, StillStep

\* The answer of a person: what it lets through is what may be entered.
LEMMA MeetingsAreLetThrough ==
    ASSUME OutreachInv, NEW r \in Runs, NEW approved \in BOOLEAN,
           NEW chosen \in SUBSET run[r].todo, ResumeMeeting(r, approved, chosen)
    PROVE  OutreachInv'
  <1> USE DEF mailbox, records, others
  <1> DEFINE through == {j \in run[r].todo : approved /\ (chosen = {} \/ j \in chosen)}
  <1>0. Shapes /\ Fits(r) /\ leads \in Seq(Lead)
    BY DEF OutreachInv, RunsOK, Shapes
  <1>1. /\ UNCHANGED <<leads, gmail, mails, wrote, vouched, taken, events, allowed>>
        /\ agreed \subseteq agreed' /\ \A i \in through : [lead |-> i, by |-> r] \in agreed'
    BY DEF ResumeMeeting
  <1>2. PICK s \in {"done", "schedule_and_update"}, some \in SUBSET through : Goto(r, s, some)
    <2>1. LetThrough(run[r].todo, approved, chosen) \subseteq through
      BY DEF LetThrough
    <2> QED BY <2>1 DEF ResumeMeeting
  <1> HIDE DEF through
  <1>3. Grows /\ NothingTold
    BY <1>0, <1>1, LeadsUnchanged DEF Grows, NothingTold
  <1>4. \A x \in some : TodoFits(r, s, x)'
    BY <1>1, <1>2 DEF TodoFits, Drafting, Clients
  <1>5. Moves(r) /\ Fits(r)'
    BY <1>0, <1>2, <1>4, GotoMoves DEF Fits
  <1>6. RunsOK' /\ Shapes'
    BY <1>0, <1>1, <1>3, <1>5, StepKeepsItems DEF Shapes, Moves
  <1> QED BY <1>1, <1>3, <1>6, WorldGrows

LEMMA SalesTreat ==
    ASSUME OutreachInv, NEW r \in Runs,
           (\E i \in run[r].todo : InsertEvent(r, i)) \/ MarkMeeting(r) \/ SaveProposal(r)
    PROVE  OutreachInv'
  <1> USE DEF mailbox, records, others
  <1>0. Shapes /\ Fits(r) /\ leads \in Seq(Lead)
    BY DEF OutreachInv, RunsOK, Shapes
  <1>1. ASSUME NEW i \in run[r].todo, InsertEvent(r, i)
        PROVE  OutreachInv'
    <2> DEFINE event == [lead |-> i, by |-> r]
    <2>1. /\ run[r].step = "schedule_and_update" /\ Hold(r, i, i)
          /\ events' = events \cup {event}
          /\ UNCHANGED <<leads, gmail, mails, wrote, vouched, taken, allowed, agreed>>
      BY <1>1 DEF InsertEvent, At
    <2>2. event \in agreed
      BY <1>0, <2>1 DEF Fits, TodoFits
    <2>3. Grows /\ NothingTold
      BY <1>0, <2>1, LeadsUnchanged DEF Grows, NothingTold
    <2>4. EventsOK'
      BY <2>1, <2>2 DEF OutreachInv, EventsOK
    <2>5. HandFits(r, "schedule_and_update", i)'
      BY <2>1 DEF HandFits, Drafting
    <2> HIDE DEF event
    <2>6. /\ \A x \in run[r].todo : TodoFits(r, "schedule_and_update", x)'
          /\ \A x \in run[r].done : DoneFits(r, "schedule_and_update", x)'
      BY <1>0, <2>1, <2>3, ItemsStay DEF Fits
    <2>7. Moves(r) /\ Fits(r)'
      BY <1>0, <2>1, <2>5, <2>6, HoldMoves DEF Fits
    <2>8. RunsOK' /\ Shapes'
      BY <1>0, <2>1, <2>3, <2>7, StepKeepsItems DEF Shapes, Moves
    <2> QED BY <2>1, <2>3, <2>4, <2>8, TellingStays, MailsStay DEF OutreachInv
  <1>2. CASE MarkMeeting(r)
    <2>1. PICK i \in run[r].hand :
            /\ \/ UNCHANGED leads
               \/ i \in DOMAIN leads
                  /\ leads' = [leads EXCEPT ![i] = [leads[i] EXCEPT
                       !.status = "spotkanie_umowione", !.meeting = TRUE, !.last = "recent"]]
            /\ Settle(r, i)
      BY <1>2 DEF MarkMeeting, UpdateOne
    <2>2. /\ run[r].step = "schedule_and_update"
          /\ UNCHANGED <<gmail, mails, wrote, vouched, taken, events, allowed, agreed>>
      BY <1>2 DEF MarkMeeting, At
    <2>3. [lead |-> i, by |-> r] \in events'
      BY <1>0, <2>1, <2>2 DEF Fits, HandFits
    <2>4. AddressesStay /\ (Grows => LeadsOK')
      <3>1. CASE UNCHANGED leads
        BY <1>0, <3>1, LeadsUnchanged, TellingStays DEF NothingTold
      <3>2. ASSUME i \in DOMAIN leads,
                   leads' = [leads EXCEPT ![i] = [leads[i] EXCEPT
                     !.status = "spotkanie_umowione", !.meeting = TRUE, !.last = "recent"]]
            PROVE  AddressesStay /\ (Grows => LeadsOK')
        <4> DEFINE doc == [leads[i] EXCEPT !.status = "spotkanie_umowione", !.meeting = TRUE,
                                           !.last = "recent"]
        <4>1. leads[i] \in Lead
          BY <1>0, <3>2
        <4>2. doc \in Lead /\ doc.email = leads[i].email /\ doc.status = "spotkanie_umowione"
          BY <4>1 DEF Lead, Statuses, Ages
        <4>3. leads' = [leads EXCEPT ![i] = doc]
          BY <3>2
        <4> HIDE DEF doc
        <4>4. /\ AddressesStay /\ DOMAIN leads' = DOMAIN leads /\ leads'[i] = doc
              /\ \A j \in DOMAIN leads \ {i} : leads'[j] = leads[j]
          BY <1>0, <3>2, <4>2, <4>3, OneLeadBecomes
        <4>5. \E e \in events' : e.lead = i
          BY <2>3
        <4>6. ToldOf(i, "spotkanie_umowione")'
          BY <4>5 DEF ToldOf
        <4> QED BY <4>2, <4>4, <4>6, ToldLead
      <3> QED BY <2>1, <3>1, <3>2
    <2>5. Grows
      BY <2>2, <2>4 DEF Grows
    <2>6. Moves(r) /\ FitsNow(r)
      BY <1>0, <2>1, <2>2, SettleMoves DEF FitsNow, Fits, DoneFits, Clients
    <2>7. RunsOK' /\ Shapes'
      BY <1>0, <2>2, <2>4, <2>5, <2>6, NowIsLater, StepKeepsItems
         DEF Shapes, Moves, AddressesStay
    <2> QED BY <2>2, <2>4, <2>5, <2>7, EventsStay, MailsStay DEF OutreachInv
  <1>3. CASE SaveProposal(r)
    <2>1. PICK i \in run[r].todo :
            leads' = [leads EXCEPT ![i].status = "draft_gotowy", ![i].last = "recent"]
      BY <1>3 DEF SaveProposal
    <2>2. leads' = [leads EXCEPT ![i] = [@ EXCEPT !.status = "draft_gotowy", !.last = "recent"]]
      BY <2>1
    <2>3. NothingTold
      BY <1>0, <2>2, LeadIsTouched DEF Statuses, CrmStatuses, Telling, Ages
    <2>4. Moves(r) /\ FitsNow(r)
      BY <1>0, <1>3, GotoMoves DEF SaveProposal, FitsNow
    <2> QED BY <1>3, <2>3, <2>4, QuietNow DEF SaveProposal, World
  <1> QED BY <1>1, <1>2, <1>3

LEMMA SalesKeep ==
    ASSUME OutreachInv, NEW r \in Runs, SalesStep(r) \/ AnswerSales(r)
    PROVE  OutreachInv'
  BY SalesMoveOn, SalesTreat, MeetingsAreLetThrough DEF SalesStep, AnswerSales

\* What crm_create_lead writes is of the type of a lead, and tells nothing.
LEMMA CreateKeeps ==
    ASSUME OutreachInv, NEW r \in Runs, CreateLead(r)
    PROVE  OutreachInv'
  <1> USE DEF mailbox, records, others, World
  <1>0. Shapes /\ Fits(r) /\ leads \in Seq(Lead)
    BY DEF OutreachInv, RunsOK, Shapes
  <1>1. CASE FindLead(r)
    <2>1. PICK c \in Companies, a \in Addresses \cup {NoAddress}, found \in BOOLEAN :
            Goto(r, "write_lead", {[company |-> c, email |-> a, found |-> found]})
      BY <1>1 DEF FindLead
    <2> DEFINE call == [company |-> c, email |-> a, found |-> found]
    <2>2. TodoFits(r, "write_lead", call)
      BY DEF TodoFits, Drafting, Clients
    <2> HIDE DEF call
    <2>3. Moves(r) /\ FitsNow(r)
      BY <1>0, <2>1, <2>2, GotoMoves DEF FitsNow, call
    <2> QED BY <1>1, <2>3, StillStep DEF FindLead
  <1>2. CASE WriteLead(r)
    <2>1. /\ run[r].step = "write_lead" /\ Goto(r, "done", {})
          /\ UNCHANGED <<gmail, mails, wrote, taken, events, allowed, agreed>>
      BY <1>2 DEF WriteLead, At
    <2>2. PICK call \in run[r].todo, region \in BOOLEAN, meeting \in BOOLEAN,
               status \in SetByTools \cup {"research_needed"} :
            LET Rewrite(doc) == [doc EXCEPT !.company = call.company, !.region = region,
                                            !.meeting = meeting]
                found == IF call.email = NoAddress THEN Named(call.company)
                         ELSE WithEmail(call.email)
            IN  IF call.found THEN UpdateOne(found, Rewrite) /\ UNCHANGED vouched
                ELSE /\ leads' = Append(leads,
                          [company |-> call.company, email |-> call.email, region |-> region,
                           status |-> status, meeting |-> meeting, last |-> "recent"])
                     /\ Vouches(Len(leads'), status)
      BY <1>2 DEF WriteLead
    <2>3. \/ UNCHANGED <<leads, vouched>>
          \/ /\ UNCHANGED vouched
             /\ \E i \in DOMAIN leads :
                  leads' = [leads EXCEPT ![i] = [leads[i] EXCEPT
                    !.company = call.company, !.region = region, !.meeting = meeting]]
          \/ /\ leads' = Append(leads,
                  [company |-> call.company, email |-> call.email, region |-> region,
                   status |-> status, meeting |-> meeting, last |-> "recent"])
             /\ Vouches(Len(leads'), status)
      BY <2>2 DEF UpdateOne, Named, WithEmail
    <2>4. call.company \in Companies /\ call.email \in Addresses \cup {NoAddress}
      BY <1>0, <2>1 DEF Fits, TodoFits
    <2>5. CASE UNCHANGED <<leads, vouched>>
      <3>1. Moves(r) /\ FitsNow(r)
        BY <1>0, <2>1, GotoMoves DEF FitsNow
      <3> QED BY <2>1, <2>5, <3>1, StillStep
    <2>6. ASSUME NEW i \in DOMAIN leads, UNCHANGED vouched,
                 leads' = [leads EXCEPT ![i] = [leads[i] EXCEPT
                   !.company = call.company, !.region = region, !.meeting = meeting]]
          PROVE  OutreachInv'
      <3> DEFINE doc == [leads[i] EXCEPT !.company = call.company, !.region = region,
                                         !.meeting = meeting]
      <3>1. leads[i] \in Lead
        BY <1>0
      <3>2. doc \in Lead /\ doc.email = leads[i].email /\ doc.status = leads[i].status
        BY <2>4, <3>1 DEF Lead
      <3>3. leads' = [leads EXCEPT ![i] = doc]
        BY <2>6
      <3> HIDE DEF doc
      <3>4. NothingTold
        BY <1>0, <3>2, <3>3, OneLeadChanges
      <3>5. Moves(r) /\ FitsNow(r)
        BY <1>0, <2>1, GotoMoves DEF FitsNow
      <3> QED BY <2>1, <2>6, <3>4, <3>5, QuietNow
    <2>7. ASSUME leads' = Append(leads,
                   [company |-> call.company, email |-> call.email, region |-> region,
                    status |-> status, meeting |-> meeting, last |-> "recent"]),
                 Vouches(Len(leads'), status)
          PROVE  OutreachInv'
      <3> DEFINE doc == [company |-> call.company, email |-> call.email, region |-> region,
                         status |-> status, meeting |-> meeting, last |-> "recent"]
      <3> DEFINE n == Len(leads')
      <3>1. status \in Statuses /\ status \notin {"email_sent", "spotkanie_umowione"}
        BY CrmConstants DEF Statuses, CrmStatuses
      <3>2. doc \in Lead /\ doc.status = status
        BY <2>4, <3>1 DEF Lead, Ages
      <3>3. leads' = Append(leads, doc)
        BY <2>7
      <3> HIDE DEF doc
      <3>4. /\ leads' \in Seq(Lead) /\ leads'[n] = doc /\ DOMAIN leads' = DOMAIN leads \cup {n}
            /\ \A j \in DOMAIN leads : leads'[j] = leads[j] /\ j # n
        BY <1>0, <3>2, <3>3
      <3> HIDE DEF n
      <3>5. vouched \subseteq vouched' /\ (status = "odpowiedzial" => n \in vouched')
        BY <2>7 DEF Vouches, n
      <3>6. Grows
        BY <2>1, <3>4, <3>5 DEF Grows, AddressesStay
      <3>7. PICK m : m = n
        OBVIOUS
      <3>8. LeadsOK'
        <4>1. ToldOf(m, status)'
          BY <3>1, <3>5, <3>7 DEF ToldOf, Replied
        <4> QED BY <3>2, <3>4, <3>6, <3>7, <4>1, ToldLead
      <3>9. Moves(r) /\ FitsNow(r)
        BY <1>0, <2>1, GotoMoves DEF FitsNow
      <3>10. RunsOK' /\ Shapes'
        BY <1>0, <2>1, <3>4, <3>6, <3>9, NowIsLater, StepKeepsItems DEF Shapes, Moves
      <3> QED BY <2>1, <3>6, <3>8, <3>10, EventsStay, MailsStay DEF OutreachInv
    <2> QED BY <2>3, <2>5, <2>6, <2>7
  <1>3. CASE CreateLeadFails(r)
    <2>1. Moves(r) /\ FitsNow(r)
      BY <1>0, <1>3, GotoMoves DEF FitsNow, CreateLeadFails
    <2> QED BY <1>3, <2>1, StillStep DEF CreateLeadFails
  <1> QED BY <1>1, <1>2, <1>3 DEF CreateLead

-------------------------------------------------------------------------------
(* Everybody else.                                                             *)

\* The runs stay where they are: what is known of their items only has to stay true.
LEMMA AllFitsStays ==
    ASSUME OutreachInv, Grows, UNCHANGED run
    PROVE  RunsOK'
  BY FitsStays DEF OutreachInv, RunsOK

LEMMA ToolsKeep ==
    ASSUME OutreachInv, Tools
    PROVE  OutreachInv'
  <1> USE DEF mailbox, records, others, FromOutside, ToolCall
  <1>0. Shapes /\ leads \in Seq(Lead) /\ \A i \in DOMAIN leads : leads[i] \in Lead
    BY DEF OutreachInv, Shapes
  <1>1. ASSUME NothingTold, ToolCall, vouched \subseteq vouched', taken \subseteq taken'
        PROVE  OutreachInv'
    <2>1. Grows
      BY <1>1 DEF Grows, NothingTold
    <2>2. Shapes'
      BY <1>0, <1>1 DEF Shapes, NothingTold, AddressesStay
    <2> QED BY <1>1, <2>1, <2>2, AllFitsStays, WorldGrows
  <1>2. ASSUME NEW i \in DOMAIN leads, NEW status \in SetByTools, UpdateStatus(i, status)
        PROVE  OutreachInv'
    <2> DEFINE doc == [leads[i] EXCEPT !.status = status, !.last = "recent"]
    <2>1. status \in Statuses /\ status \notin {"email_sent", "spotkanie_umowione"}
      BY CrmConstants DEF Statuses, CrmStatuses
    <2>2. doc \in Lead /\ doc.email = leads[i].email /\ doc.status = status
      BY <1>0, <2>1 DEF Lead, Ages
    <2>3. leads' = [leads EXCEPT ![i] = doc]
      BY <1>2 DEF UpdateStatus
    <2> HIDE DEF doc
    <2>4. /\ vouched \subseteq vouched' /\ (status = "odpowiedzial" => i \in vouched')
          /\ UNCHANGED <<gmail, mails, wrote, taken, events, allowed, agreed, run>>
      BY <1>2 DEF UpdateStatus, Vouches
    <2>5. /\ AddressesStay /\ DOMAIN leads' = DOMAIN leads /\ leads'[i] = doc
          /\ \A j \in DOMAIN leads \ {i} : leads'[j] = leads[j]
      BY <1>0, <2>2, <2>3, OneLeadBecomes
    <2>6. Grows
      BY <2>4, <2>5 DEF Grows
    <2>7. ToldOf(i, status)'
      BY <2>1, <2>4 DEF ToldOf, Replied
    <2>8. LeadsOK'
      BY <2>2, <2>5, <2>6, <2>7, ToldLead
    <2>9. Shapes'
      BY <1>0, <2>4, <2>5 DEF Shapes, AddressesStay
    <2> QED BY <2>4, <2>6, <2>8, <2>9, AllFitsStays, EventsStay, MailsStay DEF OutreachInv
  <1>3. ASSUME NEW i \in DOMAIN leads, NEW new \in Updates(leads[i]), UpdateLead(i, new)
        PROVE  OutreachInv'
    <2> DEFINE doc == [new EXCEPT !.last = "recent"]
    <2>1. new \in Lead /\ new.status = leads[i].status
      BY <1>0 DEF Lead, Updates
    <2>2. doc \in Lead /\ doc.status = leads[i].status /\ doc.email = new.email
      BY <2>1 DEF Lead, Ages
    <2>3. leads' = [leads EXCEPT ![i] = doc]
      BY <1>3 DEF UpdateLead
    <2> HIDE DEF doc
    <2>4. /\ taken \subseteq taken' /\ UNCHANGED vouched
          /\ \/ new.email = leads[i].email
             \/ [lead |-> i, address |-> leads[i].email] \in taken'
      BY <1>3 DEF UpdateLead
    <2>5. NothingTold
      BY <1>0, <2>2, <2>3, <2>4, OneLeadChanges
    <2> QED BY <1>1, <1>3, <2>4, <2>5 DEF UpdateLead
  <1>4. ASSUME NEW i \in DOMAIN leads, RecordEmailDraft(i) \/ AddInteraction(i)
        PROVE  OutreachInv'
    <2>1. PICK status \in {leads[i].status, "draft_gotowy"} :
            leads' = [leads EXCEPT ![i] = [@ EXCEPT !.status = status, !.last = "recent"]]
      <3>1. CASE RecordEmailDraft(i)
        BY <3>1 DEF RecordEmailDraft
      <3>2. CASE AddInteraction(i)
        <4> DEFINE doc == [leads[i] EXCEPT !.last = "recent"]
        <4>1. doc = [leads[i] EXCEPT !.status = leads[i].status, !.last = "recent"]
          BY <1>0 DEF Lead
        <4>2. leads' = [leads EXCEPT ![i] = doc]
          BY <3>2 DEF AddInteraction
        <4> QED BY <4>1, <4>2
      <3> QED BY <1>4, <3>1, <3>2
    <2>2. "draft_gotowy" \in Statuses \ Telling /\ "recent" \in Ages
      BY DEF Statuses, CrmStatuses, Telling, Ages
    <2>3. NothingTold
      BY <1>0, <2>1, <2>2, LeadIsTouched
    <2> QED BY <1>1, <1>4, <2>3 DEF RecordEmailDraft, AddInteraction
  <1> QED BY <1>2, <1>3, <1>4 DEF Tools

LEMMA PeopleKeep ==
    ASSUME OutreachInv,
           \/ \E a \in Addresses : Writes(a)
           \/ \E d \in DOMAIN gmail, a \in Addresses : SendByHand(d, a)
           \/ TimePasses
    PROVE  OutreachInv'
  <1> USE DEF mailbox, records, others, FromOutside
  <1>0. /\ Shapes /\ leads \in Seq(Lead) /\ mails \in Seq(SentMail)
        /\ \A i \in DOMAIN leads : leads[i] \in Lead
    BY DEF OutreachInv, Shapes
  <1>1. ASSUME NEW a \in Addresses, Writes(a)
        PROVE  OutreachInv'
    <2>1. /\ wrote' = [wrote EXCEPT ![a] = "recent"]
          /\ UNCHANGED <<leads, gmail, mails, vouched, taken, events, allowed, agreed, run>>
      BY <1>1 DEF Writes
    <2>2. Grows /\ NothingTold
      BY <1>0, <2>1, LeadsUnchanged DEF Grows, NothingTold, Shapes
    <2>3. Shapes'
      BY <1>0, <2>1 DEF Shapes
    <2> QED BY <2>1, <2>2, <2>3, AllFitsStays, WorldGrows
  <1>2. ASSUME NEW d \in DOMAIN gmail, NEW a \in Addresses, SendByHand(d, a)
        PROVE  OutreachInv'
    <2> DEFINE mail == [to |-> a, by |-> "person", draft |-> d]
    <2>1. /\ ~Sent(d) /\ mails' = Append(mails, mail)
          /\ UNCHANGED <<leads, gmail, wrote, vouched, taken, events, allowed, agreed, run>>
      BY <1>2 DEF SendByHand
    <2>2. mail \in SentMail /\ mail.draft = d /\ mail.by \notin Runs
      BY <1>0, CrmConstants DEF Shapes, SentMail
    <2> HIDE DEF mail
    <2>3. /\ mails' \in Seq(SentMail)
          /\ \A k \in DOMAIN mails : k \in DOMAIN mails' /\ mails'[k] = mails[k]
      BY <1>0, <2>1, <2>2
    <2>4. Grows /\ NothingTold
      BY <1>0, <2>1, <2>3, LeadsUnchanged DEF Grows, NothingTold
    <2>5. Shapes'
      BY <1>0, <2>1, <2>3 DEF Shapes
    <2>6. MailsOK'
      BY <2>1, <2>2, <2>4, MailGoesOut
    <2> QED BY <2>1, <2>4, <2>5, <2>6, AllFitsStays, TellingStays, EventsStay DEF OutreachInv
  <1>3. CASE TimePasses
    <2> DEFINE older(i) == [leads[i] EXCEPT !.last = Older(@)]
    <2>1. /\ leads' = [i \in DOMAIN leads |-> older(i)]
          /\ wrote' = [a \in Addresses |-> Older(wrote[a])]
          /\ UNCHANGED <<gmail, mails, vouched, taken, events, allowed, agreed, run>>
      BY <1>3 DEF TimePasses
    <2>2. \A i \in DOMAIN leads : /\ older(i) \in Lead /\ older(i).email = leads[i].email
                                  /\ older(i).status = leads[i].status
      BY <1>0 DEF Lead, Ages, Older
    <2> HIDE DEF older
    <2>3. leads' \in Seq(Lead) /\ DOMAIN leads' = DOMAIN leads
          /\ \A i \in DOMAIN leads : leads'[i] = older(i)
      BY <1>0, <2>1, <2>2
    <2>4. NothingTold
      BY <2>2, <2>3 DEF NothingTold, AddressesStay
    <2>5. Grows
      BY <2>1, <2>4 DEF Grows, NothingTold, Older
    <2>6. Shapes'
      BY <1>0, <2>1, <2>3 DEF Shapes
    <2> QED BY <2>1, <2>4, <2>5, <2>6, AllFitsStays, WorldGrows
  <1> QED BY <1>1, <1>2, <1>3

\* A run that has failed has nothing left.
LEMMA TroubleKeeps ==
    ASSUME OutreachInv, (\E r \in Runs : StepThrows(r)) \/ ServerRestarts
    PROVE  OutreachInv'
  <1> USE DEF mailbox, records, others, World
  <1>0. Shapes
    BY DEF OutreachInv
  <1>1. ASSUME NEW r \in Runs, StepThrows(r)
        PROVE  OutreachInv'
    <2>1. Moves(r) /\ FitsNow(r)
      BY <1>0, <1>1, GotoMoves DEF StepThrows, FitsNow
    <2> QED BY <1>1, <2>1, StillStep DEF StepThrows
  <1>2. CASE ServerRestarts
    <2>1. /\ run' = [r \in Runs |-> IF Executes(r) THEN InitRun("failed") ELSE run[r]]
          /\ UNCHANGED <<leads, World>>
      BY <1>2 DEF ServerRestarts
    <2>2. Grows /\ NothingTold
      BY <1>0, <2>1, LeadsUnchanged DEF Grows, NothingTold, Shapes
    <2>3. IsRun(InitRun("failed"))
      BY DEF IsRun, InitRun
    <2>4. Shapes'
      BY <1>0, <2>1, <2>3 DEF Shapes
    <2>5. ASSUME NEW r \in Runs PROVE Fits(r)'
      <3>1. CASE Executes(r)
        BY <2>1, <3>1 DEF Fits, InitRun
      <3>2. CASE ~Executes(r)
        BY <1>0, <2>1, <2>2, <3>2, FitsStays DEF OutreachInv, RunsOK
      <3> QED BY <3>1, <3>2
    <2> QED BY <2>1, <2>2, <2>4, <2>5, WorldGrows DEF RunsOK
  <1> QED BY <1>1, <1>2

-------------------------------------------------------------------------------
(* The theorems.                                                               *)

LEMMA InitFits == Init => OutreachInv
  <1> SUFFICES ASSUME Init PROVE OutreachInv
    OBVIOUS
  <1> USE DEF Init, CrmInit
  <1>1. leads \in Seq(Lead) /\ \A i \in DOMAIN leads : leads[i].status \notin Telling
    BY CrmConstants, NobodyMailedYet DEF Telling
  <1>2. PICK schedule \in Schedules :
          run = [r \in Runs |-> InitRun(IF r \in schedule.runs THEN FirstStep[r] ELSE "idle")]
    OBVIOUS
  <1>3. \A r \in Runs : IsRun(run[r]) /\ run[r].todo = {} /\ run[r].done = {} /\ run[r].hand = {}
    BY <1>2 DEF InitRun, IsRun
  <1>4. Shapes
    BY <1>1, <1>2, <1>3 DEF Shapes
  <1>5. RunsOK
    BY <1>3 DEF RunsOK, Fits
  <1> QED BY <1>1, <1>4, <1>5
          DEF OutreachInv, MailsOK, LeadsOK, EventsOK, MailedWasApproved, MailedIsKnown,
              ToldOf, Telling

LEMMA NextFits == OutreachInv /\ [Next]_crmVars => OutreachInv'
  <1> SUFFICES ASSUME OutreachInv, [Next]_crmVars PROVE OutreachInv'
    OBVIOUS
  <1>1. CASE UNCHANGED crmVars
    <2>1. UNCHANGED <<leads, World, run>>
      BY <1>1 DEF crmVars, mailbox, records, others, World
    <2>2. Shapes /\ NothingTold
      BY <2>1, LeadsUnchanged DEF OutreachInv, Shapes
    <2>3. Grows
      BY <2>1, <2>2 DEF Grows, NothingTold, World
    <2>4. Shapes'
      BY <2>1, <2>2 DEF Shapes, World
    <2> QED BY <2>1, <2>2, <2>3, <2>4, AllFitsStays, WorldGrows DEF World
  <1>2. ASSUME NEW r \in Runs, Step(r) \/ Answer(r)
        PROVE  OutreachInv'
    BY <1>2, HuntKeeps, ClientsKeep, FollowUpsKeep, SalesKeep, CreateKeeps, AnswerKeeps
       DEF Step, Answer
  <1>3. CASE Surroundings
    BY <1>3, ToolsKeep, PeopleKeep, TroubleKeeps DEF Surroundings
  <1> QED BY <1>1, <1>2, <1>3 DEF Next

LEMMA OutreachInvariance == Spec => []OutreachInv
  BY InitFits, NextFits, PTL DEF Spec

\* Whatever fails, is sent by hand or is sent again: a hunt mails drafts of its own that a
\* person has let through, and no draft goes out twice.
THEOREM MailsWereApproved == Spec => []MailedWasApproved
  <1>1. OutreachInv => MailedWasApproved
    BY DEF OutreachInv, MailsOK
  <1> QED BY <1>1, OutreachInvariance, PTL

\* The inbox will know the answer of everybody a hunt has mailed, unless the address has been
\* taken from the lead by a call of crm_update_lead.
THEOREM MailedAreKnown == Spec => []MailedIsKnown
  <1>1. OutreachInv => MailedIsKnown
    BY DEF OutreachInv, MailsOK
  <1> QED BY <1>1, OutreachInvariance, PTL

\* A lead said to have been mailed has been, by a run, at the address it has or has had.
THEOREM SentWereMailed == Spec => []EmailSentIsTrue
  <1>1. OutreachInv => EmailSentIsTrue
    BY DEF OutreachInv, LeadsOK, ToldOf, EmailSentIsTrue
  <1> QED BY <1>1, OutreachInvariance, PTL

\* Nobody is drafted for whom the score, as it stands after the research, rejects.
THEOREM DraftsAreWorthy == Spec => []DraftedIsWorthy
  <1>1. OutreachInv => DraftedIsWorthy
    BY DEF OutreachInv, RunsOK, Fits, TodoFits, HandFits, DraftOf, Worthy, Drafting,
           DraftedIsWorthy
  <1> QED BY <1>1, OutreachInvariance, PTL

\* Nobody is said to have answered unless a caller said so, or somebody wrote from there.
THEOREM AnsweredHaveWritten == Spec => []AnsweredIsTrue
  <1>1. OutreachInv => AnsweredIsTrue
    BY DEF OutreachInv, LeadsOK, ToldOf, Replied, AnsweredIsTrue
  <1> QED BY <1>1, OutreachInvariance, PTL

\* Whatever ids the agent names: what is entered has been let through for that lead, and
\* nobody is said to have a meeting that is not in the calendar.
THEOREM MeetingsWereLetThrough == Spec => []MeetingsWereAgreed
  <1>1. OutreachInv => MeetingsWereAgreed
    BY DEF OutreachInv, EventsOK, LeadsOK, ToldOf, MeetingsWereAgreed
  <1> QED BY <1>1, OutreachInvariance, PTL

===============================================================================
