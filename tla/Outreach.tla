-------------------------------- MODULE Outreach --------------------------------
(***************************************************************************)
(* The business workflows side by side over one collection of leads: two   *)
(* hunts for suppliers, a hunt for clients, the inbox, the synchronisation *)
(* with Gmail, follow-ups, meetings and proposals, with people who answer, *)
(* approve and use the tools in between.                                   *)
(***************************************************************************)
EXTENDS ProducerHunt, ClientHunt, LeadFollowUps

Init == CrmInit

Step(r) == HuntStep(r) \/ ClientStep(r) \/ FollowUpStep(r) \/ SalesStep(r) \/ CreateLead(r)

Answer(r) == AnswerHunt(r) \/ AnswerSales(r)

Next == (\E r \in Runs : Step(r) \/ Answer(r)) \/ Surroundings

Spec == Init /\ [][Next]_crmVars

\* Calls of models, Gmail and the database come back or throw; nobody owes an answer.
FairSpec == Spec /\ \A r \in Runs : WF_crmVars(Step(r))

-------------------------------------------------------------------------------
\* What a hunt mails is what a person has let it send: the drafts of the answer that were
\* not rejected, each of them once, whatever has failed or was sent by hand in between.
MailedWasApproved ==
    \A i, j \in DOMAIN mails :
      /\ mails[i].by \in Runs => mails[i].draft \in allowed /\ gmail[mails[i].draft].by = mails[i].by
      /\ mails[i].draft = mails[j].draft => i = j

\* The address a lead has, or had until a caller of a tool took it.
Had(i, a) == leads[i].email = a \/ [lead |-> i, address |-> a] \in taken

\* Whoever a hunt has mailed is in the collection with that address, for the inbox to know
\* the answer: also after a lost update, a restart, and the other hunt's changes, as long as
\* crm_update_lead has not written another address over it.
MailedIsKnown ==
    \A k \in DOMAIN mails : mails[k].by \in Runs => \E i \in DOMAIN leads : Had(i, mails[k].to)

\* A status of a hunt's mail is not claimed of anybody who has not been mailed, at the address
\* the lead has or at one that was taken from it.
EmailSentIsTrue ==
    \A i \in DOMAIN leads :
      leads[i].status = "email_sent" =>
        \E k \in DOMAIN mails : mails[k].by \in Runs /\ Had(i, mails[k].to)

\* No lead is drafted for that its score asks to reject, as it stands after the research.
DraftedIsWorthy ==
    \A r \in Runs :
      run[r].step \in {"create_gmail_drafts", "save_drafts_fs", "update_crm", "ask_approval",
                       "await_approval", "send_on_approve"} =>
        \A d \in run[r].todo \cup run[r].hand : Decision(d.lead.profile, TRUE) # "reject"

\* No workflow says that a lead has answered unless somebody wrote whose domain occurs in an
\* address the lead has or had.
AnsweredIsTrue ==
    \A i \in DOMAIN leads :
      leads[i].status = "odpowiedzial" =>
        \/ i \in vouched
        \/ \E a \in Addresses : wrote[a] # "never" /\ \E b \in ContainsDomain[a] : Had(i, b)

\* A meeting in the calendar is one that a person has let the run enter, for the very lead,
\* and whoever stands as having one has such a meeting: whatever ids the agent names, and
\* wherever a run that enters it, or another one of the same lead, breaks off.
MeetingsWereAgreed ==
    /\ events \subseteq agreed
    /\ \A i \in DOMAIN leads :
         leads[i].status = "spotkanie_umowione" => \E e \in events : e.lead = i

\* A run comes to its end, or to a person who has something to decide.
Settled(r) == ~Executes(r) /\ (At(r, "await_approval") => run[r].todo # {})
RunsSettle == \A r \in Runs : []<>Settled(r)
===============================================================================
