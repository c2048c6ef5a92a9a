------------------------------- MODULE MCOutreach -------------------------------
(* Values for Outreach: two companies, two addresses, eleven runs, most in pairs. *)
EXTENDS Outreach

CONSTANTS a1, b1, none, acme, bona

MCRuns == {"hunt1", "hunt2", "hunt3", "clients", "inbox", "sync", "followup", "meeting1", "meeting2",
           "proposal", "create"}

MCFirstStep == [r \in MCRuns |->
    CASE r \in {"hunt1", "hunt2", "hunt3"} -> "gather_sources"
      [] r = "clients" -> "discover_leads"
      [] r = "inbox" -> "scan_inbox"
      [] r = "sync" -> "fetch_sent_emails"
      [] r = "followup" -> "find_stale_leads"
      [] r \in {"meeting1", "meeting2"} -> "find_hot_leads"
      [] r = "proposal" -> "load_lead"
      [] OTHER -> "find_lead"]

Plan(active, actions, failures) ==
    [runs |-> active, outside |-> actions, troubles |-> failures]

\* Two hunts among themselves; a hunt with another run, and the others in pairs.
MCSchedules ==
    {Plan({"hunt1", "hunt2"}, 0, 0), Plan({"hunt1"}, 1, 1), Plan({"hunt3"}, 0, 0),
     Plan({"hunt1", "create"}, 0, 0), Plan({"meeting1", "create"}, 1, 1),
     Plan({"meeting1", "meeting2"}, 1, 1)}
      \cup {Plan({"hunt1", r}, 1, 0) : r \in {"inbox", "sync"}}
      \cup {Plan(pair, 2, 1) : pair \in
             {{"clients", "sync"}, {"followup", "inbox"}, {"inbox", "meeting1"},
              {"meeting1", "proposal"}}}

\* The domain of b1 occurs in a1.
MCDomainOf == [a \in {a1, b1} |-> IF a = b1 THEN "b" ELSE "a"]
MCContainsDomain == [a \in {a1, b1} |-> IF a = b1 THEN {a1, b1} ELSE {a1}]
MCAddressesOf == [c \in {acme, bona} |-> IF c = acme THEN {a1} ELSE {b1}]

Known(c, a, status, last) ==
    [company |-> c, email |-> a, region |-> FALSE, status |-> status, meeting |-> FALSE,
     last |-> last]

MCInitialLeads == {<<>>, <<Known(acme, a1, "sent", "old"), Known(bona, none, "nowy", "never")>>}

\* A supplier without doubt, one to be looked into, and one nobody wants.
Sound == [signals |-> {"wholesale", "food"}, declared |-> "wholesaler", producer |-> FALSE,
          web |-> "official", domain |-> "own", source |-> TRUE, category |-> TRUE,
          horeca |-> "yes", confidence |-> "high", region |-> TRUE, legal |-> FALSE]
Unclear == [Sound EXCEPT !.signals = {"food"}, !.web = "none", !.declared = "producer", !.confidence = "none",
                         !.horeca = "unknown", !.domain = "other"]
Unfit == [Unclear EXCEPT !.signals = {"chain"}, !.category = FALSE]

MCFindings == {Sound, Unfit}
MCWanted == {"wholesaler", "producer"}

Offer(c, a, p) == [company |-> c, email |-> a, profile |-> p]
\* The third hunt finds two suppliers.  The other two are left with one: the same domain is
\* one lead, and the rating rejects one.
MCOffers == [r \in MCRuns |->
    IF r = "hunt3" THEN {{Offer(acme, a1, Sound), Offer(bona, b1, Sound)}}
    ELSE {{Offer(acme, a1, Sound), Offer(bona, a1, Unfit)},
          {Offer(acme, none, Unclear), Offer(bona, b1, Unfit)}}]

MCFirms == {{acme}, {bona}}
===============================================================================
