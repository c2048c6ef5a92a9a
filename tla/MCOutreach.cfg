CONSTANTS
  a1 = a1
  b1 = b1
  none = none
  acme = acme
  bona = bona
  NoAddress = none
  Runs <- MCRuns
  FirstStep <- MCFirstStep
  Schedules <- MCSchedules
  Companies = {acme, bona}
  Addresses = {a1, b1}
  DomainOf <- MCDomainOf
  ContainsDomain <- MCContainsDomain
  InitialLeads <- MCInitialLeads
  SetByTools = {"odpowiedzial", "sent"}
  Offers <- MCOffers
  Findings <- MCFindings
  AddressesOf <- MCAddressesOf
  Wanted <- MCWanted
  Count = 2
  Firms <- MCFirms
SPECIFICATION FairSpec
INVARIANTS MailedWasApproved MailedIsKnown EmailSentIsTrue DraftedIsWorthy  MeetingsWereAgreed
CHECK_DEADLOCK FALSE
PROPERTY RunsSettle
