------------------------------ MODULE LeadQuality ------------------------------
(***************************************************************************)
(* workflows/producer-hunt/quality.ts: how a lead of the producer hunt is  *)
(* typed and scored, and how the result of the research is checked for     *)
(* identity.  A text is the set of the signals its keywords give; a        *)
(* profile is a record of what the score of a lead tells apart.            *)
(***************************************************************************)
EXTENDS Integers

Types == {"producer", "manufacturer", "cooperative", "producer_group", "wholesaler",
          "distributor", "importer", "farm_aggregator", "unknown"}

Producers == {"producer", "manufacturer"}
Unions == {"cooperative", "producer_group", "farm_aggregator"}

\* Lists of keywords of which one is in the text; "works", "group" and "platform" are the
\* words that tell the subtypes apart.
Signals == {"production", "works", "wholesale", "distribution", "import", "union", "group",
            "platform", "food", "consumer", "chain", "negative"}

\* own and public: the domain of the address is that of the website, or of a mail provider.
Profile == [signals : SUBSET Signals, declared : Types, producer : BOOLEAN,
         web : {"none", "official", "social", "directory"},
         domain : {"own", "public", "other"}, source : BOOLEAN, category : BOOLEAN,
         horeca : {"yes", "limited", "no", "unknown"},
         confidence : {"none", "high", "middle", "low", "poor"},
         region : BOOLEAN, legal : BOOLEAN]

Decisions == {"draft_candidate", "research_needed", "reject"}

\* textConfirms: the text bears the declared type out.
Confirms(l, type) ==
    \/ type = "wholesaler" /\ "wholesale" \in l.signals
    \/ type = "distributor" /\ "distribution" \in l.signals
    \/ type = "importer" /\ "import" \in l.signals
    \/ type \in Unions /\ "union" \in l.signals
    \/ type \in Producers /\ ("production" \in l.signals \/ l.producer)

TypeFromText(l) ==
    IF "wholesale" \in l.signals THEN "wholesaler"
    ELSE IF "distribution" \in l.signals THEN "distributor"
    ELSE IF "import" \in l.signals THEN "importer"
    ELSE IF {"union", "group"} \subseteq l.signals THEN "producer_group"
    ELSE IF {"union", "platform"} \subseteq l.signals THEN "farm_aggregator"
    ELSE IF "union" \in l.signals THEN "cooperative"
    ELSE IF "works" \in l.signals THEN "manufacturer" ELSE "producer"

Supplier(l) ==
    {"production", "wholesale", "distribution", "import", "union"} \cap l.signals

\* inferSupplierType
InferredType(l) ==
    IF ~Confirms(l, l.declared) /\ (Supplier(l) # {} \/ l.producer) THEN TypeFromText(l)
    ELSE l.declared

Points(condition, n) == IF condition THEN n ELSE 0

ContactPoints(l, mail) ==
    Points(mail, 25) + Points(mail /\ l.domain = "own", 20) + Points(l.web = "official", 20)
      + Points(l.source, 10) - Points(l.web = "directory", 40) - Points(l.web = "social", 15)

TypePoints(l) ==
    LET type == InferredType(l) IN
    Points(\/ type \in Producers /\ "production" \in l.signals
           \/ type \notin Producers /\ Confirms(l, type)
           \/ type = "distributor" /\ "wholesale" \in l.signals, 15)
      + Points(l.producer /\ type \in Producers, 10)
      - Points(type \in Producers /\ "production" \notin l.signals /\ ~l.producer, 15)
      - Points(type = "unknown" /\ l.horeca \notin {"yes", "limited"}, 50)
      - Points(type = "unknown" /\ "consumer" \in l.signals /\ Supplier(l) = {}, 30)

TradePoints(l) ==
    Points("food" \in l.signals, 15) + Points(l.category, 10)
      - Points("food" \notin l.signals /\ ~l.category, 20)
      + Points(l.horeca = "yes", 15) + Points(l.horeca = "limited", 5)
      - Points(l.horeca = "no" /\ InferredType(l) = "wholesaler", 20)
      - Points("chain" \in l.signals, 25) - Points("negative" \in l.signals, 50)

SourcePoints(l) ==
    Points(l.confidence = "high", 10) + Points(l.confidence = "middle", 5)
      - Points(l.confidence = "poor", 25) + Points(l.region, 10) + Points(l.legal, 10)

\* scoreLead
Score(l, mail) == ContactPoints(l, mail) + TypePoints(l) + TradePoints(l) + SourcePoints(l)

Decision(l, mail) ==
    IF Score(l, mail) >= 55 THEN "draft_candidate"
    ELSE IF Score(l, mail) >= 25 THEN "research_needed" ELSE "reject"

\* What speaks against the result of a research: another name, a website that does not fit
\* the address, a foreign website, and the model itself, which is unsure.
Doubts == {"name", "domain", "foreign", "unsure"}

\* validateEnrichmentIdentity, in tenths: found is the profile after the research, its
\* declared type the one the model gives.  The text alone is asked for the other type.
IdentityHolds(found, doubts) ==
    LET trading == found.declared \in {"wholesaler", "distributor", "importer"}
        heuristic == InferredType([found EXCEPT !.producer = FALSE])
    IN  /\ "unsure" \notin doubts
        /\ 10 - Points("name" \in doubts, 6)
              - Points("domain" \in doubts, IF trading THEN 2 ELSE 6)
              - Points("foreign" \in doubts, 2)
              - Points(heuristic \notin {"unknown", found.declared}, 2) >= 5

\* When the identity is in doubt the analysis is replaced by a text that asks for its
\* verification, which is one of the negative signals.
Researched(found, doubts) ==
    IF IdentityHolds(found, doubts) THEN found
    ELSE [found EXCEPT !.signals = @ \cup {"negative"}]
=============================================================================
