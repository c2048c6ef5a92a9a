------------------------- MODULE ArchitectToolsProofs -------------------------
(***************************************************************************)
(* Proofs about the tools of the automation architect, for any catalog of  *)
(* patterns, any topologies, agents, workflows and calls: what is active   *)
(* by the tools was checked, although every await lets other agents in.    *)
(***************************************************************************)
EXTENDS ArchitectTools, FiniteSetTheorems, WellFoundedInduction, TLAPS

\* What createWorkflow and updateWorkflow store of a draft.
Saved(d) == [d EXCEPT !.edits = @ \ {"running"}]

Deployable(d, env) == ~BlocksDeploy(d, env, TRUE) /\ Verdict(RiskScore(d, FALSE, env)) # "block"

Activatable(d, env) == ActivationValid(d, env) /\ Verdict(RiskScore(d, FALSE, env)) # "block"

AsksHuman(d, env) == ApprovalRequired(d, FALSE, env, "auto")

-----------------------------------------------------------------------------
(* Drafts                                                                   *)

LEMMA DraftFacts ==
    ASSUME NEW d \in Draft
    PROVE  /\ d.flow \in Flow /\ d.flow.nodes \in Seq(NodeRecord)
           /\ d.edits \in SUBSET Edits
           /\ d = [flow |-> d.flow, edits |-> d.edits]
  BY ToolsAssumption DEF Draft, Flow

LEMMA NodesFinite ==
    ASSUME NEW d \in Draft
    PROVE  IsFiniteSet(DOMAIN Nodes(d))
  <1> DEFINE first == [i \in DOMAIN d.flow.nodes |-> EditedNode(d, i)]
             rest == IF "command" \in d.edits THEN <<Node("executeCommand")>> ELSE <<>>
             Any == {EditedNode(d, i) : i \in DOMAIN d.flow.nodes} \cup {Node("executeCommand")}
  <1>1. first \in Seq(Any)
    BY DraftFacts
  <1>2. rest \in Seq(Any)
    <2>1. \A T : \A x \in T : <<x>> \in Seq(T) /\ <<>> \in Seq(T)
      OBVIOUS
    <2>2. Node("executeCommand") \in Any
      OBVIOUS
    <2> HIDE DEF Any
    <2> QED BY <2>1, <2>2
  <1>3. Nodes(d) \in Seq(Any)
    <2>1. Nodes(d) = first \o rest
      BY DEF Nodes
    <2> HIDE DEF first, rest, Any
    <2> QED BY <1>1, <1>2, <2>1
  <1>4. DOMAIN Nodes(d) = 1 .. Len(Nodes(d)) /\ Len(Nodes(d)) \in Nat
    BY <1>3
  <1> QED BY <1>4, FS_Interval

\* To be active can only raise the score, and to be asked for approval is due to it.
LEMMA ScoreFacts ==
    ASSUME NEW d \in Draft, NEW env, NEW active, NEW mode
    PROVE  /\ RiskScore(d, FALSE, env) \in Nat /\ RiskScore(d, active, env) \in Nat
           /\ Verdict(RiskScore(d, active, env)) # "block" =>
                Verdict(RiskScore(d, FALSE, env)) # "block"
           /\ AsksHuman(d, env) => ApprovalRequired(d, active, env, mode)
  <1>1. \A S : S \in SUBSET DOMAIN Nodes(d) => Cardinality(S) \in Nat
    BY NodesFinite, FS_Subset, FS_CardinalityType
  <1>2. /\ Cardinality(Criticals(d, env)) \in Nat /\ Cardinality(Suspects(d, env)) \in Nat
        /\ Cardinality(PlainRequests(d, env)) \in Nat /\ Cardinality(OpenWebhooks(d)) \in Nat
    <2>1. /\ Criticals(d, env) \in SUBSET DOMAIN Nodes(d)
          /\ PlainRequests(d, env) \in SUBSET DOMAIN Nodes(d)
          /\ OpenWebhooks(d) \in SUBSET DOMAIN Nodes(d)
      BY DEF Criticals, PlainRequests, OpenWebhooks
    <2> DEFINE words == {"secret", "key", "code", "bearer"}
    <2>2. IsFiniteSet(words)
      <3>1. \A x, y : IsFiniteSet({x, y})
        <4> SUFFICES ASSUME NEW x, NEW y PROVE IsFiniteSet({x, y})
          OBVIOUS
        <4>1. {x, y} = {x} \cup {y} /\ IsFiniteSet({x})
          BY FS_Singleton
        <4> QED BY <4>1, FS_AddElement
      <3>2. words = {"secret", "key"} \cup {"code", "bearer"}
        OBVIOUS
      <3> HIDE DEF words
      <3> QED BY <3>1, <3>2, FS_Union
    <2>3. Suspects(d, env) \subseteq (DOMAIN Nodes(d)) \X words
      BY DEF Suspects
    <2> HIDE DEF words
    <2>4. IsFiniteSet(Suspects(d, env))
      BY <2>2, <2>3, NodesFinite, FS_Product, FS_Subset
    <2> QED BY <1>1, <2>1, <2>4, FS_CardinalityType
  <1> DEFINE more == IF active THEN 15 ELSE 0
  <1>3. more \in {0, 15}
    OBVIOUS
  <1> HIDE DEF more
  <1>a. PICK base \in Nat : RiskScore(d, FALSE, env) = base /\ RiskScore(d, active, env) = base + more
    BY <1>2, <1>3 DEF RiskScore, more
  <1>4. /\ RiskScore(d, FALSE, env) \in Nat /\ RiskScore(d, active, env) \in Nat
        /\ RiskScore(d, FALSE, env) <= RiskScore(d, active, env)
    <2> DEFINE low == RiskScore(d, FALSE, env)
               high == RiskScore(d, active, env)
    <2>1. low = base /\ high = base + more
      BY <1>a
    <2> HIDE DEF low, high
    <2>2. low \in Nat /\ high \in Nat /\ low <= high
      BY <1>3, <2>1
    <2> QED BY <2>2 DEF low, high
  <1>5. Verdict(RiskScore(d, active, env)) # "block" => Verdict(RiskScore(d, FALSE, env)) # "block"
    <2>1. \A m, n \in Nat : m <= n /\ Verdict(n) # "block" => Verdict(m) # "block"
      BY DEF Verdict
    <2> QED BY <1>4, <2>1
  <1>6. AsksHuman(d, env) => ApprovalRequired(d, active, env, mode)
    <2>1. \A m, n \in Nat : m <= n /\ m >= 20 => n >= 20
      OBVIOUS
    <2>2. RiskScore(d, FALSE, env) >= 20 => RiskScore(d, active, env) >= 20
      BY <1>4, <2>1
    <2> QED BY <2>2 DEF AsksHuman, ApprovalRequired
  <1> QED BY <1>4, <1>5, <1>6

\* Neither the checks of a deployment nor the score look at "running".
LEMMA SavedFacts ==
    ASSUME NEW d \in Draft, NEW env
    PROVE  /\ Saved(d) \in Draft
           /\ Deployable(d, env) => Deployable(Saved(d), env)
  <1> DEFINE s == Saved(d)
  <1>1. s \in Draft /\ s.flow = d.flow /\ s.edits = d.edits \ {"running"}
    BY DraftFacts DEF Saved, Draft
  <1>2. /\ "byId" \in s.edits <=> "byId" \in d.edits
        /\ "stray" \in s.edits <=> "stray" \in d.edits
        /\ "cut" \in s.edits <=> "cut" \in d.edits
        /\ "command" \in s.edits <=> "command" \in d.edits
        /\ "legacy" \in s.edits <=> "legacy" \in d.edits
        /\ "moved" \in s.edits <=> "moved" \in d.edits
        /\ "byHand" \in s.edits <=> "byHand" \in d.edits
    BY <1>1
  <1> HIDE DEF s
  <1>3. FirstRequest(s) = FirstRequest(d)
    BY <1>1 DEF FirstRequest, Requests
  <1>4. \A i \in DOMAIN d.flow.nodes : EditedNode(s, i) = EditedNode(d, i)
    BY <1>1, <1>2, <1>3 DEF EditedNode
  <1>5. Nodes(s) = Nodes(d)
    BY <1>1, <1>2, <1>4 DEF Nodes
  <1>6. Links(s) = Links(d)
    BY <1>1, <1>2 DEF Links
  <1>a. \A i \in DOMAIN Nodes(d) : Found(s, i, env) = Found(d, i, env)
    BY <1>2, <1>5 DEF Found
  <1>7. Triggers(s) = Triggers(d) /\ Executables(s) = Executables(d)
    BY <1>5 DEF Triggers, Executables
  <1>8. BlocksDeploy(s, env, TRUE) <=> BlocksDeploy(d, env, TRUE)
    BY <1>2, <1>5, <1>6, <1>7, <1>a DEF BlocksDeploy, DraftErrors, Malformed, SecurityIssue
  <1>9. RiskScore(s, FALSE, env) = RiskScore(d, FALSE, env)
    <2>1. /\ Criticals(s, env) = Criticals(d, env)
          /\ PlainRequests(s, env) = PlainRequests(d, env) /\ OpenWebhooks(s) = OpenWebhooks(d)
      BY <1>5, <1>a DEF Criticals, PlainRequests, OpenWebhooks
    <2>2. Suspects(s, env) = Suspects(d, env)
      BY <1>5, <1>a DEF Suspects
    <2> QED BY <1>7, <2>1, <2>2 DEF RiskScore
  <1> QED BY <1>1, <1>8, <1>9 DEF Deployable, s

-----------------------------------------------------------------------------
(* The invariant                                                            *)

Deploying == {"owner", "approval", "save"}

\* Calls that have a workflow; of OldWorkflow nobody's call gets as far.
Holding == {"record", "read", "allowed", "go", "mark", "readTest", "mayRun", "execute"}

\* What a call of caller c, r, goes by at its next step: r is caller[c] or what a step
\* makes of it.
CallOK(c, r) ==
    /\ r \in CallRecord
    /\ r.at # "idle" => r.auto \in Autos
    /\ r.at \in Deploying => r.seen \in Draft /\ Deployable(Saved(r.seen), Env)
    /\ r.at = "owner" => r.wf \in Workflows
    /\ r.at \in {"approval", "save"} => r.wf # OldWorkflow
    /\ r.at \in Holding => r.wf \in Workflows \ {OldWorkflow} /\ n8n[r.wf].there
    /\ r.at \in {"allowed", "go"} => r.seen \in Draft /\ Activatable(r.seen, Env)
    /\ r.at = "go" /\ AsksHuman(r.seen, Env) => c \in approved
    /\ r.at = "write" => r.status \in Statuses
    /\ r.at = "note" => r.draft \in Draft

CallsOK == \A c \in Callers : CallOK(c, caller[c])

\* n8n has nothing it was not given by a deployment, except OldWorkflow.
WorkflowsOK ==
    /\ n8n[OldWorkflow].there /\ n8n[OldWorkflow].by = None
    /\ \A w \in Workflows \ {OldWorkflow} :
         /\ n8n[w].there => n8n[w].draft \in Draft /\ Deployable(n8n[w].draft, Env)
         /\ n8n[w].by # None =>
              /\ n8n[w].there /\ n8n[w].checked \in Draft
              /\ Activatable(n8n[w].checked, Env)
              /\ AsksHuman(n8n[w].checked, Env) => n8n[w].by \in approved

\* The documents: what one names is there, and nobody manages OldWorkflow.
RequestsOK ==
    \A a \in Autos : request[a].there =>
      /\ request[a].wf \in Workflows /\ n8n[request[a].wf].there
      /\ request[a].wf = OldWorkflow => ~request[a].managed

ToolsInv == TypeOK /\ CallsOK /\ WorkflowsOK /\ RequestsOK

LEMMA EnvSame == ASSUME setting' = setting PROVE Env' = Env
  BY DEF Env

\* A call that has ended goes by nothing.
LEMMA RestOK ==
    ASSUME ToolsInv, NEW c \in Callers, NEW calls \in Nat, NEW word \in Answers
    PROVE  CallOK(c, Rest(c, calls, word))
  <1>1. caller[c].draft \in Draft \cup {None}
    BY DEF ToolsInv, TypeOK, CallRecord
  <1>2. /\ Rest(c, calls, word) \in CallRecord
        /\ Rest(c, calls, word).at = "idle"
    BY <1>1 DEF Rest, Ready, CallRecord, Steps, Modes
  <1> QED BY <1>2 DEF CallOK, Deploying, Holding

LEMMA AnswerOK ==
    ASSUME ToolsInv, NEW c \in Callers, NEW word \in Answers
    PROVE  CallOK(c, Rest(c, caller[c].calls, word)) /\ CallOK(c, Rest(c, caller[c].calls + 1, word))
  <1>1. caller[c].calls \in Nat /\ caller[c].calls + 1 \in Nat
    BY DEF ToolsInv, TypeOK, CallRecord
  <1> QED BY <1>1, RestOK

\* A step of a call that leaves everything else alone.
LEMMA OnlyCaller ==
    ASSUME ToolsInv, NEW c \in Callers, NEW r, CallOK(c, r), caller' = [caller EXCEPT ![c] = r],
           UNCHANGED <<setting, n8n, request, repairs, approved>>
    PROVE  ToolsInv'
  <1>1. TypeOK'
    BY DEF ToolsInv, TypeOK, CallOK
  <1>2. CallsOK'
    <2> SUFFICES ASSUME NEW b \in Callers PROVE CallOK(b, caller[b])'
      BY DEF CallsOK
    <2>1. CallOK(b, caller[b])
      BY DEF ToolsInv, CallsOK
    <2>2. caller'[b] = IF b = c THEN r ELSE caller[b]
      BY DEF ToolsInv, TypeOK
    <2> QED BY <2>1, <2>2, EnvSame DEF CallOK
  <1>3. WorkflowsOK' /\ RequestsOK'
    BY EnvSame DEF ToolsInv, WorkflowsOK, RequestsOK
  <1> QED BY <1>1, <1>2, <1>3 DEF ToolsInv

\* The others' calls, while n8n and the approvals only get more.
LEMMA OthersStay ==
    ASSUME ToolsInv, NEW b \in Callers, caller'[b] = caller[b], setting' = setting,
           approved \subseteq approved', \A w \in Workflows : n8n[w].there => n8n'[w].there
    PROVE  CallOK(b, caller[b])'
  <1>1. CallOK(b, caller[b])
    BY DEF ToolsInv, CallsOK
  <1> QED BY <1>1, EnvSame DEF CallOK

LEMMA AnswerKeeps ==
    ASSUME ToolsInv, NEW c \in Callers, NEW word \in Answers,
           Answer(c, word) \/ Refuses(c, word),
           UNCHANGED <<setting, n8n, request, repairs, approved>>
    PROVE  ToolsInv'
  BY AnswerOK, OnlyCaller DEF Answer, Refuses

-----------------------------------------------------------------------------
(* The steps                                                                *)

LEMMA ComposeKeeps == ASSUME ToolsInv, NEW c \in Callers, Compose(c) PROVE ToolsInv'
  <1>1. CASE Answer(c, "not composed")
    <2>1. "not composed" \in Answers
      BY DEF Answers
    <2> QED BY <1>1, <2>1, AnswerKeeps DEF Compose
  <1>2. CASE \E id \in setting.ids, edits \in setting.edits :
               /\ id \in PatternIds
               /\ caller' = [caller EXCEPT ![c].draft = [flow |-> Catalog[id].flow, edits |-> edits],
                                           ![c].answer = "none"]
    <2>1. PICK id \in PatternIds, edits \in setting.edits :
            caller' = [caller EXCEPT ![c].draft = [flow |-> Catalog[id].flow, edits |-> edits],
                                     ![c].answer = "none"]
      BY <1>2
    <2>2. setting.edits \in SUBSET SUBSET Edits
      BY ToolsAssumption DEF ToolsInv, TypeOK, Setting
    <2> DEFINE d == [flow |-> Catalog[id].flow, edits |-> edits]
               r == [caller[c] EXCEPT !.draft = d, !.answer = "none"]
    <2>3. d \in Draft
      BY <2>2 DEF Draft
    <2> HIDE DEF d
    <2>4. caller[c] \in CallRecord /\ CallOK(c, caller[c]) /\ caller[c].at = "idle"
      BY DEF ToolsInv, TypeOK, CallsOK, Compose
    <2>5. r \in CallRecord /\ r.at = "idle"
      BY <2>3, <2>4 DEF CallRecord, Answers
    <2>6. CallOK(c, r)
      <3> HIDE DEF r
      <3> QED BY <2>5 DEF CallOK, Deploying, Holding
    <2>7. caller' = [caller EXCEPT ![c] = r]
      BY <2>1 DEF ToolsInv, TypeOK, d
    <2> HIDE DEF r
    <2> QED BY <2>6, <2>7, OnlyCaller DEF Compose
  <1> QED BY <1>1, <1>2, ToolsAssumption DEF Compose, Composable

LEMMA ApproveKeeps == ASSUME ToolsInv, NEW c \in Callers, Approve(c) PROVE ToolsInv'
  <1>1. /\ approved \subseteq approved' /\ approved' \subseteq Callers
        /\ UNCHANGED <<setting, n8n, request, repairs, caller>>
    BY ToolsAssumption DEF Approve, ToolsInv, TypeOK, Setting
  <1>2. TypeOK'
    BY <1>1 DEF ToolsInv, TypeOK
  <1>3. CallsOK'
    BY <1>1, OthersStay DEF CallsOK
  <1>4. WorkflowsOK' /\ RequestsOK'
    BY <1>1, EnvSame DEF ToolsInv, WorkflowsOK, RequestsOK
  <1> QED BY <1>2, <1>3, <1>4 DEF ToolsInv

LEMMA CallStarts ==
    ASSUME ToolsInv, NEW c \in Callers
    PROVE  Call(c) \in CallRecord
  <1>1. caller[c] \in CallRecord /\ caller[c].calls + 1 \in Nat
    BY DEF ToolsInv, TypeOK, CallRecord
  <1> QED BY <1>1 DEF Call, CallRecord, Answers

LEMMA DeployKeeps == ASSUME ToolsInv, NEW c \in Callers, Deploy(c) PROVE ToolsInv'
  <1> DEFINE d == normalizeConnectionKeys(caller[c].draft)
             score == RiskScore(d, "running" \in d.edits, Env)
  <1>1. /\ caller[c] \in CallRecord /\ caller[c].draft \in Draft
        /\ UNCHANGED <<setting, n8n, request, repairs, approved>>
    BY DEF ToolsInv, TypeOK, CallRecord, Deploy
  <1>2. d \in Draft
    <2>1. \A e \in Draft : [e EXCEPT !.edits = @ \ {"byId"}] \in Draft
      BY DEF Draft
    <2> QED BY <1>1, <2>1 DEF normalizeConnectionKeys
  <1>3. CASE \E word \in Answers : Refuses(c, word)
    BY <1>1, <1>3, AnswerKeeps
  <1>4. CASE /\ ~BlocksDeploy(d, Env, TRUE)
             /\ Verdict(score) # "block"
             /\ \E wf \in setting.known \cup {None}, auto \in Autos, given \in BOOLEAN :
                  caller' = [caller EXCEPT ![c] =
                    [Call(c) EXCEPT !.wf = wf, !.auto = auto, !.given = given, !.seen = d,
                       !.score = score, !.at = IF wf = None THEN "approval" ELSE "owner"]]
    <2>1. PICK wf \in setting.known \cup {None}, auto \in Autos, given \in BOOLEAN :
            caller' = [caller EXCEPT ![c] =
              [Call(c) EXCEPT !.wf = wf, !.auto = auto, !.given = given, !.seen = d,
                 !.score = score, !.at = IF wf = None THEN "approval" ELSE "owner"]]
      BY <1>4
    <2>2. wf \in Workflows \cup {None} /\ OldWorkflow # None
      BY ToolsAssumption DEF ToolsInv, TypeOK, Setting
    <2>3. score \in Nat /\ Deployable(Saved(d), Env)
      <3>1. score \in Nat /\ Verdict(RiskScore(d, FALSE, Env)) # "block"
        BY <1>2, <1>4, ScoreFacts
      <3> HIDE DEF d
      <3>2. Deployable(d, Env)
        BY <1>4, <3>1 DEF Deployable
      <3> QED BY <1>2, <3>1, <3>2, SavedFacts
    <2> HIDE DEF score, d
    <2> DEFINE at == IF wf = None THEN "approval" ELSE "owner"
               r == [Call(c) EXCEPT !.wf = wf, !.auto = auto, !.given = given, !.seen = d,
                       !.score = score, !.at = at]
    <2>4. at \in {"approval", "owner"} /\ (at = "owner" => wf # None) /\ (at = "approval" => wf = None)
      OBVIOUS
    <2>5. caller' = [caller EXCEPT ![c] = r]
      BY <2>1
    <2> HIDE DEF at
    <2>6. /\ r \in CallRecord /\ r.at = at /\ r.wf = wf /\ r.auto = auto /\ r.seen = d
      <3>1. Call(c) \in CallRecord
        BY CallStarts
      <3> QED BY <1>2, <2>2, <2>3, <2>4, <3>1 DEF CallRecord, Steps
    <2> HIDE DEF r
    <2>7. CallOK(c, r)
      BY <1>2, <2>2, <2>3, <2>4, <2>6 DEF CallOK, Deploying, Holding
    <2> QED BY <1>1, <2>5, <2>7, OnlyCaller
  <1>5. {"invalid", "too risky", "unapproved"} \subseteq Answers
    BY DEF Answers
  <1> QED BY <1>3, <1>4, <1>5 DEF Deploy

\* The first of the documents that name a workflow is one of them.
LEMMA FirstNamed ==
    ASSUME TypeOK, NEW w, Named(w) # {}
    PROVE  (CHOOSE a \in Named(w) : \A b \in Named(w) : request[a].born <= request[b].born)
             \in Named(w)
  <1> DEFINE S == {request[a].born : a \in Named(w)}
             R == OpToRel(<, Nat)
  <1>1. S \subseteq Nat /\ S # {}
    <2>1. Named(w) \subseteq Autos
      BY DEF Named
    <2>2. \A a \in Autos : request[a].born \in Nat
      BY DEF TypeOK, Document
    <2> QED BY <2>1, <2>2
  <1>2. PICK x \in S : \A y \in S : ~(<<y, x>> \in R)
    <2> HIDE DEF S, R
    <2>1. IsWellFoundedOn(R, Nat)
      BY NatLessThanWellFounded DEF R
    <2> QED BY <1>1, <2>1, WFMin
  <1>3. \A y \in S : x <= y
    <2>1. R = {ss \in Nat \X Nat : ss[1] < ss[2]}
      BY DEF OpToRel
    <2> HIDE DEF R
    <2> TAKE y \in S
    <2>2. <<y, x>> \notin R /\ <<y, x>> \in Nat \X Nat
      BY <1>1, <1>2
    <2> QED BY <1>1, <2>1, <2>2
  <1>4. PICK a \in Named(w) : request[a].born = x
    BY <1>2
  <1>5. \A b \in Named(w) : request[a].born <= request[b].born
    BY <1>3, <1>4
  <1> QED BY <1>4, <1>5

LEMMA DeployOwnerKeeps == ASSUME ToolsInv, NEW c \in Callers, DeployOwner(c) PROVE ToolsInv'
  <1> DEFINE w == caller[c].wf
             first == CHOOSE a \in Named(w) : \A b \in Named(w) : request[a].born <= request[b].born
  <1>1. /\ caller[c] \in CallRecord /\ CallOK(c, caller[c]) /\ caller[c].at = "owner"
        /\ UNCHANGED <<setting, n8n, request, repairs, approved>>
    BY DEF ToolsInv, TypeOK, CallsOK, DeployOwner
  <1>2. CASE Answer(c, "refused")
    BY <1>1, <1>2, AnswerKeeps DEF Answers
  <1>3. CASE /\ Named(w) # {} /\ request[first].managed
             /\ caller' = [caller EXCEPT ![c].at = "approval", ![c].auto = first]
    <2>1. first \in Named(w)
      BY <1>3, FirstNamed DEF ToolsInv
    <2> HIDE DEF first
    <2>2. first \in Autos /\ w # OldWorkflow
      BY <1>3, <2>1 DEF Named, ToolsInv, RequestsOK
    <2> DEFINE r == [caller[c] EXCEPT !.at = "approval", !.auto = first]
    <2>3. caller' = [caller EXCEPT ![c] = r]
      BY <1>3 DEF ToolsInv, TypeOK
    <2>4. CallOK(c, r)
      <3>1. r \in CallRecord /\ r.at = "approval" /\ r.auto = first /\ r.seen = caller[c].seen /\ r.wf = w
        BY <1>1, <2>2 DEF CallRecord, Steps
      <3> HIDE DEF r
      <3> QED BY <1>1, <2>2, <3>1 DEF CallOK, Deploying, Holding
    <2> HIDE DEF r
    <2> QED BY <1>1, <2>3, <2>4, OnlyCaller
  <1> QED BY <1>2, <1>3 DEF DeployOwner

\* A step of a call to at, where it goes by no more than it did.
LEMMA GotoKeeps ==
    ASSUME ToolsInv, NEW c \in Callers, NEW at \in Steps, Goto(c, at),
           UNCHANGED <<setting, n8n, request, repairs, approved>>,
           CallOK(c, [caller[c] EXCEPT !.at = at])
    PROVE  ToolsInv'
  BY OnlyCaller DEF Goto, ToolsInv, TypeOK

LEMMA DeployApprovalKeeps == ASSUME ToolsInv, NEW c \in Callers, DeployApproval(c) PROVE ToolsInv'
  <1>1. /\ caller[c] \in CallRecord /\ CallOK(c, caller[c]) /\ caller[c].at = "approval"
        /\ UNCHANGED <<setting, n8n, request, repairs, approved>>
    BY DEF ToolsInv, TypeOK, CallsOK, DeployApproval
  <1>2. CASE Answer(c, "refused")
    BY <1>1, <1>2, AnswerKeeps DEF Answers
  <1>3. CASE Goto(c, "save")
    <2> DEFINE r == [caller[c] EXCEPT !.at = "save"]
    <2>1. r \in CallRecord /\ r.at = "save" /\ r.auto = caller[c].auto /\ r.seen = caller[c].seen /\ r.wf = caller[c].wf
      BY <1>1 DEF CallRecord, Steps
    <2>2. CallOK(c, r)
      <3> HIDE DEF r
      <3> QED BY <1>1, <2>1 DEF CallOK, Deploying, Holding
    <2>3. "save" \in Steps
      BY DEF Steps
    <2> QED BY <1>1, <1>3, <2>2, <2>3, GotoKeeps
  <1> QED BY <1>2, <1>3 DEF DeployApproval

\* What n8n gets under w from a deployment.
LEMMA SaveKeeps ==
    ASSUME ToolsInv, NEW c \in Callers, NEW r, CallOK(c, r)', caller' = [caller EXCEPT ![c] = r],
           NEW w \in Workflows \ {OldWorkflow}, NEW d \in Draft, Deployable(d, Env),
           n8n' = [n8n EXCEPT ![w].there = TRUE, ![w].draft = d],
           UNCHANGED <<setting, request, repairs, approved>>
    PROVE  ToolsInv'
  <1>1. /\ n8n \in [Workflows -> Workflow] /\ n8n[w] \in Workflow
        /\ caller \in [Callers -> CallRecord]
    BY DEF ToolsInv, TypeOK
  <1> DEFINE saved == [n8n[w] EXCEPT !.there = TRUE, !.draft = d]
  <1>2. /\ saved \in Workflow
        /\ saved.there = TRUE /\ saved.draft = d /\ saved.by = n8n[w].by
        /\ saved.checked = n8n[w].checked /\ saved.active = n8n[w].active
    BY <1>1 DEF Workflow
  <1>3. n8n' = [n8n EXCEPT ![w] = saved]
    BY <1>1
  <1> HIDE DEF saved
  <1>4. /\ n8n' \in [Workflows -> Workflow]
        /\ n8n'[w] = saved
        /\ \A v \in Workflows \ {w} : n8n'[v] = n8n[v]
    BY <1>1, <1>2, <1>3
  <1>5. r \in CallRecord
    BY DEF CallOK
  <1>6. TypeOK'
    BY <1>1, <1>4, <1>5 DEF ToolsInv, TypeOK
  <1>7. CallsOK'
    <2> SUFFICES ASSUME NEW b \in Callers PROVE CallOK(b, caller[b])'
      BY DEF CallsOK
    <2>1. CASE b = c
      <3>1. caller'[b] = r
        BY <1>1, <2>1
      <3> QED BY <2>1, <3>1
    <2>2. CASE b # c
      <3>1. caller'[b] = caller[b]
        BY <1>1, <2>2
      <3>2. \A v \in Workflows : n8n[v].there => n8n'[v].there
        BY <1>2, <1>4
      <3> QED BY <3>1, <3>2, OthersStay
    <2> QED BY <2>1, <2>2
  <1>8. WorkflowsOK'
    <2>1. OldWorkflow \in Workflows
      BY ToolsAssumption
    <2> QED BY <1>2, <1>4, <2>1, EnvSame DEF ToolsInv, WorkflowsOK
  <1>9. RequestsOK'
    BY <1>2, <1>4 DEF ToolsInv, RequestsOK
  <1> QED BY <1>6, <1>7, <1>8, <1>9 DEF ToolsInv

LEMMA DeploySaveKeeps == ASSUME ToolsInv, NEW c \in Callers, DeploySave(c) PROVE ToolsInv'
  <1> DEFINE d == [caller[c].seen EXCEPT !.edits = @ \ {"running"}]
  <1>1. /\ caller[c] \in CallRecord /\ CallOK(c, caller[c]) /\ caller[c].at = "save"
        /\ caller[c].seen \in Draft /\ Deployable(Saved(caller[c].seen), Env)
        /\ caller[c].wf # OldWorkflow /\ caller[c].wf \in Workflows \cup {None}
        /\ caller[c].auto \in Autos
        /\ UNCHANGED <<setting, request, repairs, approved>>
    BY DEF ToolsInv, TypeOK, CallsOK, DeploySave, CallOK, Deploying, CallRecord
  <1>2. d \in Draft /\ Deployable(d, Env)
    <2>1. d = Saved(caller[c].seen)
      BY DEF Saved
    <2> QED BY <1>1, <2>1, SavedFacts
  <1> HIDE DEF d
  <1>3. CASE Answer(c, "failed") /\ n8n' = n8n
    BY <1>1, <1>3, AnswerKeeps DEF Answers, Outcomes
  <1>4. ASSUME NEW w \in Workflows \ {OldWorkflow},
               n8n' = [n8n EXCEPT ![w].there = TRUE, ![w].draft = d],
               caller' = [caller EXCEPT ![c] = [caller[c] EXCEPT !.at = "record", !.wf = w]]
        PROVE  ToolsInv'
    <2> DEFINE r == [caller[c] EXCEPT !.at = "record", !.wf = w]
    <2>1. r \in CallRecord /\ r.at = "record" /\ r.auto = caller[c].auto /\ r.wf = w
      BY <1>1 DEF CallRecord, Steps
    <2>2. caller' = [caller EXCEPT ![c] = r]
      BY <1>4
    <2>3. n8n'[w].there
      BY <1>4 DEF ToolsInv, TypeOK, Workflow
    <2>4. caller'[c] = r
      BY <2>2 DEF ToolsInv, TypeOK
    <2> HIDE DEF r
    <2>5. CallOK(c, caller[c])'
      BY <1>1, <2>1, <2>3, <2>4 DEF CallOK, Deploying, Holding
    <2> QED BY <1>1, <1>2, <1>4, <2>2, <2>4, <2>5, SaveKeeps
  <1>5. CASE /\ caller[c].wf # None /\ n8n[caller[c].wf].there
             /\ n8n' = [n8n EXCEPT ![caller[c].wf].draft = d]
             /\ Goto(c, "record")
    <2>1. caller[c].wf \in Workflows \ {OldWorkflow}
      BY <1>1, <1>5
    <2>2. n8n' = [n8n EXCEPT ![caller[c].wf].there = TRUE, ![caller[c].wf].draft = d]
      <3>1. n8n[caller[c].wf] \in Workflow /\ n8n[caller[c].wf].there = TRUE
        BY <1>5, <2>1 DEF ToolsInv, TypeOK, Workflow
      <3>2. [n8n[caller[c].wf] EXCEPT !.there = TRUE, !.draft = d] = [n8n[caller[c].wf] EXCEPT !.draft = d]
        BY <3>1 DEF Workflow
      <3> QED BY <1>5, <2>1, <3>2 DEF ToolsInv, TypeOK
    <2>3. caller' = [caller EXCEPT ![c] = [caller[c] EXCEPT !.at = "record", !.wf = caller[c].wf]]
      <3>1. [caller[c] EXCEPT !.at = "record", !.wf = caller[c].wf] = [caller[c] EXCEPT !.at = "record"]
        BY <1>1 DEF CallRecord
      <3> QED BY <1>5, <3>1 DEF Goto, ToolsInv, TypeOK
    <2> QED BY <1>4, <2>1, <2>2, <2>3
  <1>6. CASE \E w \in {v \in Workflows : ~n8n[v].there} :
               /\ n8n' = [n8n EXCEPT ![w].there = TRUE, ![w].draft = d]
               /\ caller' = [caller EXCEPT ![c].at = "record", ![c].wf = w]
    <2>1. PICK w \in {v \in Workflows : ~n8n[v].there} :
               /\ n8n' = [n8n EXCEPT ![w].there = TRUE, ![w].draft = d]
               /\ caller' = [caller EXCEPT ![c].at = "record", ![c].wf = w]
      BY <1>6
    <2>2. w \in Workflows \ {OldWorkflow}
      BY <2>1 DEF ToolsInv, WorkflowsOK
    <2>3. caller' = [caller EXCEPT ![c] = [caller[c] EXCEPT !.at = "record", !.wf = w]]
      BY <2>1 DEF ToolsInv, TypeOK
    <2> QED BY <1>4, <2>1, <2>2, <2>3
  <1> QED BY <1>3, <1>5, <1>6 DEF DeploySave, d

\* A document changes; it names a workflow that is there, not managed if it is OldWorkflow.
LEMMA DocumentKeeps ==
    ASSUME ToolsInv, NEW c \in Callers, NEW r, CallOK(c, r), caller' = [caller EXCEPT ![c] = r],
           NEW a \in Autos, NEW doc \in Document, request' = [request EXCEPT ![a] = doc],
           doc.there => /\ doc.wf \in Workflows /\ n8n[doc.wf].there
                        /\ doc.wf = OldWorkflow => ~doc.managed,
           UNCHANGED <<setting, n8n, repairs, approved>>
    PROVE  ToolsInv'
  <1>1. TypeOK'
    BY DEF ToolsInv, TypeOK, CallOK
  <1>2. CallsOK'
    <2> SUFFICES ASSUME NEW b \in Callers PROVE CallOK(b, caller[b])'
      BY DEF CallsOK
    <2>1. CallOK(b, caller[b])
      BY DEF ToolsInv, CallsOK
    <2>2. caller'[b] = IF b = c THEN r ELSE caller[b]
      BY DEF ToolsInv, TypeOK
    <2> QED BY <2>1, <2>2, EnvSame DEF CallOK
  <1>3. WorkflowsOK'
    BY EnvSame DEF ToolsInv, WorkflowsOK
  <1>4. RequestsOK'
    <2>1. \A b \in Autos : request'[b] = IF b = a THEN doc ELSE request[b]
      BY DEF ToolsInv, TypeOK
    <2> QED BY <2>1 DEF ToolsInv, RequestsOK
  <1> QED BY <1>1, <1>2, <1>3, <1>4 DEF ToolsInv

LEMMA AutosFinite == IsFiniteSet(Autos)
  BY ToolsAssumption, FS_AddElement DEF Autos

LEMMA DeployRecordKeeps == ASSUME ToolsInv, NEW c \in Callers, DeployRecord(c) PROVE ToolsInv'
  <1> DEFINE a == caller[c].auto
             born == IF request[a].there THEN request[a].born
                     ELSE Cardinality({b \in Autos : request[b].there})
             doc == [request[a] EXCEPT !.there = TRUE, !.wf = caller[c].wf, !.managed = TRUE,
                                       !.born = born, !.status = "draft_created",
                                       !.score = caller[c].score]
             r(word) == Rest(c, caller[c].calls, word)
  <1>1. /\ caller[c] \in CallRecord /\ a \in Autos
        /\ caller[c].wf \in Workflows \ {OldWorkflow} /\ n8n[caller[c].wf].there
        /\ UNCHANGED <<setting, n8n, repairs, approved>>
    BY DEF ToolsInv, TypeOK, CallsOK, DeployRecord, CallOK, Holding
  <1>2. request[a] \in Document /\ caller[c].score \in Nat
    BY <1>1 DEF ToolsInv, TypeOK, CallRecord
  <1>3. born \in Nat
    <2>1. Cardinality({b \in Autos : request[b].there}) \in Nat
      BY AutosFinite, FS_Subset, FS_CardinalityType
    <2> QED BY <1>2, <2>1 DEF Document
  <1> HIDE DEF born
  <1>4. CASE Answer(c, "failed") /\ request' = request
    BY <1>1, <1>4, AnswerKeeps DEF Answers, Outcomes
  <1>5. CASE request' = [request EXCEPT ![a] = doc] /\ Answer(c, "deployed")
    <2>1. doc \in Document /\ doc.there /\ doc.wf = caller[c].wf
      BY <1>1, <1>2, <1>3 DEF Document, Statuses
    <2>2. CallOK(c, r("deployed")) /\ caller' = [caller EXCEPT ![c] = r("deployed")]
      BY <1>5, AnswerOK DEF Answer, Answers
    <2> HIDE DEF doc, r
    <2> QED BY <1>1, <1>5, <2>1, <2>2, DocumentKeeps
  <1>6. \/ request' = [request EXCEPT ![a] = doc] /\ Answer(c, "deployed")
        \/ Answer(c, "failed") /\ request' = request
    BY DEF DeployRecord, born, ToolsInv, TypeOK
  <1> QED BY <1>4, <1>5, <1>6

\* What the calls of activate_automation and test_workflow begin with.
LEMMA FindKeeps ==
    ASSUME ToolsInv, NEW c \in Callers, NEW tool, NEW step \in {"read", "readTest"},
           NEW modes \in SUBSET Modes, Find(c, tool, step, modes)
    PROVE  ToolsInv'
  <1>1. PICK wf \in setting.known, auto \in Autos :
          \/ Refuses(c, "refused")
          \/ /\ auto \in Named(wf) /\ request[auto].managed
             /\ \E token \in BOOLEAN, mode \in modes :
                  caller' = [caller EXCEPT ![c] =
                    [Call(c) EXCEPT !.wf = wf, !.auto = auto, !.token = token, !.mode = mode,
                                    !.score = request[auto].score, !.at = step]]
    BY DEF Find
  <1>2. UNCHANGED <<setting, n8n, request, repairs, approved>>
    BY DEF Find
  <1>3. CASE Refuses(c, "refused")
    BY <1>2, <1>3, AnswerKeeps DEF Answers
  <1>4. ASSUME auto \in Named(wf), request[auto].managed,
               NEW token \in BOOLEAN, NEW mode \in modes,
               caller' = [caller EXCEPT ![c] =
                    [Call(c) EXCEPT !.wf = wf, !.auto = auto, !.token = token, !.mode = mode,
                                    !.score = request[auto].score, !.at = step]]
        PROVE  ToolsInv'
    <2>1. /\ wf \in Workflows \ {OldWorkflow} /\ n8n[wf].there
      BY <1>4 DEF Named, ToolsInv, RequestsOK
    <2>2. request[auto].score \in Nat
      BY DEF ToolsInv, TypeOK, Document
    <2> DEFINE score == request[auto].score
               r == [Call(c) EXCEPT !.wf = wf, !.auto = auto, !.token = token, !.mode = mode,
                                    !.score = score, !.at = step]
    <2>3. r \in CallRecord /\ r.at = step /\ r.auto = auto /\ r.wf = wf
      <3>1. Call(c) \in CallRecord
        BY CallStarts
      <3> HIDE DEF score
      <3> QED BY <2>1, <2>2, <3>1 DEF CallRecord, Steps, score
    <2>4. caller' = [caller EXCEPT ![c] = r]
      BY <1>4
    <2> HIDE DEF r
    <2>5. CallOK(c, r)
      BY <2>1, <2>3 DEF CallOK, Deploying, Holding
    <2> QED BY <1>2, <2>4, <2>5, OnlyCaller
  <1> QED BY <1>1, <1>3, <1>4

LEMMA ActivateReadKeeps == ASSUME ToolsInv, NEW c \in Callers, ActivateRead(c) PROVE ToolsInv'
  <1> DEFINE d == n8n[caller[c].wf].draft
             active == n8n[caller[c].wf].active
             needed == ApprovalRequired(d, active, Env, caller[c].mode)
             at == IF needed THEN "allowed" ELSE "go"
  <1>1. /\ caller[c] \in CallRecord /\ CallOK(c, caller[c]) /\ caller[c].at = "read"
        /\ caller[c].auto \in Autos
        /\ caller[c].wf \in Workflows \ {OldWorkflow} /\ n8n[caller[c].wf].there
        /\ UNCHANGED <<setting, n8n, request, repairs, approved>>
    BY DEF ToolsInv, TypeOK, CallsOK, ActivateRead, CallOK, Holding
  <1>2. d \in Draft
    BY <1>1 DEF ToolsInv, WorkflowsOK
  <1>3. CASE Answer(c, "failed") \/ Answer(c, "refused")
    BY <1>1, <1>3, AnswerKeeps DEF Answers, Outcomes
  <1>4. CASE /\ ActivationValid(d, Env) /\ Verdict(RiskScore(d, active, Env)) # "block"
             /\ caller' = [caller EXCEPT ![c].seen = d, ![c].at = at]
    <2> HIDE DEF d, active, needed
    <2>1. Activatable(d, Env)
      BY <1>2, <1>4, ScoreFacts DEF Activatable
    <2>2. AsksHuman(d, Env) => needed
      BY <1>2, ScoreFacts DEF needed
    <2>3. at \in {"allowed", "go"} /\ (at = "go" => ~AsksHuman(d, Env))
      BY <2>2
    <2> HIDE DEF at
    <2> DEFINE r == [caller[c] EXCEPT !.seen = d, !.at = at]
    <2>4. r \in CallRecord /\ r.at = at /\ r.seen = d /\ r.auto = caller[c].auto /\ r.wf = caller[c].wf
      BY <1>1, <1>2, <2>3 DEF CallRecord, Steps
    <2>5. caller' = [caller EXCEPT ![c] = r]
      BY <1>4 DEF ToolsInv, TypeOK
    <2> HIDE DEF r
    <2>6. CallOK(c, r)
      BY <1>1, <1>2, <2>1, <2>3, <2>4 DEF CallOK, Deploying, Holding
    <2> QED BY <1>1, <2>5, <2>6, OnlyCaller
  <1> QED BY <1>3, <1>4 DEF ActivateRead

\* A call that holds a workflow goes on, and at its new step it goes by nothing else.
LEMMA HoldsOn ==
    ASSUME ToolsInv, NEW c \in Callers, caller[c].at \in Holding,
           NEW at \in Holding \ {"allowed", "go"}, Goto(c, at),
           UNCHANGED <<setting, n8n, request, repairs, approved>>
    PROVE  ToolsInv'
  <1> DEFINE r == [caller[c] EXCEPT !.at = at]
  <1>1. caller[c] \in CallRecord /\ CallOK(c, caller[c]) /\ at \in Steps
    BY DEF ToolsInv, TypeOK, CallsOK, Holding, Steps
  <1>2. r \in CallRecord /\ r.at = at /\ r.auto = caller[c].auto /\ r.wf = caller[c].wf
    BY <1>1 DEF CallRecord
  <1>3. CallOK(c, r)
    <2> HIDE DEF r
    <2> QED BY <1>1, <1>2 DEF CallOK, Deploying, Holding
  <1> QED BY <1>1, <1>3, GotoKeeps

LEMMA ActivateApprovalKeeps ==
    ASSUME ToolsInv, NEW c \in Callers, ActivateApproval(c)
    PROVE  ToolsInv'
  <1> DEFINE r == [caller[c] EXCEPT !.at = "go"]
  <1>1. /\ caller[c] \in CallRecord /\ CallOK(c, caller[c]) /\ caller[c].at = "allowed"
        /\ UNCHANGED <<setting, n8n, request, repairs, approved>>
    BY DEF ToolsInv, TypeOK, CallsOK, ActivateApproval
  <1>2. CASE Answer(c, "refused")
    BY <1>1, <1>2, AnswerKeeps DEF Answers
  <1>3. CASE c \in approved /\ Goto(c, "go")
    <2>1. /\ r \in CallRecord /\ r.at = "go" /\ r.auto = caller[c].auto /\ r.wf = caller[c].wf
          /\ r.seen = caller[c].seen
      BY <1>1 DEF CallRecord, Steps
    <2>2. CallOK(c, r)
      <3> HIDE DEF r
      <3> QED BY <1>1, <1>3, <2>1 DEF CallOK, Deploying, Holding
    <2>3. "go" \in Steps
      BY DEF Steps
    <2> QED BY <1>1, <1>3, <2>2, <2>3, GotoKeeps
  <1> QED BY <1>2, <1>3 DEF ActivateApproval

LEMMA ActivateGoKeeps == ASSUME ToolsInv, NEW c \in Callers, ActivateGo(c) PROVE ToolsInv'
  <1> DEFINE w == caller[c].wf
             now == [n8n[w] EXCEPT !.active = TRUE, !.checked = caller[c].seen, !.by = c]
             r == [caller[c] EXCEPT !.at = "mark"]
  <1>1. /\ caller[c] \in CallRecord /\ CallOK(c, caller[c]) /\ caller[c].at = "go"
        /\ UNCHANGED <<setting, request, repairs, approved>>
    BY DEF ToolsInv, TypeOK, CallsOK, ActivateGo
  <1>2. /\ caller[c].auto \in Autos
        /\ w \in Workflows \ {OldWorkflow} /\ n8n[w].there /\ n8n[w] \in Workflow
        /\ caller[c].seen \in Draft /\ Activatable(caller[c].seen, Env)
        /\ AsksHuman(caller[c].seen, Env) => c \in approved
    BY <1>1 DEF CallOK, Holding, ToolsInv, TypeOK
  <1>3. CASE Answer(c, "failed") /\ n8n' = n8n
    BY <1>1, <1>3, AnswerKeeps DEF Answers, Outcomes
  <1>4. CASE n8n' = [n8n EXCEPT ![w] = now] /\ Goto(c, "mark")
    <2>1. /\ now \in Workflow
          /\ now.there = n8n[w].there /\ now.draft = n8n[w].draft
          /\ now.checked = caller[c].seen /\ now.by = c
      BY <1>2 DEF Workflow
    <2> HIDE DEF now
    <2>2. /\ n8n' \in [Workflows -> Workflow] /\ n8n'[w] = now
          /\ \A v \in Workflows \ {w} : n8n'[v] = n8n[v]
      BY <1>2, <1>4, <2>1 DEF ToolsInv, TypeOK
    <2>3. r \in CallRecord /\ r.at = "mark" /\ r.auto = caller[c].auto /\ r.wf = w
      BY <1>1 DEF CallRecord, Steps
    <2>4. /\ caller' \in [Callers -> CallRecord] /\ caller'[c] = r
          /\ \A b \in Callers \ {c} : caller'[b] = caller[b]
      BY <1>4, <2>3 DEF Goto, ToolsInv, TypeOK
    <2> HIDE DEF r
    <2>5. TypeOK'
      BY <1>1, <2>2, <2>4 DEF ToolsInv, TypeOK
    <2>6. CallsOK'
      <3> SUFFICES ASSUME NEW b \in Callers PROVE CallOK(b, caller[b])'
        BY DEF CallsOK
      <3>1. CASE b = c
        BY <1>2, <2>1, <2>2, <2>3, <2>4, <3>1 DEF CallOK, Deploying, Holding
      <3>2. CASE b # c
        BY <1>1, <2>1, <2>2, <2>4, <3>2, OthersStay
      <3> QED BY <3>1, <3>2
    <2>7. WorkflowsOK'
      <3>1. OldWorkflow \in Workflows
        BY ToolsAssumption
      <3> HIDE DEF w
      <3> QED BY <1>1, <1>2, <2>1, <2>2, <3>1, EnvSame DEF ToolsInv, WorkflowsOK
    <2>8. RequestsOK'
      BY <1>1, <2>1, <2>2 DEF ToolsInv, RequestsOK
    <2> QED BY <2>5, <2>6, <2>7, <2>8 DEF ToolsInv
  <1>5. \/ n8n' = [n8n EXCEPT ![w] = now] /\ Goto(c, "mark")
        \/ Answer(c, "failed") /\ n8n' = n8n
    BY DEF ActivateGo, ToolsInv, TypeOK
  <1> QED BY <1>3, <1>4, <1>5

\* A call ends with a new status, and perhaps a test's outcome, in its document.
LEMMA StatusKeeps ==
    ASSUME ToolsInv, NEW c \in Callers, NEW word \in Answers, Answer(c, word),
           NEW a \in Autos, NEW status \in Statuses, NEW test \in Outcomes \cup {"none"},
           request' = [request EXCEPT ![a] = [request[a] EXCEPT !.status = status, !.test = test]],
           UNCHANGED <<setting, n8n, repairs, approved>>
    PROVE  ToolsInv'
  <1> DEFINE doc == [request[a] EXCEPT !.status = status, !.test = test]
             r == Rest(c, caller[c].calls, word)
  <1>1. request[a] \in Document
    BY DEF ToolsInv, TypeOK
  <1>2. /\ doc \in Document /\ doc.there = request[a].there /\ doc.wf = request[a].wf
        /\ doc.managed = request[a].managed
    BY <1>1 DEF Document
  <1>3. CallOK(c, r) /\ caller' = [caller EXCEPT ![c] = r]
    BY AnswerOK DEF Answer
  <1>4. request' = [request EXCEPT ![a] = doc]
    OBVIOUS
  <1> HIDE DEF doc, r
  <1>5. doc.there => /\ doc.wf \in Workflows /\ n8n[doc.wf].there
                     /\ doc.wf = OldWorkflow => ~doc.managed
    BY <1>2 DEF ToolsInv, RequestsOK
  <1> QED BY <1>2, <1>3, <1>4, <1>5, DocumentKeeps

LEMMA ActivateMarkKeeps == ASSUME ToolsInv, NEW c \in Callers, ActivateMark(c) PROVE ToolsInv'
  <1> DEFINE a == caller[c].auto
  <1>1. /\ CallOK(c, caller[c]) /\ caller[c].at = "mark"
        /\ UNCHANGED <<setting, n8n, repairs, approved>>
    BY DEF ToolsInv, CallsOK, ActivateMark
  <1>2. a \in Autos /\ request[a] \in Document
    BY <1>1 DEF CallOK, ToolsInv, TypeOK
  <1>3. CASE request' = request /\ Answer(c, "failed")
    BY <1>1, <1>3, AnswerKeeps DEF Answers, Outcomes
  <1>4. CASE request' = [request EXCEPT ![a].status = "active"] /\ Answer(c, "activated")
    <2>1. request' = [request EXCEPT ![a] =
                        [request[a] EXCEPT !.status = "active", !.test = request[a].test]]
      <3>1. [request[a] EXCEPT !.status = "active", !.test = request[a].test]
              = [request[a] EXCEPT !.status = "active"]
        BY <1>2 DEF Document
      <3> QED BY <1>4, <3>1 DEF ToolsInv, TypeOK
    <2>2. request[a].test \in Outcomes \cup {"none"} /\ "active" \in Statuses /\ "activated" \in Answers
      BY <1>2 DEF Document, Statuses, Answers
    <2> QED BY <1>1, <1>2, <1>4, <2>1, <2>2, StatusKeeps
  <1> QED BY <1>3, <1>4 DEF ActivateMark

LEMMA TestReadKeeps == ASSUME ToolsInv, NEW c \in Callers, TestRead(c) PROVE ToolsInv'
  <1> DEFINE Ends(outcome) ==
               caller' = [caller EXCEPT ![c].at = "status", ![c].outcome = outcome]
  <1>1. /\ caller[c] \in CallRecord /\ CallOK(c, caller[c]) /\ caller[c].at = "readTest"
        /\ UNCHANGED <<setting, n8n, request, repairs, approved>>
    BY DEF ToolsInv, TypeOK, CallsOK, TestRead
  <1>2. CASE Answer(c, "failed")
    BY <1>1, <1>2, AnswerKeeps DEF Answers, Outcomes
  <1>3. ASSUME NEW outcome \in Outcomes, Ends(outcome) PROVE ToolsInv'
    <2> DEFINE r == [caller[c] EXCEPT !.at = "status", !.outcome = outcome]
    <2>1. r \in CallRecord /\ r.at = "status" /\ r.auto = caller[c].auto
      BY <1>1 DEF CallRecord, Steps
    <2>2. caller' = [caller EXCEPT ![c] = r]
      BY <1>3 DEF ToolsInv, TypeOK
    <2> HIDE DEF r
    <2>3. CallOK(c, r)
      BY <1>1, <2>1 DEF CallOK, Deploying, Holding
    <2> QED BY <1>1, <2>2, <2>3, OnlyCaller
  <1>4. CASE \E at \in {"mayRun", "execute"} : Goto(c, at)
    BY <1>1, <1>4, HoldsOn DEF Holding
  <1>5. \/ Answer(c, "failed") \/ \E outcome \in Outcomes : Ends(outcome)
        \/ \E at \in {"mayRun", "execute"} : Goto(c, at)
    BY DEF TestRead, Outcomes
  <1> QED BY <1>2, <1>3, <1>4, <1>5

LEMMA TestApprovalKeeps == ASSUME ToolsInv, NEW c \in Callers, TestApproval(c) PROVE ToolsInv'
  <1>1. caller[c].at \in Holding /\ UNCHANGED <<setting, n8n, request, repairs, approved>>
    BY DEF TestApproval, Holding
  <1>2. CASE Answer(c, "refused")
    BY <1>1, <1>2, AnswerKeeps DEF Answers
  <1>3. CASE Goto(c, "execute")
    BY <1>1, <1>3, HoldsOn DEF Holding
  <1> QED BY <1>2, <1>3 DEF TestApproval

LEMMA TestWaits ==
    ASSUME ToolsInv, NEW c \in Callers, TestExecute(c) \/ TestAnalyze(c) \/ TestStatus(c)
    PROVE  ToolsInv'
  <1>1. /\ caller[c] \in CallRecord /\ CallOK(c, caller[c])
        /\ caller[c].at \in {"execute", "wait", "status"} /\ caller[c].auto \in Autos
        /\ UNCHANGED <<setting, n8n, request, repairs, approved>>
    BY DEF ToolsInv, TypeOK, CallsOK, TestExecute, TestAnalyze, TestStatus, CallOK
  <1>2. CASE Goto(c, "wait")
    <2> DEFINE r == [caller[c] EXCEPT !.at = "wait"]
    <2>1. r \in CallRecord /\ r.at = "wait" /\ r.auto = caller[c].auto
      BY <1>1 DEF CallRecord, Steps
    <2>2. CallOK(c, r)
      <3> HIDE DEF r
      <3> QED BY <1>1, <2>1 DEF CallOK, Deploying, Holding
    <2> QED BY <1>1, <1>2, <2>2, GotoKeeps DEF Steps
  <1>3. ASSUME NEW outcome \in Outcomes,
               caller' = [caller EXCEPT ![c].at = "status", ![c].outcome = outcome]
        PROVE  ToolsInv'
    <2> DEFINE r == [caller[c] EXCEPT !.at = "status", !.outcome = outcome]
    <2>1. r \in CallRecord /\ r.at = "status" /\ r.auto = caller[c].auto
      BY <1>1 DEF CallRecord, Steps
    <2>2. caller' = [caller EXCEPT ![c] = r]
      BY <1>3 DEF ToolsInv, TypeOK
    <2> HIDE DEF r
    <2>3. CallOK(c, r)
      BY <1>1, <2>1 DEF CallOK, Deploying, Holding
    <2> QED BY <1>1, <2>2, <2>3, OnlyCaller
  <1>4. ASSUME NEW status \in Statuses,
               caller' = [caller EXCEPT ![c].at = "write", ![c].status = status]
        PROVE  ToolsInv'
    <2> DEFINE r == [caller[c] EXCEPT !.at = "write", !.status = status]
    <2>1. r \in CallRecord /\ r.at = "write" /\ r.auto = caller[c].auto /\ r.status = status
      BY <1>1 DEF CallRecord, Steps
    <2>2. caller' = [caller EXCEPT ![c] = r]
      BY <1>4 DEF ToolsInv, TypeOK
    <2> HIDE DEF r
    <2>3. CallOK(c, r)
      BY <1>1, <2>1 DEF CallOK, Deploying, Holding
    <2> QED BY <1>1, <2>2, <2>3, OnlyCaller
  <1>5. CASE TestExecute(c)
    BY <1>2, <1>5 DEF TestExecute
  <1>6. CASE TestAnalyze(c)
    BY <1>3, <1>6 DEF TestAnalyze, Outcomes
  <1>7. CASE TestStatus(c)
    <2>1. request[caller[c].auto].status \in Statuses /\ "tested" \in Statuses
      BY <1>1 DEF ToolsInv, TypeOK, Document, Statuses
    <2> QED BY <1>4, <1>7, <2>1 DEF TestStatus
  <1> QED BY <1>5, <1>6, <1>7

LEMMA TestWriteKeeps == ASSUME ToolsInv, NEW c \in Callers, TestWrite(c) PROVE ToolsInv'
  <1> DEFINE a == caller[c].auto
  <1>1. /\ CallOK(c, caller[c]) /\ caller[c] \in CallRecord /\ caller[c].at = "write"
        /\ Answer(c, caller[c].outcome)
        /\ UNCHANGED <<setting, n8n, repairs, approved>>
    BY DEF ToolsInv, CallsOK, TypeOK, TestWrite
  <1>2. /\ a \in Autos /\ caller[c].status \in Statuses
        /\ caller[c].outcome \in Outcomes \cup {"none"} /\ caller[c].outcome \in Answers
    BY <1>1 DEF CallOK, CallRecord, Answers
  <1>3. CASE request' = request
    BY <1>1, <1>2, <1>3, AnswerKeeps
  <1>4. CASE request' = [request EXCEPT ![a].status = caller[c].status, ![a].test = caller[c].outcome]
    <2>1. request' = [request EXCEPT ![a] =
                        [request[a] EXCEPT !.status = caller[c].status, !.test = caller[c].outcome]]
      BY <1>2, <1>4 DEF ToolsInv, TypeOK
    <2> QED BY <1>1, <1>2, <2>1, StatusKeeps
  <1> QED BY <1>3, <1>4 DEF TestWrite

LEMMA RepairKeeps == ASSUME ToolsInv, NEW c \in Callers, Repair(c) PROVE ToolsInv'
  <1>1. /\ caller[c].draft \in Draft
        /\ UNCHANGED <<setting, n8n, request, repairs, approved>>
    BY DEF ToolsInv, TypeOK, CallRecord, Repair
  <1>2. CASE Refuses(c, "stopped")
    BY <1>1, <1>2, AnswerKeeps DEF Answers
  <1>3. ASSUME NEW auto \in Autos, caller' = [caller EXCEPT ![c] = [Call(c) EXCEPT !.auto = auto, !.at = "note"]]
        PROVE  ToolsInv'
    <2> DEFINE r == [Call(c) EXCEPT !.auto = auto, !.at = "note"]
    <2>1. Call(c) \in CallRecord /\ Call(c).draft = caller[c].draft
      BY CallStarts DEF Call, ToolsInv, TypeOK, CallRecord
    <2>2. r \in CallRecord /\ r.at = "note" /\ r.auto = auto /\ r.draft = caller[c].draft
      BY <2>1 DEF CallRecord, Steps
    <2>3. caller' = [caller EXCEPT ![c] = r]
      BY <1>3
    <2> HIDE DEF r
    <2>4. CallOK(c, r)
      BY <1>1, <2>2 DEF CallOK, Deploying, Holding
    <2> QED BY <1>1, <2>3, <2>4, OnlyCaller
  <1> QED BY <1>2, <1>3 DEF Repair

LEMMA RepairNoteKeeps == ASSUME ToolsInv, NEW c \in Callers, RepairNote(c) PROVE ToolsInv'
  <1> DEFINE d == Repaired(caller[c].draft, Env)
             rest == Rest(c, caller[c].calls, "repaired")
             r == [rest EXCEPT !.draft = d]
  <1>1. /\ CallOK(c, caller[c]) /\ caller[c].at = "note"
        /\ UNCHANGED <<setting, n8n, request, approved>>
    BY DEF ToolsInv, CallsOK, RepairNote
  <1>2. caller[c].draft \in Draft /\ caller[c].auto \in Autos
    BY <1>1 DEF CallOK
  <1>3. CASE repairs' = repairs /\ Answer(c, "failed")
    BY <1>1, <1>3, AnswerKeeps DEF Answers, Outcomes
  <1>4. CASE /\ repairs' = [repairs EXCEPT ![caller[c].auto] = @ + 1]
             /\ caller' = [caller EXCEPT ![c] = [rest EXCEPT !.draft = Repaired(@, Env)]]
    <2>1. d \in Draft
      BY <1>2, DraftFacts DEF Repaired, Draft, Edits
    <2>2. CallOK(c, rest) /\ rest \in CallRecord /\ rest.at = "idle" /\ rest.draft = caller[c].draft
      BY AnswerOK DEF Answers, CallOK, Rest, Ready
    <2> HIDE DEF rest
    <2>3. r = [rest EXCEPT !.draft = Repaired(@, Env)]
      BY <2>2
    <2> HIDE DEF d
    <2>4. r \in CallRecord /\ r.at = "idle"
      BY <2>1, <2>2 DEF CallRecord
    <2>5. CallOK(c, r)
      <3> HIDE DEF r
      <3> QED BY <2>4 DEF CallOK, Deploying, Holding
    <2>6. /\ caller' \in [Callers -> CallRecord] /\ caller'[c] = r
          /\ \A b \in Callers \ {c} : caller'[b] = caller[b]
      <3> HIDE DEF r
      <3> QED BY <1>4, <2>3, <2>4 DEF ToolsInv, TypeOK
    <2>7. TypeOK'
      BY <1>1, <1>2, <1>4, <2>6 DEF ToolsInv, TypeOK
    <2>8. CallsOK'
      <3> HIDE DEF r
      <3> SUFFICES ASSUME NEW b \in Callers PROVE CallOK(b, caller[b])'
        BY DEF CallsOK
      <3>1. CASE b = c
        BY <1>1, <2>5, <2>6, <3>1, EnvSame DEF CallOK
      <3>2. CASE b # c
        BY <1>1, <2>6, <3>2, OthersStay
      <3> QED BY <3>1, <3>2
    <2>9. WorkflowsOK' /\ RequestsOK'
      BY <1>1, EnvSame DEF ToolsInv, WorkflowsOK, RequestsOK
    <2> QED BY <2>7, <2>8, <2>9 DEF ToolsInv
  <1> QED BY <1>3, <1>4 DEF RepairNote

-----------------------------------------------------------------------------
(* The theorems                                                             *)

LEMMA InitInv == Init => ToolsInv
  <1> SUFFICES ASSUME Init PROVE ToolsInv
    OBVIOUS
  <1>1. setting \in Settings /\ setting.ids # {} /\ setting.ids \in SUBSET PatternIds
    BY ToolsAssumption DEF Init, Setting
  <1>2. OldWorkflow \in Workflows /\ OldAuto \in Autos
    BY ToolsAssumption DEF Autos
  <1> DEFINE d == [flow |-> Catalog[CHOOSE id \in setting.ids : TRUE].flow, edits |-> {}]
  <1>3. d \in Draft
    BY <1>1 DEF Draft
  <1> HIDE DEF d
  <1>4. n8n = [w \in Workflows |->
                [there |-> w = OldWorkflow, active |-> w = OldWorkflow, by |-> None, checked |-> None,
                 draft |-> IF w = OldWorkflow THEN d ELSE None]]
    BY DEF Init, d
  <1>5. n8n \in [Workflows -> Workflow]
    <2>1. \A w \in Workflows :
            [there |-> w = OldWorkflow, active |-> w = OldWorkflow, by |-> None, checked |-> None,
             draft |-> IF w = OldWorkflow THEN d ELSE None] \in Workflow
      <3> SUFFICES ASSUME NEW there \in BOOLEAN, NEW draft \in Draft \cup {None}
                   PROVE  [there |-> there, active |-> there, by |-> None, checked |-> None,
                           draft |-> draft] \in Workflow
        BY <1>3
      <3> QED BY DEF Workflow
    <2> QED BY <1>4, <2>1
  <1>6. request \in [Autos -> Document]
    <2>1. \A a \in Autos :
            [there |-> a = OldAuto, wf |-> IF a = OldAuto THEN OldWorkflow ELSE None,
             managed |-> FALSE, score |-> 0, status |-> "active", born |-> 0, test |-> "none"]
              \in Document
      <3> SUFFICES ASSUME NEW there \in BOOLEAN, NEW wf \in Workflows \cup {None}
                   PROVE  [there |-> there, wf |-> wf, managed |-> FALSE, score |-> 0,
                           status |-> "active", born |-> 0, test |-> "none"] \in Document
        BY <1>2
      <3> QED BY DEF Document, Statuses
    <2> QED BY <2>1 DEF Init
  <1>7. Ready \in CallRecord /\ Ready.at = "idle"
    BY DEF Ready, CallRecord, Steps, Modes, Answers
  <1>8. TypeOK
    BY <1>1, <1>5, <1>6, <1>7 DEF TypeOK, Init
  <1>9. CallsOK
    BY <1>7 DEF Init, CallsOK, CallOK, Deploying, Holding
  <1>10. WorkflowsOK
    BY <1>2, <1>4 DEF WorkflowsOK
  <1>11. RequestsOK
    <2>1. n8n[OldWorkflow].there
      BY <1>2, <1>4
    <2>2. \A a \in Autos : request[a].there => request[a].wf = OldWorkflow /\ ~request[a].managed
      BY DEF Init
    <2> QED BY <1>2, <2>1, <2>2 DEF RequestsOK
  <1> QED BY <1>8, <1>9, <1>10, <1>11 DEF ToolsInv

LEMMA NextInv == ToolsInv /\ [Next]_vars => ToolsInv'
  <1> SUFFICES ASSUME ToolsInv, [Next]_vars PROVE ToolsInv'
    OBVIOUS
  <1>1. ASSUME NEW c \in Callers, Tool(c) PROVE ToolsInv'
    <2>1. CASE \/ Compose(c) \/ Approve(c) \/ Deploy(c) \/ DeployOwner(c) \/ DeployApproval(c)
               \/ DeploySave(c) \/ DeployRecord(c)
      BY <2>1, ComposeKeeps, ApproveKeeps, DeployKeeps, DeployOwnerKeeps, DeployApprovalKeeps,
         DeploySaveKeeps, DeployRecordKeeps
    <2>2. CASE Activate(c)
      BY <2>2, FindKeeps DEF Activate, Modes
    <2>3. CASE ActivateRead(c) \/ ActivateApproval(c) \/ ActivateGo(c) \/ ActivateMark(c)
      BY <2>3, ActivateReadKeeps, ActivateApprovalKeeps, ActivateGoKeeps, ActivateMarkKeeps
    <2>4. CASE Test(c)
      BY <2>4, FindKeeps DEF Test, Modes
    <2>5. CASE \/ TestRead(c) \/ TestApproval(c) \/ TestExecute(c) \/ TestAnalyze(c)
               \/ TestStatus(c) \/ TestWrite(c)
      BY <2>5, TestReadKeeps, TestApprovalKeeps, TestWaits, TestWriteKeeps
    <2>6. CASE Repair(c) \/ RepairNote(c)
      BY <2>6, RepairKeeps, RepairNoteKeeps
    <2> QED BY <1>1, <2>1, <2>2, <2>3, <2>4, <2>5, <2>6 DEF Tool
  <1>2. ASSUME UNCHANGED <<setting, n8n, request, repairs, approved, caller>> PROVE ToolsInv'
    BY <1>2, EnvSame DEF ToolsInv, TypeOK, CallsOK, CallOK, WorkflowsOK, RequestsOK
  <1>3. CASE (\E w \in Workflows : Fire(w)) \/ RunNode \/ UNCHANGED vars
    BY <1>2, <1>3 DEF Fire, RunNode, vars
  <1> QED BY <1>1, <1>3 DEF Next

LEMMA ToolsInvariance == Spec => []ToolsInv
  <1> QED BY InitInv, NextInv, PTL DEF Spec

\* Whatever the agents call side by side, what they have activated was valid for
\* activation, not too risky and approved where the policy asks for that; and what a
\* deployment has put there since passed the checks of a deployment.
THEOREM ActivatedWasChecked == Spec => []ActiveWasChecked
  <1>1. ToolsInv => ActiveWasChecked
    <2> SUFFICES ASSUME ToolsInv, NEW w \in Workflows, n8n[w].active, n8n[w].by # None
                 PROVE  /\ ActivationValid(n8n[w].checked, Env)
                        /\ Verdict(RiskScore(n8n[w].checked, FALSE, Env)) # "block"
                        /\ ApprovalRequired(n8n[w].checked, FALSE, Env, "auto") =>
                             n8n[w].by \in approved
                        /\ ~BlocksDeploy(n8n[w].draft, Env, TRUE)
                        /\ Verdict(RiskScore(n8n[w].draft, FALSE, Env)) # "block"
      BY DEF ActiveWasChecked
    <2>1. w # OldWorkflow
      BY DEF ToolsInv, WorkflowsOK
    <2>2. /\ Deployable(n8n[w].draft, Env) /\ Activatable(n8n[w].checked, Env)
          /\ AsksHuman(n8n[w].checked, Env) => n8n[w].by \in approved
      BY <2>1 DEF ToolsInv, WorkflowsOK
    <2> QED BY <2>2 DEF Deployable, Activatable, AsksHuman
  <1> QED BY <1>1, ToolsInvariance, PTL

\* Type correctness of the tools' state.
THEOREM ArchitectTypes == Spec => []TypeOK
  <1>1. ToolsInv => TypeOK
    BY DEF ToolsInv
  <1> QED BY <1>1, ToolsInvariance, PTL

\* The tools leave a workflow alone that no record marks as theirs: nothing they do, in
\* whatever order, changes what n8n has under its id.
OthersWorkflowUntouched == [][n8n'[OldWorkflow] = n8n[OldWorkflow]]_vars

THEOREM UnmanagedLeftAlone == Spec => OthersWorkflowUntouched
  <1>1. ASSUME ToolsInv, [Next]_vars PROVE [n8n'[OldWorkflow] = n8n[OldWorkflow]]_vars
    <2>1. n8n \in [Workflows -> Workflow] /\ n8n[OldWorkflow].there /\ OldWorkflow \in Workflows
      BY <1>1, ToolsAssumption DEF ToolsInv, TypeOK, WorkflowsOK
    <2>2. ASSUME NEW c \in Callers, DeploySave(c) PROVE n8n'[OldWorkflow] = n8n[OldWorkflow]
      <3>1. caller[c].wf # OldWorkflow
        BY <1>1, <2>2 DEF DeploySave, ToolsInv, CallsOK, CallOK
      <3> QED BY <2>1, <2>2, <3>1 DEF DeploySave
    <2>3. ASSUME NEW c \in Callers, ActivateGo(c) PROVE n8n'[OldWorkflow] = n8n[OldWorkflow]
      <3>1. caller[c].wf # OldWorkflow
        BY <1>1, <2>3 DEF ActivateGo, ToolsInv, CallsOK, CallOK, Holding
      <3> QED BY <2>1, <2>3, <3>1 DEF ActivateGo
    <2>4. ASSUME NEW c \in Callers, Tool(c), ~DeploySave(c), ~ActivateGo(c) PROVE n8n' = n8n
      BY <2>4 DEF Tool, Compose, Approve, Deploy, DeployOwner, DeployApproval, DeployRecord,
        Activate, Test, Find, ActivateRead, ActivateApproval, ActivateMark, TestRead,
        TestApproval, TestExecute, TestAnalyze, TestStatus, TestWrite, Repair, RepairNote
    <2>5. CASE (\E w \in Workflows : Fire(w)) \/ RunNode \/ UNCHANGED vars
      BY <2>5 DEF Fire, RunNode, vars
    <2> QED BY <1>1, <2>2, <2>3, <2>4, <2>5 DEF Next
  <1> QED BY <1>1, ToolsInvariance, PTL DEF Spec, OthersWorkflowUntouched

-----------------------------------------------------------------------------
(* The catalog                                                              *)

Turned == {"invalid", "too risky"}

ComposableFlows == {Catalog[id].flow : id \in Composable}

\* What becomes of the record r of caller c in a step that leaves e of it: only
\* compose_workflow and a repair change the agent's draft, only deploy_automation takes it
\* up and says that it was turned away.
StepOf(c, r, e) ==
    /\ \/ e.draft = r.draft
       \/ e.draft \in [flow : ComposableFlows, edits : setting.edits]
       \/ r.draft \in Draft /\ e.draft = Repaired(r.draft, Env)
    /\ e.answer \in Turned => Deploy(c) \/ (e.answer = r.answer /\ e.draft = r.draft)
    /\ e.at \in Deploying =>
         \/ r.at \in Deploying /\ e.seen = r.seen
         \/ Deploy(c) /\ r.draft # None /\ e.seen = normalizeConnectionKeys(r.draft)

LEMMA KeptFields ==
    ASSUME NEW r \in CallRecord, NEW x, NEW y
    PROVE  /\ \A e \in {[r EXCEPT !.at = x], [r EXCEPT !.at = x, !.auto = y],
                        [r EXCEPT !.at = x, !.wf = y], [r EXCEPT !.at = x, !.outcome = y],
                        [r EXCEPT !.at = x, !.status = y]} :
                e.answer = r.answer /\ e.draft = r.draft /\ e.at = x /\ e.seen = r.seen
           /\ \A e \in {[r EXCEPT !.seen = x, !.at = y]} :
                e.answer = r.answer /\ e.draft = r.draft /\ e.at = y
  BY DEF CallRecord

LEMMA CallSteps ==
    ASSUME ToolsInv, [Next]_vars, NEW c \in Callers
    PROVE  StepOf(c, caller[c], caller'[c])
  <1>1. caller \in [Callers -> CallRecord] /\ caller[c] \in CallRecord
    BY DEF ToolsInv, TypeOK
  <1> USE DEF Turned, Deploying, StepOf
  <1>2. ASSUME NEW b \in Callers, b # c, Tool(b) PROVE caller'[c] = caller[c]
    BY <1>1, <1>2 DEF Tool, Compose, Approve, Deploy, DeployOwner, DeployApproval, DeploySave,
      DeployRecord, Activate, Test, Find, ActivateRead, ActivateApproval, ActivateGo, ActivateMark,
      TestRead, TestApproval, TestExecute, TestAnalyze, TestStatus, TestWrite, Repair, RepairNote,
      Answer, Refuses, Goto
  <1>3. ASSUME NEW word \in Answers, word \notin Turned \/ Deploy(c), Answer(c, word) \/ Refuses(c, word)
        PROVE  StepOf(c, caller[c], caller'[c])
    BY <1>1, <1>3 DEF Answer, Refuses, Rest, Ready
  <1>4. ASSUME NEW at, Goto(c, at), at \notin Deploying \/ caller[c].at \in Deploying
        PROVE  StepOf(c, caller[c], caller'[c])
    <2>1. caller'[c] = [caller[c] EXCEPT !.at = at]
      BY <1>1, <1>4 DEF Goto
    <2> QED BY <1>1, <1>4, <2>1, KeptFields
  <1>5. /\ Outcomes \cup {"none", "not composed", "refused", "failed", "deployed", "activated",
                          "stopped", "unapproved"} \subseteq Answers \ Turned
        /\ Turned \subseteq Answers
    BY DEF Answers, Outcomes
  <1>6. CASE Compose(c)
    <2>1. CASE Answer(c, "not composed")
      BY <1>3, <1>5, <2>1
    <2>2. CASE \E id \in Composable, edits \in setting.edits :
                 caller' = [caller EXCEPT ![c].draft = [flow |-> Catalog[id].flow, edits |-> edits],
                                          ![c].answer = "none"]
      <3>1. PICK id \in Composable, edits \in setting.edits :
                 caller' = [caller EXCEPT ![c].draft = [flow |-> Catalog[id].flow, edits |-> edits],
                                          ![c].answer = "none"]
        BY <2>2
      <3> DEFINE d == [flow |-> Catalog[id].flow, edits |-> edits]
      <3>2. d \in [flow : ComposableFlows, edits : setting.edits]
        BY DEF ComposableFlows
      <3>3. caller'[c] = [caller[c] EXCEPT !.draft = d, !.answer = "none"]
        BY <1>1, <3>1
      <3> HIDE DEF d
      <3>4. caller'[c].answer = "none" /\ caller'[c].draft = d /\ caller'[c].at = "idle"
        BY <1>1, <1>6, <3>3 DEF CallRecord, Compose
      <3> QED BY <3>2, <3>4
    <2> QED BY <1>6, <2>1, <2>2 DEF Compose
  <1>7. CASE Approve(c) \/ UNCHANGED caller
    BY <1>7 DEF Approve
  <1>a. Call(c) \in CallRecord /\ Call(c).answer = "none" /\ Call(c).draft = caller[c].draft
    BY <1>1, CallStarts DEF Call, CallRecord
  <1>b. CASE Deploy(c)
    <2> DEFINE d == normalizeConnectionKeys(caller[c].draft)
               score == RiskScore(d, "running" \in d.edits, Env)
    <2>1. CASE \E word \in {"invalid", "too risky", "unapproved"} : Refuses(c, word)
      BY <1>3, <1>5, <1>b, <2>1
    <2>2. CASE \E wf \in setting.known \cup {None}, auto \in Autos, given \in BOOLEAN :
                 caller' = [caller EXCEPT ![c] =
                   [Call(c) EXCEPT !.wf = wf, !.auto = auto, !.given = given, !.seen = d,
                      !.score = score, !.at = IF wf = None THEN "approval" ELSE "owner"]]
      <3> HIDE DEF score
      <3>1. PICK wf, auto, given :
                 caller' = [caller EXCEPT ![c] =
                   [Call(c) EXCEPT !.wf = wf, !.auto = auto, !.given = given, !.seen = d,
                      !.score = score, !.at = IF wf = None THEN "approval" ELSE "owner"]]
        BY <2>2
      <3> DEFINE at == IF wf = None THEN "approval" ELSE "owner"
      <3> HIDE DEF at, d
      <3>2. caller'[c] = [Call(c) EXCEPT !.wf = wf, !.auto = auto, !.given = given, !.seen = d,
                            !.score = score, !.at = at]
        BY <1>1, <3>1 DEF at
      <3>3. caller'[c].answer = "none" /\ caller'[c].draft = caller[c].draft /\ caller'[c].seen = d
        BY <1>a, <3>2 DEF CallRecord
      <3> QED BY <1>b, <3>3 DEF Deploy, d
    <2> QED BY <1>b, <2>1, <2>2 DEF Deploy
  <1>8. CASE DeployOwner(c)
    <2>1. CASE Answer(c, "refused")
      BY <1>3, <1>5, <2>1
    <2>2. CASE \E a : caller' = [caller EXCEPT ![c].at = "approval", ![c].auto = a]
      <3>1. PICK a : caller' = [caller EXCEPT ![c].at = "approval", ![c].auto = a]
        BY <2>2
      <3>2. caller'[c] = [caller[c] EXCEPT !.at = "approval", !.auto = a] /\ caller[c].at = "owner"
        BY <1>1, <1>8, <3>1 DEF DeployOwner
      <3> QED BY <1>1, <3>2, KeptFields
    <2> QED BY <1>8, <2>1, <2>2 DEF DeployOwner
  <1>9. CASE DeployApproval(c) \/ ActivateApproval(c) \/ TestApproval(c)
    BY <1>3, <1>4, <1>5, <1>9 DEF DeployApproval, ActivateApproval, TestApproval
  <1>10. CASE DeploySave(c)
    <2>1. CASE Answer(c, "failed") \/ Goto(c, "record")
      BY <1>3, <1>4, <1>5, <2>1
    <2>2. CASE \E w : caller' = [caller EXCEPT ![c].at = "record", ![c].wf = w]
      <3>1. PICK w : caller' = [caller EXCEPT ![c].at = "record", ![c].wf = w]
        BY <2>2
      <3>2. caller'[c] = [caller[c] EXCEPT !.at = "record", !.wf = w]
        BY <1>1, <3>1
      <3> QED BY <1>1, <3>2, KeptFields
    <2> QED BY <1>10, <2>1, <2>2 DEF DeploySave
  <1>11. CASE DeployRecord(c) \/ ActivateMark(c)
    BY <1>3, <1>5, <1>11 DEF DeployRecord, ActivateMark
  <1>12. CASE Activate(c) \/ Test(c)
    <2>1. CASE Refuses(c, "refused")
      BY <1>3, <1>5, <2>1
    <2>2. CASE \E wf, auto, token, mode, score, step :
                 /\ caller' = [caller EXCEPT ![c] =
                      [Call(c) EXCEPT !.wf = wf, !.auto = auto, !.token = token, !.mode = mode,
                                      !.score = score, !.at = step]]
                 /\ step \in {"read", "readTest"}
      <3>1. PICK wf, auto, token, mode, score, step :
                 /\ caller' = [caller EXCEPT ![c] =
                      [Call(c) EXCEPT !.wf = wf, !.auto = auto, !.token = token, !.mode = mode,
                                      !.score = score, !.at = step]]
                 /\ step \in {"read", "readTest"}
        BY <2>2
      <3>2. /\ caller'[c].answer = "none" /\ caller'[c].draft = caller[c].draft
            /\ caller'[c].at = step
        BY <1>1, <1>a, <3>1 DEF CallRecord
      <3> QED BY <3>1, <3>2
    <2>3. Refuses(c, "refused") \/
          \E wf, auto, token, mode, score, step :
                 /\ caller' = [caller EXCEPT ![c] =
                      [Call(c) EXCEPT !.wf = wf, !.auto = auto, !.token = token, !.mode = mode,
                                      !.score = score, !.at = step]]
                 /\ step \in {"read", "readTest"}
      <3>1. PICK tool, step, modes : Find(c, tool, step, modes) /\ step \in {"read", "readTest"}
        BY <1>12 DEF Activate, Test
      <3>2. PICK wf \in setting.known, auto \in Autos :
              \/ Refuses(c, "refused")
              \/ \E token \in BOOLEAN, mode \in modes :
                   caller' = [caller EXCEPT ![c] =
                     [Call(c) EXCEPT !.wf = wf, !.auto = auto, !.token = token, !.mode = mode,
                                     !.score = request[auto].score, !.at = step]]
        BY <3>1 DEF Find
      <3>3. CASE Refuses(c, "refused")
        BY <3>3
      <3>4. ASSUME NEW token \in BOOLEAN, NEW mode \in modes,
                   caller' = [caller EXCEPT ![c] =
                     [Call(c) EXCEPT !.wf = wf, !.auto = auto, !.token = token, !.mode = mode,
                                     !.score = request[auto].score, !.at = step]]
            PROVE  \E v, a, t, m, score, at :
                     /\ caller' = [caller EXCEPT ![c] =
                          [Call(c) EXCEPT !.wf = v, !.auto = a, !.token = t, !.mode = m,
                                          !.score = score, !.at = at]]
                     /\ at \in {"read", "readTest"}
        BY <3>1, <3>4
      <3> QED BY <3>2, <3>3, <3>4
    <2> QED BY <2>1, <2>2, <2>3
  <1>13. CASE ActivateRead(c)
    <2>1. CASE Answer(c, "failed") \/ Answer(c, "refused")
      BY <1>3, <1>5, <2>1
    <2>2. CASE \E d, at : at \in {"allowed", "go"} /\ caller' = [caller EXCEPT ![c].seen = d, ![c].at = at]
      <3>1. PICK d, at : at \in {"allowed", "go"} /\ caller' = [caller EXCEPT ![c].seen = d, ![c].at = at]
        BY <2>2
      <3>2. caller'[c] = [caller[c] EXCEPT !.seen = d, !.at = at]
        BY <1>1, <3>1
      <3> QED BY <1>1, <3>1, <3>2, KeptFields
    <2> DEFINE d == n8n[caller[c].wf].draft
               at == IF ApprovalRequired(d, n8n[caller[c].wf].active, Env, caller[c].mode)
                       THEN "allowed" ELSE "go"
    <2>3. \/ Answer(c, "failed") \/ Answer(c, "refused")
          \/ caller' = [caller EXCEPT ![c].seen = d, ![c].at = at]
      BY <1>13 DEF ActivateRead
    <2>4. at \in {"allowed", "go"}
      OBVIOUS
    <2> HIDE DEF d, at
    <2> QED BY <2>1, <2>2, <2>3, <2>4
  <1>14. CASE TestRead(c) \/ TestAnalyze(c)
    <2>1. CASE Answer(c, "failed") \/ \E at \in {"mayRun", "execute"} : Goto(c, at)
      BY <1>3, <1>4, <1>5, <2>1
    <2>2. CASE \E o : caller' = [caller EXCEPT ![c].at = "status", ![c].outcome = o]
      <3>1. PICK o : caller' = [caller EXCEPT ![c].at = "status", ![c].outcome = o]
        BY <2>2
      <3>2. caller'[c] = [caller[c] EXCEPT !.at = "status", !.outcome = o]
        BY <1>1, <3>1
      <3> QED BY <1>1, <3>2, KeptFields
    <2> QED BY <1>14, <2>1, <2>2 DEF TestRead, TestAnalyze
  <1>15. CASE TestStatus(c)
    <2>1. PICK x : caller' = [caller EXCEPT ![c].at = "write", ![c].status = x]
      BY <1>15 DEF TestStatus
    <2>2. caller'[c] = [caller[c] EXCEPT !.at = "write", !.status = x]
      BY <1>1, <2>1
    <2> QED BY <1>1, <2>2, KeptFields
  <1>16. CASE TestWrite(c) \/ ActivateGo(c) \/ TestExecute(c)
    <2>1. caller[c].outcome \in Outcomes \cup {"none"}
      BY <1>1 DEF CallRecord
    <2> QED BY <1>3, <1>4, <1>5, <1>16, <2>1 DEF TestWrite, ActivateGo, TestExecute
  <1>17. CASE Repair(c)
    <2>1. CASE Refuses(c, "stopped")
      BY <1>3, <1>5, <2>1
    <2>2. CASE \E a : caller' = [caller EXCEPT ![c] = [Call(c) EXCEPT !.auto = a, !.at = "note"]]
      <3>1. /\ caller'[c].answer = "none" /\ caller'[c].draft = caller[c].draft
            /\ caller'[c].at = "note"
        BY <1>1, <1>a, <2>2 DEF CallRecord
      <3> QED BY <3>1
    <2> QED BY <1>17, <2>1, <2>2 DEF Repair
  <1>18. CASE RepairNote(c)
    <2>1. CASE Answer(c, "failed")
      BY <1>3, <1>5, <2>1
    <2>2. CASE caller' = [caller EXCEPT ![c] =
                 [Rest(c, caller[c].calls, "repaired") EXCEPT !.draft = Repaired(@, Env)]]
      <3> DEFINE rest == Rest(c, caller[c].calls, "repaired")
      <3>1. rest \in CallRecord /\ rest.answer = "repaired" /\ rest.at = "idle" /\ rest.draft = caller[c].draft
        BY AnswerOK DEF Answers, CallOK, Rest, Ready
      <3>2. caller[c].draft \in Draft
        BY <1>18 DEF RepairNote, ToolsInv, CallsOK, CallOK
      <3>3. caller'[c] = [rest EXCEPT !.draft = Repaired(@, Env)]
        BY <1>1, <2>2
      <3> HIDE DEF rest
      <3>4. caller'[c] = [rest EXCEPT !.draft = Repaired(rest.draft, Env)]
        BY <3>3
      <3> DEFINE d == Repaired(rest.draft, Env)
      <3> HIDE DEF d
      <3>5. caller'[c].answer = "repaired" /\ caller'[c].draft = d /\ caller'[c].at = "idle"
        BY <3>1, <3>4 DEF CallRecord, d
      <3> QED BY <3>1, <3>2, <3>5 DEF d
    <2> QED BY <1>18, <2>1, <2>2 DEF RepairNote
  <1>19. CASE (\E w \in Workflows : Fire(w)) \/ RunNode \/ UNCHANGED vars
    BY <1>7, <1>19 DEF Fire, RunNode, vars
  <1>20. CASE Tool(c)
    BY <1>6, <1>7, <1>b, <1>8, <1>9, <1>10, <1>11, <1>12, <1>13, <1>14, <1>15, <1>16, <1>17, <1>18,
       <1>20 DEF Tool
  <1>21. CASE \E b \in Callers \ {c} : Tool(b)
    BY <1>2, <1>21
  <1> QED BY <1>19, <1>20, <1>21 DEF Next

LEMMA SettingStays == ASSUME [Next]_vars PROVE setting' = setting /\ Env' = Env
  BY DEF Env, Next, Tool, Compose, Approve, Deploy, DeployOwner, DeployApproval, DeploySave,
    DeployRecord, Activate, Test, Find, ActivateRead, ActivateApproval, ActivateGo, ActivateMark,
    TestRead, TestApproval, TestExecute, TestAnalyze, TestStatus, TestWrite, Repair, RepairNote,
    Fire, RunNode, vars

\* Where an agent's draft comes from: compose_workflow made it, and unless agents edit theirs
\* it is as it was then, or what a repair has made of that.
Made(d) == d.flow \in ComposableFlows /\ (setting.edits \subseteq {{}} => d.edits \subseteq {"moved"})

MadeOK ==
    /\ \A c \in Callers :
         /\ caller[c].draft # None => Made(caller[c].draft)
         /\ caller[c].at \in Deploying => Made(caller[c].seen)
    /\ \A w \in Workflows \ {OldWorkflow} : n8n[w].there => Made(n8n[w].draft)
    /\ \A w \in Workflows : n8n[w].active => n8n[w].there

LEMMA MadeStays ==
    ASSUME NEW d \in Draft, Made(d)
    PROVE  Made(normalizeConnectionKeys(d)) /\ Made(Saved(d)) /\ Made(Repaired(d, Env))
  <1>1. /\ normalizeConnectionKeys(d).flow = d.flow /\ Saved(d).flow = d.flow /\ Repaired(d, Env).flow = d.flow
        /\ normalizeConnectionKeys(d).edits \subseteq d.edits /\ Saved(d).edits \subseteq d.edits
        /\ Repaired(d, Env).edits \subseteq d.edits \cup {"moved"}
    BY DraftFacts DEF normalizeConnectionKeys, Saved, Repaired
  <1> QED BY <1>1 DEF Made

LEMMA MadeInvariance == Spec => []MadeOK
  <1>1. Init => MadeOK
    <2> SUFFICES ASSUME Init PROVE MadeOK
      OBVIOUS
    <2>1. \A c \in Callers : caller[c].draft = None /\ caller[c].at \notin Deploying
      BY DEF Init, Ready, Deploying
    <2>2. \A w \in Workflows : (n8n[w].there <=> w = OldWorkflow) /\ n8n[w].active = n8n[w].there
      BY DEF Init
    <2> QED BY <2>1, <2>2 DEF MadeOK
  <1>2. ASSUME ToolsInv, [Next]_vars, MadeOK PROVE MadeOK'
    <2>1. setting' = setting
      BY <1>2, SettingStays
    <2>2. ASSUME NEW c \in Callers
          PROVE  /\ caller'[c].draft # None => Made(caller'[c].draft)
                 /\ caller'[c].at \in Deploying => Made(caller'[c].seen)
      <3>1. StepOf(c, caller[c], caller'[c])
        BY <1>2, CallSteps
      <3>2. /\ caller[c].draft \in Draft \cup {None}
            /\ caller[c].at \in Deploying => caller[c].seen \in Draft
        BY <1>2 DEF ToolsInv, TypeOK, CallsOK, CallOK, CallRecord
      <3>3. \A d \in [flow : ComposableFlows, edits : setting.edits] : Made(d)
        BY DEF Made
      <3>4. /\ caller[c].draft # None => Made(caller[c].draft)
            /\ caller[c].at \in Deploying => Made(caller[c].seen)
        BY <1>2 DEF MadeOK
      <3>5. None \notin Draft
        BY ToolsAssumption
      <3> QED BY <3>1, <3>2, <3>3, <3>4, <3>5, MadeStays DEF StepOf
    <2>3. ASSUME NEW w \in Workflows \ {OldWorkflow}, n8n'[w].there PROVE Made(n8n'[w].draft)
      <3>1. n8n \in [Workflows -> Workflow]
        BY <1>2 DEF ToolsInv, TypeOK
      <3>2. CASE \E c \in Callers : DeploySave(c)
        <4>1. PICK c \in Callers : DeploySave(c)
          BY <3>2
        <4>2. caller[c].seen \in Draft /\ Made(caller[c].seen)
          BY <1>2, <4>1 DEF DeploySave, Deploying, ToolsInv, CallsOK, CallOK, MadeOK
        <4> DEFINE d == Saved(caller[c].seen)
        <4>3. Made(d)
          BY <4>2, MadeStays
        <4>4. \/ \E v \in Workflows : n8n' = [n8n EXCEPT ![v].draft = d]
              \/ \E v \in Workflows : n8n' = [n8n EXCEPT ![v].there = TRUE, ![v].draft = d]
              \/ n8n' = n8n
          <5>1. caller[c].wf \in Workflows \cup {None}
            BY <1>2 DEF ToolsInv, TypeOK, CallRecord
          <5> QED BY <4>1, <5>1 DEF DeploySave, Saved
        <4> HIDE DEF d
        <4>5. n8n'[w] = n8n[w] \/ n8n'[w].draft = d \/ (n8n[w].there /\ n8n'[w].draft = n8n[w].draft)
          <5>1. CASE \E v \in Workflows : n8n' = [n8n EXCEPT ![v].draft = d]
            BY <3>1, <5>1 DEF Workflow
          <5>2. CASE \E v \in Workflows : n8n' = [n8n EXCEPT ![v].there = TRUE, ![v].draft = d]
            <6>1. PICK v \in Workflows : n8n' = [n8n EXCEPT ![v].there = TRUE, ![v].draft = d]
              BY <5>2
            <6>2. v # w => n8n'[w] = n8n[w]
              BY <3>1, <6>1
            <6>3. v = w => n8n'[w] = [n8n[w] EXCEPT !.there = TRUE, !.draft = d]
              BY <3>1, <6>1
            <6>4. n8n[w] \in Workflow
              BY <3>1
            <6>5. v = w => n8n'[w].draft = d
              BY <6>3, <6>4 DEF Workflow
            <6> QED BY <6>2, <6>5
          <5> QED BY <4>4, <5>1, <5>2
        <4> QED BY <1>2, <2>3, <4>3, <4>5 DEF MadeOK
      <3>3. CASE \E c \in Callers : ActivateGo(c)
        <4>1. PICK c \in Callers : ActivateGo(c)
          BY <3>3
        <4>2. n8n[caller[c].wf].there
          BY <1>2, <4>1 DEF ActivateGo, ToolsInv, CallsOK, CallOK, Holding
        <4>3. n8n[w].there /\ n8n'[w].draft = n8n[w].draft
          <5> DEFINE v == caller[c].wf
          <5>1. n8n[w] \in Workflow
            BY <3>1
          <5>2. CASE n8n' = [n8n EXCEPT ![v] =
                              [@ EXCEPT !.active = TRUE, !.checked = caller[c].seen, !.by = c]]
            <6>1. v # w => n8n'[w] = n8n[w]
              BY <3>1, <5>2
            <6>2. v = w => n8n'[w] =
                             [n8n[w] EXCEPT !.active = TRUE, !.checked = caller[c].seen, !.by = c]
              BY <3>1, <5>2
            <6> HIDE DEF v
            <6>3. v = w => n8n'[w].draft = n8n[w].draft
              BY <5>1, <6>2 DEF Workflow
            <6> QED BY <2>3, <4>2, <6>1, <6>3 DEF v
          <5> QED BY <2>3, <4>1, <5>2 DEF ActivateGo
        <4> QED BY <1>2, <4>3 DEF MadeOK
      <3>4. ASSUME NEW c \in Callers, Tool(c), ~DeploySave(c), ~ActivateGo(c) PROVE n8n' = n8n
        BY <3>4 DEF Tool, Compose, Approve, Deploy, DeployOwner, DeployApproval, DeployRecord,
          Activate, Test, Find, ActivateRead, ActivateApproval, ActivateMark, TestRead,
          TestApproval, TestExecute, TestAnalyze, TestStatus, TestWrite, Repair, RepairNote
      <3>5. CASE n8n' = n8n
        BY <1>2, <2>3, <3>5 DEF MadeOK
      <3> QED BY <1>2, <3>2, <3>3, <3>4, <3>5 DEF Next, Fire, RunNode, vars
    <2>4. ASSUME NEW w \in Workflows, n8n'[w].active PROVE n8n'[w].there
      <3>1. n8n[w] \in Workflow /\ n8n \in [Workflows -> Workflow] /\ (n8n[w].active => n8n[w].there)
        BY <1>2 DEF ToolsInv, TypeOK, MadeOK
      <3>2. ASSUME NEW v \in Workflows, NEW d, n8n' = [n8n EXCEPT ![v].draft = d]
            PROVE  n8n'[w].there
        BY <2>4, <3>1, <3>2 DEF Workflow
      <3>3. ASSUME NEW v \in Workflows, NEW d, n8n' = [n8n EXCEPT ![v].there = TRUE, ![v].draft = d]
            PROVE  n8n'[w].there
        <4>1. v # w => n8n'[w] = n8n[w]
          BY <3>1, <3>3
        <4>2. v = w => n8n'[w] = [n8n[w] EXCEPT !.there = TRUE, !.draft = d]
          BY <3>1, <3>3
        <4>3. v = w => n8n'[w].there
          BY <3>1, <4>2 DEF Workflow
        <4> QED BY <2>4, <3>1, <4>1, <4>3
      <3>4. ASSUME NEW v \in Workflows, NEW d, NEW c, n8n[v].there,
                   n8n' = [n8n EXCEPT ![v] = [@ EXCEPT !.active = TRUE, !.checked = d, !.by = c]]
            PROVE  n8n'[w].there
        <4>1. v # w => n8n'[w] = n8n[w]
          BY <3>1, <3>4
        <4>2. v = w => n8n'[w] = [n8n[w] EXCEPT !.active = TRUE, !.checked = d, !.by = c]
          BY <3>1, <3>4
        <4>3. v = w => n8n'[w].there
          BY <3>1, <3>4, <4>2 DEF Workflow
        <4> QED BY <2>4, <3>1, <4>1, <4>3
      <3>5. CASE \E c \in Callers : DeploySave(c)
        <4>1. PICK c \in Callers : DeploySave(c)
          BY <3>5
        <4> DEFINE d == [caller[c].seen EXCEPT !.edits = @ \ {"running"}]
        <4>2. caller[c].wf \in Workflows \cup {None}
          BY <1>2 DEF ToolsInv, TypeOK, CallRecord
        <4>3. \/ \E v \in Workflows : n8n' = [n8n EXCEPT ![v].draft = d]
              \/ \E v \in Workflows : n8n' = [n8n EXCEPT ![v].there = TRUE, ![v].draft = d]
              \/ n8n' = n8n
          BY <4>1, <4>2 DEF DeploySave
        <4> HIDE DEF d
        <4> QED BY <2>4, <3>1, <3>2, <3>3, <4>3
      <3>6. CASE \E c \in Callers : ActivateGo(c)
        <4>1. PICK c \in Callers : ActivateGo(c)
          BY <3>6
        <4>2. caller[c].wf \in Workflows /\ n8n[caller[c].wf].there
          BY <1>2, <4>1 DEF ActivateGo, ToolsInv, CallsOK, CallOK, Holding
        <4> QED BY <2>4, <3>1, <3>4, <4>1, <4>2 DEF ActivateGo
      <3>7. ASSUME NEW c \in Callers, Tool(c), ~DeploySave(c), ~ActivateGo(c) PROVE n8n' = n8n
        BY <3>7 DEF Tool, Compose, Approve, Deploy, DeployOwner, DeployApproval, DeployRecord,
          Activate, Test, Find, ActivateRead, ActivateApproval, ActivateMark, TestRead,
          TestApproval, TestExecute, TestAnalyze, TestStatus, TestWrite, Repair, RepairNote
      <3>8. CASE n8n' = n8n
        BY <2>4, <3>1, <3>8
      <3> QED BY <1>2, <3>5, <3>6, <3>7, <3>8 DEF Next, Fire, RunNode, vars
    <2> QED BY <2>1, <2>2, <2>3, <2>4 DEF MadeOK, Made
  <1> QED BY <1>1, <1>2, ToolsInvariance, PTL DEF Spec

LEMMA UneditedNodes ==
    ASSUME NEW d \in Draft, d.edits \subseteq {"moved"}
    PROVE  Nodes(d) = d.flow.nodes /\ Links(d) = d.flow.links
  <1>1. d.flow.nodes \in Seq(NodeRecord)
    BY DraftFacts
  <1>2. \A i \in DOMAIN d.flow.nodes : EditedNode(d, i) = d.flow.nodes[i]
    BY DEF EditedNode
  <1>3. [i \in DOMAIN d.flow.nodes |-> EditedNode(d, i)] = d.flow.nodes
    BY <1>1, <1>2
  <1>4. \A T : \A q \in Seq(T) : q \o <<>> = q
    OBVIOUS
  <1>5. Nodes(d) = d.flow.nodes
    BY <1>1, <1>3, <1>4 DEF Nodes
  <1>6. Links(d) = d.flow.links
    BY DEF Links
  <1> QED BY <1>5, <1>6

\* Of a draft whose texts are harmless the checks find what they find in an environment
\* that says nothing else: such a one is among those CatalogDeploys is about.
LEMMA MildSame ==
    ASSUME NEW d \in Draft, d.edits = {}, NEW env \in Environment, ~Marked(d, env)
    PROVE  \E mild \in MildEnvironments :
             /\ ~Marked(d, mild)
             /\ DraftErrors(d, env) <=> DraftErrors(d, mild)
             /\ SecurityIssue(d, env) <=> SecurityIssue(d, mild)
             /\ RiskScore(d, FALSE, env) = RiskScore(d, FALSE, mild)
  <1> DEFINE says == [t \in Texts |-> env.says[t] \cap Mild(t)]
             mild == [says |-> says, has |-> {}]
  <1>1. Nodes(d) = d.flow.nodes /\ d.flow.nodes \in Seq(NodeRecord)
    BY UneditedNodes, DraftFacts
  <1>2. mild \in MildEnvironments
    <2>1. \A t \in Texts : /\ env.says[t] \cap Mild(t) \subseteq Mild(t)
                           /\ env.says[t] \cap Mild(t) \in {{}, {"plain http"}, {"key"}}
      BY DEF Mild
    <2>2. says \in [Texts -> {{}, {"plain http"}, {"key"}}] /\ \A t \in Texts : says[t] \subseteq Mild(t)
      BY <2>1
    <2> HIDE DEF says
    <2> QED BY <2>2 DEF MildEnvironments
  <1>3. ASSUME NEW i \in DOMAIN d.flow.nodes, NEW t \in d.flow.nodes[i].texts
        PROVE  mild.says[t] = env.says[t] /\ env.says[t] \subseteq Harmless(d, t)
    <2>1. d.flow.nodes[i] \in NodeRecord
      BY <1>1
    <2>2. t \in Texts
      BY <2>1 DEF NodeRecord
    <2>3. env.says[t] \subseteq Harmless(d, t)
      BY DEF Marked
    <2>4. Harmless(d, t) \subseteq Mild(t)
      BY DEF Harmless, Mild
    <2> QED BY <2>2, <2>3, <2>4
  <1>4. ~Marked(d, mild)
    BY <1>3 DEF Marked
  <1> HIDE DEF mild
  <1>5. \A i \in DOMAIN Nodes(d) : Found(d, i, env) = Found(d, i, mild)
    BY <1>1, <1>3 DEF Found, Written
  <1>6. /\ DraftErrors(d, env) <=> DraftErrors(d, mild)
        /\ SecurityIssue(d, env) <=> SecurityIssue(d, mild)
    BY <1>5 DEF DraftErrors, Malformed, SecurityIssue
  <1>7. RiskScore(d, FALSE, env) = RiskScore(d, FALSE, mild)
    <2>1. /\ Criticals(d, env) = Criticals(d, mild)
          /\ PlainRequests(d, env) = PlainRequests(d, mild)
      BY <1>5 DEF Criticals, PlainRequests
    <2>2. Suspects(d, env) = Suspects(d, mild)
      BY <1>5 DEF Suspects
    <2> QED BY <2>1, <2>2 DEF RiskScore
  <1> QED BY <1>2, <1>4, <1>6, <1>7

\* A call turned an agent's unedited and harmless draft away, if at all, for want of a
\* credential.
Explained(r, env) ==
    r.answer \in Turned /\ r.draft.edits = {} /\ ~Marked(r.draft, env) =>
      r.answer = "invalid" /\ MissingCredential(r.draft, env)

\* For a catalog as CatalogDeploys says, EveryPatternDeploys holds for any number of agents,
\* calls and edits, any topology and whatever the requests say: TLC evaluates CatalogDeploys
\* for the catalog of the code.
THEOREM PatternsDeploy == CatalogDeploys => (Spec => []EveryPatternDeploys)
  <1> SUFFICES ASSUME CatalogDeploys PROVE Spec => []EveryPatternDeploys
    OBVIOUS
  <1> DEFINE All == \A c \in Callers : Explained(caller[c], Env)
  <1>1. Init => All
    <2> SUFFICES ASSUME Init, NEW c \in Callers PROVE Explained(caller[c], Env)
      OBVIOUS
    <2>1. caller[c].answer = "none"
      BY DEF Init, Ready
    <2> QED BY <2>1 DEF Explained, Turned
  <1>2. ASSUME ToolsInv, MadeOK, [Next]_vars, All PROVE All'
    <2> SUFFICES ASSUME NEW c \in Callers PROVE Explained(caller[c], Env)'
      OBVIOUS
    <2>1. Env' = Env
      BY <1>2, SettingStays
    <2>2. CASE ~Deploy(c)
      BY <1>2, <2>1, <2>2, CallSteps DEF Explained, StepOf
    <2>3. CASE Deploy(c)
      <3> DEFINE d == caller[c].draft
                 n == normalizeConnectionKeys(d)
                 score == RiskScore(n, "running" \in n.edits, Env)
      <3>1. d \in Draft /\ caller \in [Callers -> CallRecord] /\ Env \in Environment
        BY <1>2, <2>3, ToolsAssumption DEF Deploy, ToolsInv, TypeOK, CallRecord, Env, Setting
      <3>2. /\ \/ \E lenient \in BOOLEAN : BlocksDeploy(n, Env, lenient) /\ Refuses(c, "invalid")
               \/ Verdict(score) = "block" /\ Refuses(c, "too risky")
               \/ caller'[c].answer \notin Turned
        <4>1. CASE Refuses(c, "unapproved")
          BY <3>1, <4>1 DEF Refuses, Rest, Ready, Turned
        <4>2. CASE \E wf \in setting.known \cup {None}, auto \in Autos, given \in BOOLEAN :
                     caller' = [caller EXCEPT ![c] =
                       [Call(c) EXCEPT !.wf = wf, !.auto = auto, !.given = given, !.seen = n,
                          !.score = score, !.at = IF wf = None THEN "approval" ELSE "owner"]]
          <5> HIDE DEF n, score
          <5>1. Call(c) \in CallRecord /\ Call(c).answer = "none"
            BY <1>2, <3>1, CallStarts DEF Call, CallRecord
          <5>2. PICK wf, auto, given :
                     caller' = [caller EXCEPT ![c] =
                       [Call(c) EXCEPT !.wf = wf, !.auto = auto, !.given = given, !.seen = n,
                          !.score = score, !.at = IF wf = None THEN "approval" ELSE "owner"]]
            BY <4>2
          <5> DEFINE at == IF wf = None THEN "approval" ELSE "owner"
          <5> HIDE DEF at
          <5>3. caller'[c] = [Call(c) EXCEPT !.wf = wf, !.auto = auto, !.given = given, !.seen = n,
                                !.score = score, !.at = at]
            BY <3>1, <5>2 DEF at
          <5> QED BY <5>1, <5>3 DEF CallRecord, Turned
        <4> QED BY <2>3, <4>1, <4>2 DEF Deploy
      <3>3. ASSUME d.edits = {}, ~Marked(d, Env), Refuses(c, "invalid") \/ Refuses(c, "too risky")
            PROVE  /\ caller'[c].draft = d /\ n = d /\ "running" \notin n.edits
                   /\ Refuses(c, "invalid") => caller'[c].answer = "invalid"
                   /\ ~DraftErrors(d, Env) /\ ~SecurityIssue(d, Env)
                   /\ Verdict(score) # "block"
        <4>1. PICK id \in Composable : d = Composed(id)
          <5>1. d.flow \in ComposableFlows
            BY <1>2, <2>3 DEF MadeOK, Made, Deploy
          <5> QED BY <3>1, <3>3, <5>1, DraftFacts DEF ComposableFlows, Composed
        <4>2. n = d
          BY <3>1, <3>3, DraftFacts DEF normalizeConnectionKeys
        <4>3. /\ ~DraftErrors(d, Env) /\ ~SecurityIssue(d, Env)
              /\ Verdict(RiskScore(d, FALSE, Env)) # "block"
          <5> HIDE DEF d
          <5>1. PICK mild \in MildEnvironments :
                  /\ ~Marked(d, mild)
                  /\ DraftErrors(d, Env) <=> DraftErrors(d, mild)
                  /\ SecurityIssue(d, Env) <=> SecurityIssue(d, mild)
                  /\ RiskScore(d, FALSE, Env) = RiskScore(d, FALSE, mild)
            BY <3>1, <3>3, MildSame
          <5> QED BY <4>1, <5>1 DEF CatalogDeploys
        <4>4. score = RiskScore(d, FALSE, Env) /\ "running" \notin n.edits
          <5>1. "running" \notin n.edits
            BY <3>3, <4>2
          <5>2. ("running" \in n.edits) = FALSE
            BY <5>1
          <5>3. score = RiskScore(n, FALSE, Env)
            <6> HIDE DEF n
            <6> QED BY <5>2, Zenon
          <5> QED BY <4>2, <5>1, <5>3
        <4>5. /\ caller'[c].draft = d
              /\ Refuses(c, "invalid") => caller'[c].answer = "invalid"
          BY <3>1, <3>3 DEF Refuses, Rest, Ready
        <4> QED BY <4>2, <4>3, <4>4, <4>5
      <3> SUFFICES ASSUME caller'[c].answer \in Turned, caller'[c].draft.edits = {},
                          ~Marked(caller'[c].draft, Env)
                   PROVE  caller'[c].answer = "invalid" /\ MissingCredential(caller'[c].draft, Env)
        BY <2>1 DEF Explained
      <3>4. caller'[c].draft = d
        BY <3>1, <3>2 DEF Refuses, Rest, Ready
      <3> QED BY <3>2, <3>3, <3>4 DEF BlocksDeploy
    <2> QED BY <2>2, <2>3
  <1>3. ToolsInv /\ All => EveryPatternDeploys
    BY DEF EveryPatternDeploys, Explained, Turned
  <1> HIDE DEF All
  <1>4. Spec => []All
    BY <1>1, <1>2, ToolsInvariance, MadeInvariance, PTL DEF Spec
  <1> QED BY <1>3, <1>4, ToolsInvariance, PTL

-----------------------------------------------------------------------------
(* Executions                                                               *)

\* d is what compose_workflow makes of the pattern id, but for repaired addresses.
Unedited(d, id) ==
    /\ d \in Draft
    /\ d.edits \subseteq {"moved"}
    /\ d.flow = Catalog[id].flow

\* An item that waits for a node has the fields every item has that reaches it.
RunOK ==
    /\ \E state, draft, pending : \E count \in Nat :
         run = [state |-> state, draft |-> draft, pending |-> pending, count |-> count]
    /\ run.pending # {} =>
         \E id \in Composable :
           /\ Unedited(run.draft, id)
           /\ \A p \in run.pending : /\ p.at \in DOMAIN Nodes(run.draft)
                                    /\ Guaranteed(Composed(id))[p.at] \subseteq p.item

\* What CatalogFills says of a pattern is so of every such draft.
LEMMA UneditedFills ==
    ASSUME CatalogFills, NEW id \in Composable, NEW d, Unedited(d, id)
    PROVE  Fills(d, Guaranteed(Composed(id)))
  <1> DEFINE c == Composed(id)
             G == Guaranteed(c)
  <1>1. c \in Draft /\ c.flow = d.flow /\ c.edits = {}
    BY DEF Composed, Draft, Composable, Unedited
  <1>2. Fills(c, G)
    BY DEF CatalogFills
  <1> HIDE DEF c, G
  <1>3. Nodes(d) = Nodes(c) /\ Links(d) = Links(c)
    BY <1>1, UneditedNodes DEF Unedited
  <1>4. Triggers(d) = Triggers(c)
    BY <1>3 DEF Triggers
  <1>5. Understood(d) = Understood(c)
    BY <1>1, <1>3 DEF Understood, Unedited
  <1>6. \A link : Given(d, G, link) = Given(c, G, link)
    BY <1>3 DEF Given
  <1>7. Fills(d, G)
    BY <1>2, <1>3, <1>4, <1>5, <1>6 DEF Fills
  <1> QED BY <1>7 DEF c, G

LEMMA StartsOK ==
    ASSUME CatalogFills, UneditedRuns, ToolsInv, MadeOK, RunOK, NEW w \in Workflows \ {OldWorkflow},
           n8n[w].there, Starts(w)
    PROVE  RunOK'
  <1> DEFINE d == n8n[w].draft
             items == {[at |-> i, item |-> {}, from |-> NoNode] : i \in Triggers(d)}
             state == IF Triggers(d) = {} THEN "error" ELSE "going"
             count == run.count + 1
  <1>1. run' = [state |-> state, draft |-> d, count |-> count, pending |-> items]
    BY DEF Starts
  <1>2. d \in Draft /\ Made(d)
    BY DEF ToolsInv, WorkflowsOK, MadeOK
  <1>3. d.edits \subseteq {"moved"}
    <2>1. setting.runs > 0
      <3>1. setting \in Settings
        BY DEF ToolsInv, TypeOK
      <3>2. setting.runs \in Nat
        BY <3>1, ToolsAssumption DEF Setting
      <3>3. run.count < setting.runs
        BY DEF Starts
      <3>4. run.count \in Nat
        BY DEF RunOK
      <3> QED BY <3>2, <3>3, <3>4
    <2> QED BY <1>2, <2>1 DEF UneditedRuns, ToolsInv, TypeOK, Made
  <1>4. PICK id \in Composable : Unedited(d, id)
    BY <1>2, <1>3 DEF Made, ComposableFlows, Unedited
  <1>5. Fills(d, Guaranteed(Composed(id)))
    BY <1>4, UneditedFills
  <1>6. \A p \in items : p.at \in DOMAIN Nodes(d) /\ Guaranteed(Composed(id))[p.at] \subseteq p.item
    BY <1>5 DEF Fills, Triggers
  <1>7. count \in Nat
    BY DEF RunOK
  <1> HIDE DEF d, items, state, count
  <1>8. run'.draft = d /\ run'.pending = items
    BY <1>1
  <1> QED BY <1>1, <1>4, <1>6, <1>7, <1>8 DEF RunOK

LEMMA RunNodeOK ==
    ASSUME CatalogFills, RunOK, RunNode
    PROVE  RunOK'
  <1> DEFINE d == run.draft
  <1>1. PICK i \in DOMAIN Nodes(d) :
          LET mine == {p \in run.pending : p.at = i}
              node == Nodes(d)[i]
              item == UNION {p.item : p \in mine} IN
          /\ mine # {}
          /\ \/ run' = [run EXCEPT !.state = "error", !.pending = {}]
             \/ \E result \in Results(node, item) :
                  LET left == (run.pending \ mine) \cup
                        IF result = NoItem THEN {}
                        ELSE {[at |-> link[2], item |-> result, from |-> i]
                                : link \in {l \in Understood(d) : l[1] = i}} IN
                  run' = [run EXCEPT !.pending = left,
                                     !.state = IF left = {} THEN "ok" ELSE "going"]
    BY DEF RunNode
  <1> DEFINE mine == {p \in run.pending : p.at = i}
             node == Nodes(d)[i]
             item == UNION {p.item : p \in mine}
  <1>b. mine # {} /\ run.pending # {}
    BY <1>1
  <1>3. PICK id \in Composable :
          /\ Unedited(d, id)
          /\ \A p \in run.pending : /\ p.at \in DOMAIN Nodes(d)
                                   /\ Guaranteed(Composed(id))[p.at] \subseteq p.item
    BY <1>b DEF RunOK
  <1> DEFINE G == Guaranteed(Composed(id))
  <1>2. G[i] \subseteq item
    BY <1>b, <1>3
  <1>4. Fills(d, G)
    BY <1>3, UneditedFills
  <1>5. PICK state, draft, pending, count :
          /\ run = [state |-> state, draft |-> draft, pending |-> pending, count |-> count]
          /\ count \in Nat
    BY DEF RunOK
  <1>a. d = draft
    BY <1>5
  <1>6. ASSUME NEW now, NEW left, run' = [run EXCEPT !.pending = left, !.state = now],
               \A p \in left : p.at \in DOMAIN Nodes(d) /\ G[p.at] \subseteq p.item
        PROVE  RunOK'
    <2> HIDE DEF d
    <2>1. run' = [state |-> now, draft |-> d, pending |-> left, count |-> count]
      BY <1>5, <1>6, <1>a
    <2>2. run'.draft = d /\ run'.pending = left
      BY <2>1
    <2> QED BY <1>3, <1>5, <1>6, <2>1, <2>2 DEF RunOK
  <1>7. CASE run' = [run EXCEPT !.state = "error", !.pending = {}]
    <2>1. run' = [run EXCEPT !.pending = {}, !.state = "error"]
      <3> HIDE DEF d, mine
      <3> QED BY <1>5, <1>7
    <2> DEFINE none == {}
               error == "error"
    <2>2. \A p \in none : p.at \in DOMAIN Nodes(d) /\ G[p.at] \subseteq p.item
      OBVIOUS
    <2>3. run' = [run EXCEPT !.pending = none, !.state = error]
      BY <2>1
    <2> HIDE DEF d, G, none, error
    <2> QED BY <1>6, <2>2, <2>3
  <1>8. ASSUME NEW result \in Results(node, item)
        PROVE  \A p \in IF result = NoItem THEN {}
                        ELSE {[at |-> link[2], item |-> result, from |-> i]
                                : link \in {l \in Understood(d) : l[1] = i}} :
                  p.at \in DOMAIN Nodes(d) /\ G[p.at] \subseteq p.item
    <2> SUFFICES ASSUME NEW link \in Understood(d), link[1] = i, result # NoItem
                 PROVE  link[2] \in DOMAIN Nodes(d) /\ G[link[2]] \subseteq result
      OBVIOUS
    <2>1. link[2] \in DOMAIN Nodes(d)
      BY DEF Understood
    <2>2. PICK fields \in node.gives \ {NoItem} :
            result = IF node.keeps THEN item \cup fields ELSE fields
      BY <1>8 DEF Results
    <2> DEFINE given == IF node.keeps THEN G[i] \cup fields ELSE fields
    <2>3. given \in Given(d, G, link)
      BY DEF Given
    <2>4. G[link[2]] \subseteq given
      BY <1>4, <2>3 DEF Fills
    <2>5. given \subseteq result
      BY <1>2, <2>2
    <2> QED BY <2>1, <2>4, <2>5
  <1>9. CASE \E result \in Results(node, item) :
               LET left == (run.pending \ mine) \cup
                     IF result = NoItem THEN {}
                     ELSE {[at |-> link[2], item |-> result, from |-> i]
                             : link \in {l \in Understood(d) : l[1] = i}} IN
               run' = [run EXCEPT !.pending = left,
                                  !.state = IF left = {} THEN "ok" ELSE "going"]
    <2>1. PICK result \in Results(node, item) :
               LET left == (run.pending \ mine) \cup
                     IF result = NoItem THEN {}
                     ELSE {[at |-> link[2], item |-> result, from |-> i]
                             : link \in {l \in Understood(d) : l[1] = i}} IN
               run' = [run EXCEPT !.pending = left,
                                  !.state = IF left = {} THEN "ok" ELSE "going"]
      BY <1>9
    <2> DEFINE more == IF result = NoItem THEN {}
                       ELSE {[at |-> link[2], item |-> result, from |-> i]
                               : link \in {l \in Understood(d) : l[1] = i}}
               left == (run.pending \ mine) \cup more
    <2>2. \A p \in more : p.at \in DOMAIN Nodes(d) /\ G[p.at] \subseteq p.item
      BY <1>8
    <2>3. run' = [run EXCEPT !.pending = left, !.state = IF left = {} THEN "ok" ELSE "going"]
      BY <2>1
    <2> HIDE DEF more
    <2>4. \A p \in left : p.at \in DOMAIN Nodes(d) /\ G[p.at] \subseteq p.item
      BY <1>3, <2>2
    <2> HIDE DEF left
    <2> QED BY <1>6, <2>3, <2>4
  <1> QED BY <1>1, <1>7, <1>9

\* For a catalog as CatalogFills says, BodiesAreFilled holds for any number of agents,
\* deployments, tests and executions, as long as nobody edits
\* the workflows: TLC evaluates that about the catalog of the code.
THEOREM BodiesFilled == CatalogFills /\ UneditedRuns => (Spec => []BodiesAreFilled)
  <1> SUFFICES ASSUME CatalogFills, UneditedRuns PROVE Spec => []BodiesAreFilled
    OBVIOUS
  <1>1. Init => RunOK
    <2> SUFFICES ASSUME Init PROVE RunOK
      OBVIOUS
    <2>1. run = [state |-> "none", draft |-> None, pending |-> {}, count |-> 0]
      BY DEF Init
    <2> QED BY <2>1 DEF RunOK
  <1>2. ASSUME ToolsInv, MadeOK, [Next]_vars, RunOK PROVE RunOK'
    <2>1. CASE UNCHANGED run
      BY <1>2, <2>1 DEF RunOK
    <2>2. ASSUME NEW c \in Callers, Tool(c), run' # run PROVE RunOK'
      <3>1. TestExecute(c) /\ Starts(caller[c].wf)
        BY <2>2 DEF Tool, Compose, Approve, Deploy, DeployOwner, DeployApproval, DeploySave,
          DeployRecord, Activate, Test, Find, ActivateRead, ActivateApproval, ActivateGo,
          ActivateMark, TestRead, TestApproval, TestExecute, TestAnalyze, TestStatus, TestWrite,
          Repair, RepairNote
      <3>2. caller[c].wf \in Workflows \ {OldWorkflow} /\ n8n[caller[c].wf].there
        BY <1>2, <3>1 DEF TestExecute, ToolsInv, CallsOK, CallOK, Holding
      <3> QED BY <1>2, <3>1, <3>2, StartsOK
    <2>3. ASSUME NEW w \in Workflows, Fire(w) PROVE RunOK'
      <3>1. w # OldWorkflow /\ n8n[w].active /\ Starts(w)
        BY <2>3 DEF Fire
      <3>2. n8n[w].there
        BY <1>2, <3>1 DEF MadeOK
      <3> QED BY <1>2, <3>1, <3>2, StartsOK
    <2>4. CASE RunNode
      BY <1>2, <2>4, RunNodeOK
    <2> QED BY <1>2, <2>1, <2>2, <2>3, <2>4 DEF Next, vars
  <1>3. RunOK => BodiesAreFilled
    <2> SUFFICES ASSUME RunOK, NEW p \in run.pending, Nodes(run.draft)[p.at].post
                 PROVE  Nodes(run.draft)[p.at].takes \subseteq p.item
      BY DEF BodiesAreFilled
    <2>1. PICK id \in Composable :
            /\ Unedited(run.draft, id)
            /\ p.at \in DOMAIN Nodes(run.draft) /\ Guaranteed(Composed(id))[p.at] \subseteq p.item
      BY DEF RunOK
    <2>2. Fills(run.draft, Guaranteed(Composed(id)))
      BY <2>1, UneditedFills
    <2> QED BY <2>1, <2>2 DEF Fills
  <1>4. Spec => []RunOK
    BY <1>1, <1>2, ToolsInvariance, MadeInvariance, PTL DEF Spec
  <1> QED BY <1>3, <1>4, PTL
=============================================================================
