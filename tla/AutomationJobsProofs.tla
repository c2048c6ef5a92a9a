-------------------------- MODULE AutomationJobsProofs --------------------------
(***************************************************************************)
(* The invariants of AutomationJobs for any executions, workflows and      *)
(* requests: what gets into n8n, whose workflows are touched, and what the *)
(* records and messages of a job say of each other.                        *)
(***************************************************************************)
EXTENDS AutomationJobs, FiniteSetTheorems, WellFoundedInduction, TLAPS

USE DEF Autos, At, Go, End, Asked, n8nVars

\* A workflow is known from the moment it was found or saved.
Knowing == Steps \ {"idle", "prepare", "find", "save", "end"}

\* What the variables of an execution hold depends on where it is.
LocalShape(j) ==
    /\ path[j] \in Locals
    /\ path[j].at \in Knowing => path[j].wf \in Workflows
    /\ At(j, "prepare") => path[j].wf = input[j].wf
    /\ At(j, "repair") => path[j].attempts < MaxRepairs

PathShape == PathOK /\ \A j \in Runs : LocalShape(j)

\* Every job enters its golden path once, from the start.
JobShape ==
    /\ status \in [Jobs -> JobStatuses]
    /\ job \in [Jobs -> JobSteps]
    /\ flagged \subseteq Jobs
    /\ cancelling \subseteq Jobs
    /\ posted \in [Jobs -> SUBSET {"result", "failure"}]
    /\ troubles \in 0 .. MaxTroubles
    /\ \A j \in Jobs :
         /\ job[j] \in {"none", "queued", "live", "claimed"} => At(j, "idle")
         /\ job[j] \in {"queued", "live", "claimed"} => path[j].wf = input[j].wf

Shape == PathShape /\ JobShape

\* The first record of a workflow that has records is one of them.
LEMMA OwnerIsOwner ==
    ASSUME PathOK, NEW w, Owners(w) # {}
    PROVE  Owner(w) \in Owners(w)
  <1> DEFINE S == {request[a].born : a \in Owners(w)}
             R == OpToRel(<, Nat)
  <1>1. S \subseteq Nat /\ S # {}
    <2>1. Owners(w) \subseteq Autos
      BY DEF Owners
    <2>2. \A a \in Autos : request[a].born \in Nat
      BY DEF PathOK, Document
    <2> QED BY <2>1, <2>2
  <1>2. \E x \in S : \A y \in S : ~(<<y, x>> \in R)
    <2> HIDE DEF S, R
    <2>1. IsWellFoundedOn(R, Nat)
      BY NatLessThanWellFounded DEF R
    <2> QED BY <1>1, <2>1, WFMin
  <1>3. PICK x \in S : \A y \in S : ~(<<y, x>> \in R)
    BY <1>2
  <1>4. \A y \in S : x <= y
    <2>1. R = {ss \in Nat \X Nat : ss[1] < ss[2]}
      BY DEF OpToRel
    <2> HIDE DEF R
    <2> TAKE y \in S
    <2>2. <<y, x>> \notin R /\ x \in Nat /\ y \in Nat
      BY <1>1, <1>3
    <2>3. <<y, x>> \in Nat \X Nat
      BY <2>2
    <2>4. ~(y < x)
      BY <2>1, <2>2, <2>3
    <2> QED BY <2>2, <2>4
  <1>5. PICK a \in Owners(w) : request[a].born = x
    BY <1>3
  <1>6. \A b \in Owners(w) : request[a].born <= request[b].born
    BY <1>4, <1>5
  <1> QED BY <1>5, <1>6 DEF Owner

\* The repairs take flaws away and may add one, and do not add an error of a draft.
LEMMA RepairedFlow ==
    ASSUME NEW flow \in SUBSET Flaws
    PROVE  /\ Repaired(flow) \in SUBSET Flaws
           /\ DraftErrors(Repaired(flow)) \subseteq DraftErrors(flow)
  BY DEF Repaired, Flaws, DraftErrors

\* When one execution moves, the others keep their shape.
LEMMA OneMoves ==
    ASSUME PathShape, UNCHANGED input, NEW j \in Runs, NEW l \in Locals,
           path' = [path EXCEPT ![j] = l],
           l.at \in Knowing => l.wf \in Workflows,
           l.at = "prepare" => l.wf = input[j].wf,
           l.at = "repair" => l.attempts < MaxRepairs
    PROVE  path' \in [Runs -> Locals] /\ \A k \in Runs : LocalShape(k)'
  <1>1. path'[j] = l /\ \A k \in Runs \ {j} : path'[k] = path[k]
    BY DEF PathShape, PathOK
  <1>2. LocalShape(j)' /\ \A k \in Runs \ {j} : LocalShape(k)'
    BY <1>1 DEF PathShape, LocalShape
  <1> QED BY <1>1, <1>2 DEF PathShape, PathOK

\* Whoever returns knows nothing any more.
LEMMA EndShape ==
    ASSUME PathShape, UNCHANGED input, NEW j \in Runs, NEW o \in Outcomes, End(j, o)
    PROVE  path' \in [Runs -> Locals] /\ \A k \in Runs : LocalShape(k)'
  <1>1. Fresh(j, "end", o) \in Locals
    BY PathAssumption DEF Fresh, Locals, Steps, Statuses, MaxRepairs
  <1>2. Fresh(j, "end", o).at = "end" /\ "end" \notin Knowing
    BY DEF Fresh, Knowing
  <1> QED BY <1>1, <1>2, OneMoves

\* Each step of the golden path keeps the shape of all executions.
LEMMA PathStepLocals ==
    ASSUME PathShape, NEW j \in Runs, PathStep(j)
    PROVE  path' \in [Runs -> Locals] /\ \A k \in Runs : LocalShape(k)'
  <1>0. /\ path \in [Runs -> Locals] /\ path[j] \in Locals
        /\ input[j].wf \in Workflows \cup {NoWorkflow}
        /\ input[j].flow \in SUBSET Flaws
        /\ LocalShape(j)
        /\ {"blocked", "manual_review_required", "tested", "refused", "active"} \subseteq Outcomes
        /\ {0, 1} \subseteq 0 .. MaxRepairs
    BY PathAssumption DEF Asks, PathShape, PathOK, Outcomes, Request, MaxRepairs
  <1>1. CASE Prepare(j)
    <2>0. DraftOf(input[j]) \in SUBSET Flaws
      BY <1>0, RepairedFlow DEF DraftOf
    <2>1. UNCHANGED input
      BY <1>1 DEF Prepare
    <2>2. ASSUME NEW at \in {"find", "owner"},
                 NEW n \in {0, 1},
                 path' = [path EXCEPT ![j].at = at, ![j].flow = DraftOf(input[j]), ![j].attempts = n],
                 at = "owner" => input[j].wf # NoWorkflow,
                 DraftOf(input[j]) \in SUBSET Flaws
          PROVE  path' \in [Runs -> Locals] /\ \A k \in Runs : LocalShape(k)'
      <3> DEFINE l == [path[j] EXCEPT !.at = at, !.flow = DraftOf(input[j]), !.attempts = n]
      <3>1. path' = [path EXCEPT ![j] = l]
        BY <1>0, <2>2
      <3>2. l \in Locals
        BY <1>0, <2>2 DEF Locals, Steps
      <3>3. l.at = at /\ l.wf = path[j].wf /\ l.attempts = n
        BY <1>0 DEF Locals
      <3>4. /\ l.at \in Knowing => l.wf \in Workflows
            /\ l.at # "prepare"
            /\ l.at = "repair" => l.attempts < MaxRepairs
        BY <1>0, <1>1, <2>2, <3>3 DEF Prepare, LocalShape, Knowing, Steps
      <3> HIDE DEF l
      <3> QED BY <2>1, <3>1, <3>2, <3>4, OneMoves
    <2>3. CASE End(j, "blocked")
      BY <1>0, <2>1, <2>3, EndShape
    <2> QED BY <1>0, <1>1, <2>1, <2>2, <2>3, <2>0 DEF Prepare
  <1>2. CASE Find(j)
    <2>1. UNCHANGED input
      BY <1>2 DEF Find
    <2>2. ASSUME path' = [path EXCEPT ![j].at = "save"]
          PROVE  path' \in [Runs -> Locals] /\ \A k \in Runs : LocalShape(k)'
      <3> DEFINE l == [path[j] EXCEPT !.at = "save"]
      <3>1. path' = [path EXCEPT ![j] = l]
        BY <1>0, <2>2
      <3>2. l \in Locals
        BY <1>0, <2>2 DEF Locals, Steps
      <3>3. l.at = "save" /\ l.wf = path[j].wf /\ l.attempts = path[j].attempts
        BY <1>0 DEF Locals
      <3>4. /\ l.at \in Knowing => l.wf \in Workflows
            /\ l.at # "prepare"
            /\ l.at = "repair" => l.attempts < MaxRepairs
        BY <1>0, <1>2, <2>2, <3>3 DEF Find, LocalShape, Knowing, Steps
      <3> HIDE DEF l
      <3> QED BY <2>1, <3>1, <3>2, <3>4, OneMoves
    <2>3. ASSUME NEW w \in Workflows,
                 path' = [path EXCEPT ![j].at = "match", ![j].wf = w]
          PROVE  path' \in [Runs -> Locals] /\ \A k \in Runs : LocalShape(k)'
      <3> DEFINE l == [path[j] EXCEPT !.at = "match", !.wf = w]
      <3>1. path' = [path EXCEPT ![j] = l]
        BY <1>0, <2>3
      <3>2. l \in Locals
        BY <1>0, <2>3 DEF Locals, Steps
      <3>3. l.at = "match" /\ l.wf = w /\ l.attempts = path[j].attempts
        BY <1>0 DEF Locals
      <3>4. /\ l.at \in Knowing => l.wf \in Workflows
            /\ l.at # "prepare"
            /\ l.at = "repair" => l.attempts < MaxRepairs
        BY <1>0, <1>2, <2>3, <3>3 DEF Find, LocalShape, Knowing, Steps
      <3> HIDE DEF l
      <3> QED BY <2>1, <3>1, <3>2, <3>4, OneMoves
    <2> QED BY <1>0, <1>2, <2>1, <2>2, <2>3 DEF Find
  <1>3. CASE CheckOwner(j)
    <2>0. /\ path[j].auto \in Autos
          /\ Owners(path[j].wf) # {} => Owner(path[j].wf) \in Autos
      BY <1>0, OwnerIsOwner DEF Owners, PathShape, Locals
    <2>1. UNCHANGED input
      BY <1>3 DEF CheckOwner
    <2>2. ASSUME NEW a \in Autos,
                 path' = [path EXCEPT ![j].at = "save", ![j].target = a]
          PROVE  path' \in [Runs -> Locals] /\ \A k \in Runs : LocalShape(k)'
      <3> DEFINE l == [path[j] EXCEPT !.at = "save", !.target = a]
      <3>1. path' = [path EXCEPT ![j] = l]
        BY <1>0, <2>2
      <3>2. l \in Locals
        BY <1>0, <2>2 DEF Locals, Steps
      <3>3. l.at = "save" /\ l.wf = path[j].wf /\ l.attempts = path[j].attempts
        BY <1>0 DEF Locals
      <3>4. /\ l.at \in Knowing => l.wf \in Workflows
            /\ l.at # "prepare"
            /\ l.at = "repair" => l.attempts < MaxRepairs
        BY <1>0, <1>3, <2>2, <3>3 DEF CheckOwner, LocalShape, Knowing, Steps
      <3> HIDE DEF l
      <3> QED BY <2>1, <3>1, <3>2, <3>4, OneMoves
    <2>3. CASE End(j, "blocked")
      BY <1>0, <2>1, <2>3, EndShape
    <2> QED BY <1>0, <1>3, <2>1, <2>2, <2>3, <2>0 DEF CheckOwner
  <1>4. CASE Save(j)
    <2>0. Targets(j) \subseteq Workflows
      BY <1>0 DEF Targets, Locals
    <2>1. UNCHANGED input
      BY <1>4 DEF Save
    <2>2. ASSUME NEW w \in Workflows,
                 path' = [path EXCEPT ![j].at = "record", ![j].wf = w]
          PROVE  path' \in [Runs -> Locals] /\ \A k \in Runs : LocalShape(k)'
      <3> DEFINE l == [path[j] EXCEPT !.at = "record", !.wf = w]
      <3>1. path' = [path EXCEPT ![j] = l]
        BY <1>0, <2>2
      <3>2. l \in Locals
        BY <1>0, <2>2 DEF Locals, Steps
      <3>3. l.at = "record" /\ l.wf = w /\ l.attempts = path[j].attempts
        BY <1>0 DEF Locals
      <3>4. /\ l.at \in Knowing => l.wf \in Workflows
            /\ l.at # "prepare"
            /\ l.at = "repair" => l.attempts < MaxRepairs
        BY <1>0, <1>4, <2>2, <3>3 DEF Save, LocalShape, Knowing, Steps
      <3> HIDE DEF l
      <3> QED BY <2>1, <3>1, <3>2, <3>4, OneMoves
    <2>3. CASE End(j, "blocked")
      BY <1>0, <2>1, <2>3, EndShape
    <2> QED BY <1>0, <1>4, <2>1, <2>2, <2>3, <2>0 DEF Save
  <1>5. CASE Record(j)
    <2>1. UNCHANGED input
      BY <1>5 DEF Record
    <2>2. ASSUME path' = [path EXCEPT ![j].at = "fetch"]
          PROVE  path' \in [Runs -> Locals] /\ \A k \in Runs : LocalShape(k)'
      <3> DEFINE l == [path[j] EXCEPT !.at = "fetch"]
      <3>1. path' = [path EXCEPT ![j] = l]
        BY <1>0, <2>2
      <3>2. l \in Locals
        BY <1>0, <2>2 DEF Locals, Steps
      <3>3. l.at = "fetch" /\ l.wf = path[j].wf /\ l.attempts = path[j].attempts
        BY <1>0 DEF Locals
      <3>4. /\ l.at \in Knowing => l.wf \in Workflows
            /\ l.at # "prepare"
            /\ l.at = "repair" => l.attempts < MaxRepairs
        BY <1>0, <1>5, <2>2, <3>3 DEF Record, LocalShape, Knowing, Steps
      <3> HIDE DEF l
      <3> QED BY <2>1, <3>1, <3>2, <3>4, OneMoves
    <2> QED BY <1>0, <1>5, <2>1, <2>2 DEF Record
  <1>6. CASE Fetch(j)
    <2>0. /\ path[j].auto \in Autos /\ path[j].target \in Autos
          /\ n8n[path[j].wf].flow \in SUBSET Flaws /\ n8n[path[j].wf].active \in BOOLEAN
      BY <1>0, <1>6 DEF Locals, PathShape, PathOK, Stored, LocalShape, Knowing, Steps, Fetch
    <2>1. UNCHANGED input
      BY <1>6 DEF Fetch
    <2>2. ASSUME NEW at \in {"test", "sync"},
                 NEW a \in Autos,
                 NEW f \in SUBSET Flaws,
                 NEW b \in BOOLEAN,
                 path' = [path EXCEPT ![j].at = at, ![j].auto = a, ![j].flow = f, ![j].active = b]
          PROVE  path' \in [Runs -> Locals] /\ \A k \in Runs : LocalShape(k)'
      <3> DEFINE l == [path[j] EXCEPT !.at = at, !.auto = a, !.flow = f, !.active = b]
      <3>1. path' = [path EXCEPT ![j] = l]
        BY <1>0, <2>2
      <3>2. l \in Locals
        BY <1>0, <2>2 DEF Locals, Steps
      <3>3. l.at = at /\ l.wf = path[j].wf /\ l.attempts = path[j].attempts
        BY <1>0 DEF Locals
      <3>4. /\ l.at \in Knowing => l.wf \in Workflows
            /\ l.at # "prepare"
            /\ l.at = "repair" => l.attempts < MaxRepairs
        BY <1>0, <1>6, <2>2, <3>3 DEF Fetch, LocalShape, Knowing, Steps
      <3> HIDE DEF l
      <3> QED BY <2>1, <3>1, <3>2, <3>4, OneMoves
    <2> QED BY <1>0, <1>6, <2>1, <2>2, <2>0 DEF Fetch
  <1>7. CASE SyncRead(j)
    <2>0. request[path[j].auto].status \in Statuses
      BY <1>0 DEF PathShape, PathOK, Document, Locals
    <2>1. UNCHANGED input
      BY <1>7 DEF SyncRead, Statuses
    <2>2. ASSUME NEW s \in Statuses,
                 path' = [path EXCEPT ![j].at = "write", ![j].seen = s]
          PROVE  path' \in [Runs -> Locals] /\ \A k \in Runs : LocalShape(k)'
      <3> DEFINE l == [path[j] EXCEPT !.at = "write", !.seen = s]
      <3>1. path' = [path EXCEPT ![j] = l]
        BY <1>0, <2>2
      <3>2. l \in Locals
        BY <1>0, <2>2 DEF Locals, Steps
      <3>3. l.at = "write" /\ l.wf = path[j].wf /\ l.attempts = path[j].attempts
        BY <1>0 DEF Locals
      <3>4. /\ l.at \in Knowing => l.wf \in Workflows
            /\ l.at # "prepare"
            /\ l.at = "repair" => l.attempts < MaxRepairs
        BY <1>0, <1>7, <2>2, <3>3 DEF SyncRead, LocalShape, Knowing, Steps
      <3> HIDE DEF l
      <3> QED BY <2>1, <3>1, <3>2, <3>4, OneMoves
    <2> QED BY <1>0, <1>7, <2>1, <2>2, <2>0 DEF SyncRead, Statuses
  <1>8. CASE SyncWrite(j)
    <2>0. path[j].next \in Outcomes
      BY <1>0 DEF Locals
    <2>1. UNCHANGED input
      BY <1>8 DEF SyncWrite
    <2>2. ASSUME path' = [path EXCEPT ![j].at = "test"]
          PROVE  path' \in [Runs -> Locals] /\ \A k \in Runs : LocalShape(k)'
      <3> DEFINE l == [path[j] EXCEPT !.at = "test"]
      <3>1. path' = [path EXCEPT ![j] = l]
        BY <1>0, <2>2
      <3>2. l \in Locals
        BY <1>0, <2>2 DEF Locals, Steps
      <3>3. l.at = "test" /\ l.wf = path[j].wf /\ l.attempts = path[j].attempts
        BY <1>0 DEF Locals
      <3>4. /\ l.at \in Knowing => l.wf \in Workflows
            /\ l.at # "prepare"
            /\ l.at = "repair" => l.attempts < MaxRepairs
        BY <1>0, <1>8, <2>2, <3>3 DEF SyncWrite, LocalShape, Knowing, Steps
      <3> HIDE DEF l
      <3> QED BY <2>1, <3>1, <3>2, <3>4, OneMoves
    <2>3. CASE End(j, path[j].next)
      BY <2>0, <2>1, <2>3, EndShape
    <2> QED BY <1>0, <1>8, <2>1, <2>2, <2>3, <2>0 DEF SyncWrite
  <1>9. CASE MockTest(j)
    <2>1. UNCHANGED input
      BY <1>9 DEF MockTest, AfterTest
    <2>2. ASSUME NEW at \in {"gate", "mark", "repair", "manual"},
                 path' = [path EXCEPT ![j].at = at, ![j].tested = TRUE],
                 at = "repair" => path[j].attempts < MaxRepairs
          PROVE  path' \in [Runs -> Locals] /\ \A k \in Runs : LocalShape(k)'
      <3> DEFINE l == [path[j] EXCEPT !.at = at, !.tested = TRUE]
      <3>1. path' = [path EXCEPT ![j] = l]
        BY <1>0, <2>2
      <3>2. l \in Locals
        BY <1>0, <2>2 DEF Locals, Steps
      <3>3. l.at = at /\ l.wf = path[j].wf /\ l.attempts = path[j].attempts
        BY <1>0 DEF Locals
      <3>4. /\ l.at \in Knowing => l.wf \in Workflows
            /\ l.at # "prepare"
            /\ l.at = "repair" => l.attempts < MaxRepairs
        BY <1>0, <1>9, <2>2, <3>3 DEF MockTest, LocalShape, Knowing, Steps
      <3> HIDE DEF l
      <3> QED BY <2>1, <3>1, <3>2, <3>4, OneMoves
    <2> QED BY <1>0, <1>9, <2>1, <2>2 DEF MockTest, AfterTest
  <1>10. CASE RepairFlow(j)
    <2>0. /\ path[j].attempts + 1 \in 0 .. MaxRepairs
          /\ Repaired(path[j].flow) \in SUBSET Flaws
      BY <1>0, <1>10, RepairedFlow DEF Locals, LocalShape, RepairFlow, MaxRepairs
    <2>1. UNCHANGED input
      BY <1>10 DEF RepairFlow
    <2>2. ASSUME NEW n \in 0 .. MaxRepairs,
                 path' = [path EXCEPT ![j].at = "manual", ![j].attempts = n]
          PROVE  path' \in [Runs -> Locals] /\ \A k \in Runs : LocalShape(k)'
      <3> DEFINE l == [path[j] EXCEPT !.at = "manual", !.attempts = n]
      <3>1. path' = [path EXCEPT ![j] = l]
        BY <1>0, <2>2
      <3>2. l \in Locals
        BY <1>0, <2>2 DEF Locals, Steps
      <3>3. l.at = "manual" /\ l.wf = path[j].wf /\ l.attempts = n
        BY <1>0 DEF Locals
      <3>4. /\ l.at \in Knowing => l.wf \in Workflows
            /\ l.at # "prepare"
            /\ l.at = "repair" => l.attempts < MaxRepairs
        BY <1>0, <1>10, <2>2, <3>3 DEF RepairFlow, LocalShape, Knowing, Steps
      <3> HIDE DEF l
      <3> QED BY <2>1, <3>1, <3>2, <3>4, OneMoves
    <2>3. ASSUME NEW at \in {"test", "owner"},
                 NEW n \in 0 .. MaxRepairs,
                 NEW f \in SUBSET Flaws,
                 path' = [path EXCEPT ![j].at = at, ![j].attempts = n, ![j].flow = f, ![j].active = FALSE]
          PROVE  path' \in [Runs -> Locals] /\ \A k \in Runs : LocalShape(k)'
      <3> DEFINE l == [path[j] EXCEPT !.at = at, !.attempts = n, !.flow = f, !.active = FALSE]
      <3>1. path' = [path EXCEPT ![j] = l]
        BY <1>0, <2>3
      <3>2. l \in Locals
        BY <1>0, <2>3 DEF Locals, Steps
      <3>3. l.at = at /\ l.wf = path[j].wf /\ l.attempts = n
        BY <1>0 DEF Locals
      <3>4. /\ l.at \in Knowing => l.wf \in Workflows
            /\ l.at # "prepare"
            /\ l.at = "repair" => l.attempts < MaxRepairs
        BY <1>0, <1>10, <2>3, <3>3 DEF RepairFlow, LocalShape, Knowing, Steps
      <3> HIDE DEF l
      <3> QED BY <2>1, <3>1, <3>2, <3>4, OneMoves
    <2> QED BY <1>0, <1>10, <2>1, <2>2, <2>3, <2>0 DEF RepairFlow
  <1>11. CASE MarkManual(j)
    <2>1. UNCHANGED input
      BY <1>11 DEF MarkManual
    <2>2. CASE End(j, "manual_review_required")
      BY <1>0, <2>1, <2>2, EndShape
    <2> QED BY <1>0, <1>11, <2>1, <2>2 DEF MarkManual
  <1>12. CASE MarkTested(j)
    <2>1. UNCHANGED input
      BY <1>12 DEF MarkTested
    <2>2. ASSUME path' = [path EXCEPT ![j].at = "sync", ![j].next = "tested"]
          PROVE  path' \in [Runs -> Locals] /\ \A k \in Runs : LocalShape(k)'
      <3> DEFINE l == [path[j] EXCEPT !.at = "sync", !.next = "tested"]
      <3>1. path' = [path EXCEPT ![j] = l]
        BY <1>0, <2>2
      <3>2. l \in Locals
        BY <1>0, <2>2 DEF Locals, Steps, Outcomes
      <3>3. l.at = "sync" /\ l.wf = path[j].wf /\ l.attempts = path[j].attempts
        BY <1>0 DEF Locals
      <3>4. /\ l.at \in Knowing => l.wf \in Workflows
            /\ l.at # "prepare"
            /\ l.at = "repair" => l.attempts < MaxRepairs
        BY <1>0, <1>12, <2>2, <3>3 DEF MarkTested, LocalShape, Knowing, Steps
      <3> HIDE DEF l
      <3> QED BY <2>1, <3>1, <3>2, <3>4, OneMoves
    <2> QED BY <1>0, <1>12, <2>1, <2>2 DEF MarkTested
  <1>13. CASE Gate(j)
    <2>1. UNCHANGED input
      BY <1>13 DEF Gate
    <2>2. ASSUME path' = [path EXCEPT ![j].at = "activate"]
          PROVE  path' \in [Runs -> Locals] /\ \A k \in Runs : LocalShape(k)'
      <3> DEFINE l == [path[j] EXCEPT !.at = "activate"]
      <3>1. path' = [path EXCEPT ![j] = l]
        BY <1>0, <2>2
      <3>2. l \in Locals
        BY <1>0, <2>2 DEF Locals, Steps
      <3>3. l.at = "activate" /\ l.wf = path[j].wf /\ l.attempts = path[j].attempts
        BY <1>0 DEF Locals
      <3>4. /\ l.at \in Knowing => l.wf \in Workflows
            /\ l.at # "prepare"
            /\ l.at = "repair" => l.attempts < MaxRepairs
        BY <1>0, <1>13, <2>2, <3>3 DEF Gate, LocalShape, Knowing, Steps
      <3> HIDE DEF l
      <3> QED BY <2>1, <3>1, <3>2, <3>4, OneMoves
    <2>3. ASSUME path' = [path EXCEPT ![j].at = "sync", ![j].next = "refused"]
          PROVE  path' \in [Runs -> Locals] /\ \A k \in Runs : LocalShape(k)'
      <3> DEFINE l == [path[j] EXCEPT !.at = "sync", !.next = "refused"]
      <3>1. path' = [path EXCEPT ![j] = l]
        BY <1>0, <2>3
      <3>2. l \in Locals
        BY <1>0, <2>3 DEF Locals, Steps, Outcomes
      <3>3. l.at = "sync" /\ l.wf = path[j].wf /\ l.attempts = path[j].attempts
        BY <1>0 DEF Locals
      <3>4. /\ l.at \in Knowing => l.wf \in Workflows
            /\ l.at # "prepare"
            /\ l.at = "repair" => l.attempts < MaxRepairs
        BY <1>0, <1>13, <2>3, <3>3 DEF Gate, LocalShape, Knowing, Steps
      <3> HIDE DEF l
      <3> QED BY <2>1, <3>1, <3>2, <3>4, OneMoves
    <2> QED BY <1>0, <1>13, <2>1, <2>2, <2>3 DEF Gate
  <1>14. CASE Activate(j)
    <2>1. UNCHANGED input
      BY <1>14 DEF Activate
    <2>2. ASSUME path' = [path EXCEPT ![j].at = "activated"]
          PROVE  path' \in [Runs -> Locals] /\ \A k \in Runs : LocalShape(k)'
      <3> DEFINE l == [path[j] EXCEPT !.at = "activated"]
      <3>1. path' = [path EXCEPT ![j] = l]
        BY <1>0, <2>2
      <3>2. l \in Locals
        BY <1>0, <2>2 DEF Locals, Steps
      <3>3. l.at = "activated" /\ l.wf = path[j].wf /\ l.attempts = path[j].attempts
        BY <1>0 DEF Locals
      <3>4. /\ l.at \in Knowing => l.wf \in Workflows
            /\ l.at # "prepare"
            /\ l.at = "repair" => l.attempts < MaxRepairs
        BY <1>0, <1>14, <2>2, <3>3 DEF Activate, LocalShape, Knowing, Steps
      <3> HIDE DEF l
      <3> QED BY <2>1, <3>1, <3>2, <3>4, OneMoves
    <2> QED BY <1>0, <1>14, <2>1, <2>2 DEF Activate
  <1>15. CASE Activated(j)
    <2>1. UNCHANGED input
      BY <1>15 DEF Activated
    <2>2. ASSUME path' = [path EXCEPT ![j].at = "sync", ![j].next = "active"]
          PROVE  path' \in [Runs -> Locals] /\ \A k \in Runs : LocalShape(k)'
      <3> DEFINE l == [path[j] EXCEPT !.at = "sync", !.next = "active"]
      <3>1. path' = [path EXCEPT ![j] = l]
        BY <1>0, <2>2
      <3>2. l \in Locals
        BY <1>0, <2>2 DEF Locals, Steps, Outcomes
      <3>3. l.at = "sync" /\ l.wf = path[j].wf /\ l.attempts = path[j].attempts
        BY <1>0 DEF Locals
      <3>4. /\ l.at \in Knowing => l.wf \in Workflows
            /\ l.at # "prepare"
            /\ l.at = "repair" => l.attempts < MaxRepairs
        BY <1>0, <1>15, <2>2, <3>3 DEF Activated, LocalShape, Knowing, Steps
      <3> HIDE DEF l
      <3> QED BY <2>1, <3>1, <3>2, <3>4, OneMoves
    <2> QED BY <1>0, <1>15, <2>1, <2>2 DEF Activated
  <1> QED BY <1>1, <1>2, <1>3, <1>4, <1>5, <1>6, <1>7, <1>8, <1>9, <1>10, <1>11, <1>12,
             <1>13, <1>14, <1>15 DEF PathStep

\* Each step of the golden path keeps the types of what n8n and the database hold.
LEMMA PathStepStores ==
    ASSUME PathShape, NEW j \in Runs, PathStep(j)
    PROVE  /\ n8n' \in [Workflows -> Stored]
           /\ request' \in [Autos -> Document]
           /\ UNCHANGED <<approved, input>>
  <1>0. /\ n8n \in [Workflows -> Stored] /\ request \in [Autos -> Document]
        /\ path[j].flow \in SUBSET Flaws
        /\ path[j].auto \in Autos /\ path[j].target \in Autos
        /\ path[j].seen \in Statuses
        /\ path[j].wf \in Workflows \cup {NoWorkflow}
        /\ input[j].name \in Names
        /\ path[j].at \in Knowing => path[j].wf \in Workflows
    BY PathAssumption DEF PathShape, PathOK, Locals, Asks, Request, LocalShape
  <1>1. CASE Save(j)
    <2>1. ASSUME NEW w \in Workflows, n8n' = Saved(j, w)
          PROVE  n8n' \in [Workflows -> Stored]
      <3>1. n8n' = [n8n EXCEPT ![w] = [there |-> TRUE, name |-> input[j].name,
                      flow |-> path[j].flow, active |-> n8n[w].active, by |-> j]]
        BY <1>0, <2>1 DEF Saved
      <3>2. n8n[w].active \in BOOLEAN
        BY <1>0 DEF Stored
      <3>3. [there |-> TRUE, name |-> input[j].name, flow |-> path[j].flow,
             active |-> n8n[w].active, by |-> j] \in Stored
        BY <1>0, <3>2 DEF Stored
      <3> QED BY <1>0, <3>1, <3>3
    <2>2. Targets(j) \subseteq Workflows
      BY <1>0 DEF Targets
    <2> QED BY <1>0, <1>1, <2>1, <2>2 DEF Save
  <1>2. CASE Activate(j)
    <2>1. n8n' = [n8n EXCEPT ![path[j].wf] = [n8n[path[j].wf] EXCEPT !.active = TRUE]]
      BY <1>0, <1>2 DEF Activate
    <2>2. path[j].wf \in Workflows
      BY <1>0, <1>2 DEF Activate, Knowing, Steps
    <2>3. [n8n[path[j].wf] EXCEPT !.active = TRUE] \in Stored
      BY <1>0, <2>2 DEF Stored
    <2> QED BY <1>0, <1>2, <2>1, <2>3 DEF Activate
  <1>3. CASE Record(j)
    <2> DEFINE n == Cardinality({b \in Autos : request[b].there})
               d == [request[path[j].target] EXCEPT !.there = TRUE, !.wf = path[j].wf,
                       !.managed = TRUE, !.status = "draft_created",
                       !.born = IF request[path[j].target].there THEN @ ELSE n]
    <2>1. n \in Nat
      BY PathAssumption, FS_Subset, FS_CardinalityType
    <2>2. request' = [request EXCEPT ![path[j].target] = d]
      BY <1>0, <1>3 DEF Record
    <2>3. d \in Document
      <3> HIDE DEF n
      <3>1. request[path[j].target] \in Document /\ request[path[j].target].born \in Nat
        BY <1>0 DEF Document
      <3> QED BY <1>0, <2>1, <3>1 DEF Document, Statuses
    <2> HIDE DEF d
    <2> QED BY <1>0, <1>3, <2>2, <2>3 DEF Record
  <1>4. CASE SyncWrite(j)
    <2>0. Owners(path[j].wf) # {} => Owner(path[j].wf) \in Autos
      BY OwnerIsOwner DEF Owners, PathShape
    <2>1. ASSUME NEW a \in Autos, request' = [request EXCEPT ![a] = [request[a] EXCEPT !.status = path[j].seen]]
          PROVE  request' \in [Autos -> Document]
      <3>1. request[a] \in Document /\ path[j].wf \in Workflows \cup {NoWorkflow}
        BY <1>0
      <3>2. [request[a] EXCEPT !.status = path[j].seen] \in Document
        BY <1>0, <3>1 DEF Document, Statuses
      <3> QED BY <1>0, <2>1, <3>2
    <2>2. \A a \in Autos : [request EXCEPT ![a].status = path[j].seen] = [request EXCEPT ![a] = [request[a] EXCEPT !.status = path[j].seen]]
      BY <1>0
    <2> QED BY <1>0, <1>4, <2>1, <2>2, <2>0 DEF SyncWrite
  <1>5. CASE MockTest(j)
    <2>1. ASSUME NEW a \in Autos, request' = [request EXCEPT ![a] = [request[a] EXCEPT !.test = IF StrictValid(path[j].flow) THEN "passed" ELSE "failed"]]
          PROVE  request' \in [Autos -> Document]
      <3>1. request[a] \in Document /\ path[j].wf \in Workflows \cup {NoWorkflow}
        BY <1>0
      <3>2. [request[a] EXCEPT !.test = IF StrictValid(path[j].flow) THEN "passed" ELSE "failed"] \in Document
        BY <1>0, <3>1 DEF Document, Statuses
      <3> QED BY <1>0, <2>1, <3>2
    <2>2. \A a \in Autos : [request EXCEPT ![a].test = IF StrictValid(path[j].flow) THEN "passed" ELSE "failed"] = [request EXCEPT ![a] = [request[a] EXCEPT !.test = IF StrictValid(path[j].flow) THEN "passed" ELSE "failed"]]
      BY <1>0
    <2> QED BY <1>0, <1>5, <2>1, <2>2 DEF MockTest
  <1>6. CASE MarkManual(j)
    <2>1. ASSUME NEW a \in Autos, request' = [request EXCEPT ![a] = [request[a] EXCEPT !.status = "manual_review_required", !.wf = path[j].wf]]
          PROVE  request' \in [Autos -> Document]
      <3>1. request[a] \in Document /\ path[j].wf \in Workflows \cup {NoWorkflow}
        BY <1>0
      <3>2. [request[a] EXCEPT !.status = "manual_review_required", !.wf = path[j].wf] \in Document
        BY <3>1 DEF Document, Statuses
      <3> QED BY <1>0, <2>1, <3>2
    <2>2. \A a \in Autos : [request EXCEPT ![a].status = "manual_review_required", ![a].wf = path[j].wf] = [request EXCEPT ![a] = [request[a] EXCEPT !.status = "manual_review_required", !.wf = path[j].wf]]
      BY <1>0
    <2> QED BY <1>0, <1>6, <2>1, <2>2 DEF MarkManual, Marked
  <1>7. CASE MarkTested(j)
    <2>1. ASSUME NEW a \in Autos, request' = [request EXCEPT ![a] = [request[a] EXCEPT !.status = "tested", !.wf = path[j].wf]]
          PROVE  request' \in [Autos -> Document]
      <3>1. request[a] \in Document /\ path[j].wf \in Workflows \cup {NoWorkflow}
        BY <1>0
      <3>2. [request[a] EXCEPT !.status = "tested", !.wf = path[j].wf] \in Document
        BY <3>1 DEF Document, Statuses
      <3> QED BY <1>0, <2>1, <3>2
    <2>2. \A a \in Autos : [request EXCEPT ![a].status = "tested", ![a].wf = path[j].wf] = [request EXCEPT ![a] = [request[a] EXCEPT !.status = "tested", !.wf = path[j].wf]]
      BY <1>0
    <2> QED BY <1>0, <1>7, <2>1, <2>2 DEF MarkTested, Marked
  <1>8. CASE Activated(j)
    <2>1. ASSUME NEW a \in Autos, request' = [request EXCEPT ![a] = [request[a] EXCEPT !.status = "active"]]
          PROVE  request' \in [Autos -> Document]
      <3>1. request[a] \in Document /\ path[j].wf \in Workflows \cup {NoWorkflow}
        BY <1>0
      <3>2. [request[a] EXCEPT !.status = "active"] \in Document
        BY <1>0, <3>1 DEF Document, Statuses
      <3> QED BY <1>0, <2>1, <3>2
    <2>2. \A a \in Autos : [request EXCEPT ![a].status = "active"] = [request EXCEPT ![a] = [request[a] EXCEPT !.status = "active"]]
      BY <1>0
    <2> QED BY <1>0, <1>8, <2>1, <2>2 DEF Activated
  <1>9. CASE \/ Prepare(j) \/ Find(j) \/ CheckOwner(j) \/ Fetch(j) \/ SyncRead(j)
             \/ RepairFlow(j) \/ Gate(j)
    BY <1>0, <1>9 DEF Prepare, Find, CheckOwner, Fetch, SyncRead, RepairFlow, Gate
  <1> QED BY <1>1, <1>2, <1>3, <1>4, <1>5, <1>6, <1>7, <1>8, <1>9 DEF PathStep

\* A step of one execution leaves the others where they are.
LEMMA OthersStay ==
    ASSUME PathShape, NEW j \in Runs, PathStep(j) \/ Throws(j) \/ AnswerLost(j)
    PROVE  /\ \A k \in Runs \ {j} : path'[k] = path[k]
           /\ path[j].at \notin {"idle", "end"}
  <1> USE DEF PathShape, PathOK
  <1>1. CASE PathStep(j)
    BY <1>1 DEF PathStep, Prepare, Find, CheckOwner, Save, Record, Fetch, SyncRead, SyncWrite,
                MockTest, RepairFlow, MarkManual, MarkTested, Gate, Activate, Activated
  <1>2. CASE Throws(j) \/ AnswerLost(j)
    BY <1>2 DEF Throws, AnswerLost, Executing
  <1> QED BY <1>1, <1>2

\* An execution that fails keeps the shape, whatever n8n has done for it.
LEMMA FailureShape ==
    ASSUME PathShape, NEW j \in Runs, Throws(j) \/ AnswerLost(j)
    PROVE  PathShape'
  <1>1. UNCHANGED <<approved, input, request>> /\ End(j, "blocked") /\ "blocked" \in Outcomes
    BY DEF Throws, AnswerLost, Outcomes
  <1>2. path' \in [Runs -> Locals] /\ \A k \in Runs : LocalShape(k)'
    BY <1>1, EndShape
  <1>3. n8n' \in [Workflows -> Stored]
    <2>1. CASE UNCHANGED n8n
      BY <2>1 DEF PathShape, PathOK
    <2>2. ASSUME At(j, "save"), NEW w \in Targets(j), n8n' = Saved(j, w)
          PROVE  n8n' \in [Workflows -> Stored]
      <3>1. /\ w \in Workflows /\ n8n \in [Workflows -> Stored] /\ n8n[w] \in Stored
            /\ path[j].flow \in SUBSET Flaws /\ input[j].name \in Names
        BY <2>2, PathAssumption
           DEF PathShape, PathOK, Locals, Asks, Request, Targets
      <3>2. [there |-> TRUE, name |-> input[j].name, flow |-> path[j].flow,
             active |-> n8n[w].active, by |-> j] \in Stored
        BY <3>1 DEF Stored
      <3>3. n8n' = [n8n EXCEPT ![w] = [there |-> TRUE, name |-> input[j].name,
                      flow |-> path[j].flow, active |-> n8n[w].active, by |-> j]]
        BY <2>2, <3>1 DEF Saved
      <3> QED BY <3>1, <3>2, <3>3
    <2>3. ASSUME At(j, "activate"), n8n' = [n8n EXCEPT ![path[j].wf].active = TRUE]
          PROVE  n8n' \in [Workflows -> Stored]
      <3>1. /\ path[j].wf \in Workflows /\ n8n \in [Workflows -> Stored]
            /\ n8n[path[j].wf] \in Stored
        BY <2>3 DEF PathShape, PathOK, LocalShape, Knowing, Steps
      <3>2. [n8n[path[j].wf] EXCEPT !.active = TRUE] \in Stored
        BY <3>1 DEF Stored
      <3>3. n8n' = [n8n EXCEPT ![path[j].wf] = [n8n[path[j].wf] EXCEPT !.active = TRUE]]
        BY <2>3, <3>1
      <3> QED BY <3>1, <3>2, <3>3
    <2> QED BY <2>1, <2>2, <2>3 DEF Throws, AnswerLost
  <1> QED BY <1>1, <1>2, <1>3 DEF PathShape, PathOK

\* The automation an execution begins with.
LEMMA BeginShape ==
    ASSUME PathShape, UNCHANGED input, NEW j \in Runs, At(j, "idle"), NEW a \in Autos,
           NEW at \in {"idle", "prepare"},
           path' = [path EXCEPT ![j].at = at, ![j].wf = input[j].wf, ![j].auto = a,
                                ![j].target = a]
    PROVE  path' \in [Runs -> Locals] /\ \A k \in Runs : LocalShape(k)'
  <1> DEFINE l == [path[j] EXCEPT !.at = at, !.wf = input[j].wf, !.auto = a, !.target = a]
  <1>1. path \in [Runs -> Locals] /\ path[j] \in Locals
    BY DEF PathShape, PathOK
  <1>0. input[j].wf \in Workflows \cup {NoWorkflow}
    <2>1. input[j] \in Request
      BY PathAssumption DEF PathShape, PathOK, Asks
    <2> QED BY <2>1 DEF Request
  <1>2. path' = [path EXCEPT ![j] = l]
    BY <1>1
  <1>3. l \in Locals
    BY <1>0, <1>1 DEF Locals, Steps
  <1>4. l.at \in {"idle", "prepare"} /\ l.wf = input[j].wf
    BY <1>1 DEF Locals
  <1> HIDE DEF l
  <1> QED BY <1>2, <1>3, <1>4, OneMoves DEF Knowing

\* The process takes all its executions with it.
LEMMA RestartShape ==
    ASSUME PathShape, Restart
    PROVE  PathShape'
  <1>1. /\ path' = [j \in Runs |-> IF Executing(j) THEN Fresh(j, "end", "none") ELSE path[j]]
        /\ UNCHANGED <<n8n, request, approved, input>>
    BY DEF Restart
  <1>2. \A j \in Runs : Fresh(j, "end", "none") \in Locals /\ Fresh(j, "end", "none").at = "end"
    BY PathAssumption DEF Fresh, Locals, Steps, Statuses, MaxRepairs, Outcomes
  <1>3. \A j \in Runs : path'[j] = Fresh(j, "end", "none") \/ path'[j] = path[j]
    BY <1>1
  <1>4. \A j \in Runs : LocalShape(j)'
    BY <1>1, <1>2, <1>3 DEF LocalShape, PathShape, Knowing
  <1>5. path' \in [Runs -> Locals]
    BY <1>1, <1>2 DEF PathShape, PathOK
  <1> QED BY <1>1, <1>4, <1>5 DEF PathShape, PathOK

\* The shape holds at first.
LEMMA InitShape == Init => Shape
  <1> SUFFICES ASSUME Init PROVE Shape
    OBVIOUS
  <1>1. n8n \in [Workflows -> Stored]
    <2>1. \A w \in DOMAIN OldWorkflow :
            [there |-> TRUE, name |-> OldWorkflow[w].name, flow |-> OldWorkflow[w].flow,
             active |-> OldWorkflow[w].active, by |-> NoWorkflow] \in Stored
      BY PathAssumption DEF Stored
    <2>2. [there |-> FALSE, name |-> NoWorkflow, flow |-> {}, active |-> FALSE,
           by |-> NoWorkflow] \in Stored
      BY DEF Stored
    <2> QED BY <2>1, <2>2 DEF Init, InitPath
  <1>2. request \in [Autos -> Document]
    BY PathAssumption DEF Init, InitPath, Document, Statuses
  <1>3. \A j \in Runs : Fresh(j, "idle", "none") \in Locals /\ Fresh(j, "idle", "none").at = "idle"
    BY PathAssumption DEF Fresh, Locals, Steps, Statuses, MaxRepairs, Outcomes
  <1>4. /\ approved = {} /\ input \in Asks
        /\ path = [j \in Runs |-> Fresh(j, "idle", "none")]
    BY DEF Init, InitPath
  <1>5. PathShape
    BY <1>1, <1>2, <1>3, <1>4 DEF PathShape, PathOK, LocalShape, Knowing
  <1>6. JobShape
    BY <1>3, <1>4, JobsAssumption DEF Init, JobShape, JobStatuses, JobSteps
  <1> QED BY <1>5, <1>6 DEF Shape

\* What a step does to the executions keeps their shape.
LEMMA NextPathShape ==
    ASSUME Shape, [Next]_vars
    PROVE  PathShape'
  <1>0. PathShape /\ Jobs \subseteq Runs
    BY JobsAssumption DEF Shape
  <1>1. ASSUME UNCHANGED pathVars PROVE PathShape'
    BY <1>0, <1>1 DEF pathVars, PathShape, PathOK, LocalShape, Asks
  <1>2. ASSUME NEW j \in Runs, PathStep(j) PROVE PathShape'
    BY <1>0, <1>2, PathStepLocals, PathStepStores DEF PathShape, PathOK
  <1>3. ASSUME NEW j \in Runs, StartSync(j) PROVE PathShape'
    <2>1. input[j].auto = NoWorkflow \/ input[j].auto \in Autos
      BY <1>0, PathAssumption DEF PathShape, PathOK, Asks, Request
    <2>2. PICK a \in Autos : path' = [path EXCEPT ![j].at = "prepare", ![j].wf = input[j].wf,
                                            ![j].auto = a, ![j].target = a]
      BY <1>3, <2>1 DEF StartSync
    <2>3. path' \in [Runs -> Locals] /\ \A k \in Runs : LocalShape(k)'
      BY <1>0, <1>3, <2>2, BeginShape DEF StartSync
    <2> QED BY <1>0, <1>3, <2>3 DEF StartSync, PathShape, PathOK
  <1>4. ASSUME NEW j \in Jobs, StartJob(j) PROVE PathShape'
    <2>1. AutomationOf(j, input[j]) \in Autos
      <3>1. input[j].auto = NoWorkflow \/ input[j].auto \in Autos
        BY <1>0, PathAssumption DEF PathShape, PathOK, Asks, Request
      <3>2. Managed(input[j].wf) => Owner(input[j].wf) \in Autos
        BY <1>0, OwnerIsOwner DEF Managed, Owners, PathShape
      <3> QED BY <1>0, <3>1, <3>2 DEF AutomationOf
    <2>2. At(j, "idle")
      BY <1>0, <1>4 DEF StartJob, Turn, Shape, JobShape
    <2>3. path' = [path EXCEPT ![j].at = "idle", ![j].wf = input[j].wf,
                               ![j].auto = AutomationOf(j, input[j]),
                               ![j].target = AutomationOf(j, input[j])]
      BY <1>0, <1>4, <2>2 DEF StartJob, PathShape, PathOK, Locals
    <2>4. path' \in [Runs -> Locals] /\ \A k \in Runs : LocalShape(k)'
      BY <1>0, <1>4, <2>1, <2>2, <2>3, BeginShape DEF StartJob
    <2> QED BY <1>0, <1>4, <2>4 DEF StartJob, PathShape, PathOK
  <1>5. ASSUME NEW j \in Jobs, EnterPath(j) PROVE PathShape'
    <2>1. CASE UNCHANGED path
      BY <1>0, <1>1, <1>5, <2>1 DEF EnterPath, pathVars, n8nVars
    <2>2. CASE Go(j, "prepare") /\ Turn(j, "claimed", "path")
      <3> DEFINE l == [path[j] EXCEPT !.at = "prepare"]
      <3>1. path' = [path EXCEPT ![j] = l]
        BY <1>0, <2>2
      <3>2. path[j] \in Locals /\ path[j].wf = input[j].wf
        BY <1>0, <2>2 DEF Turn, Shape, JobShape, PathShape, PathOK
      <3>3. l \in Locals /\ l.at = "prepare" /\ l.wf = input[j].wf
        BY <3>2 DEF Locals, Steps
      <3>4. path' \in [Runs -> Locals] /\ \A k \in Runs : LocalShape(k)'
        <4> HIDE DEF l
        <4> QED BY <1>0, <1>5, <3>1, <3>3, OneMoves DEF EnterPath, Knowing
      <3> QED BY <1>0, <1>5, <3>4 DEF EnterPath, PathShape, PathOK
    <2> QED BY <1>5, <2>1, <2>2 DEF EnterPath
  <1>6. ASSUME NEW j \in Runs, PathFails(j) PROVE PathShape'
    BY <1>0, <1>6, FailureShape DEF PathFails
  <1>7. CASE Restart
    BY <1>0, <1>7, RestartShape
  <1>8. ASSUME NEW j \in Runs, ApproveToken(j) PROVE PathShape'
    BY <1>0, <1>8 DEF ApproveToken, Approve, PathShape, PathOK, LocalShape, Asks
  <1>9. ASSUME NEW j \in Jobs,
               \/ GoLive(j) \/ Claim(j) \/ LeavePath(j) \/ Complete(j) \/ Notify(j) \/ Caught(j)
               \/ NotifyFailure(j) \/ Cancel(j) \/ CancelWrite(j) \/ MarkStale(j)
               \/ JobFails(j) \/ CatchFails(j)
        PROVE  UNCHANGED pathVars
    BY <1>9 DEF GoLive, Claim, LeavePath, Complete, Notify, Caught, NotifyFailure, Cancel,
                CancelWrite, MarkStale, JobFails, CatchFails
  <1> QED BY <1>0, <1>1, <1>2, <1>3, <1>4, <1>5, <1>6, <1>7, <1>8, <1>9
          DEF Next, JobStep, StepSync, StepPath, vars

\* So does what a step does to the jobs.
LEMMA NextJobShape ==
    ASSUME Shape, [Next]_vars
    PROVE  JobShape'
  <1> USE DEF Shape, JobShape, JobStatuses, JobSteps, Turn, Write, Trouble
  <1>0. Jobs \subseteq Runs /\ MaxTroubles \in Nat
    BY JobsAssumption
  <1>1. CASE UNCHANGED vars
    BY <1>1 DEF vars, pathVars, jobVars
  <1>2. ASSUME NEW j \in Runs, StartSync(j) \/ StepSync(j) \/ PathFails(j) PROVE JobShape'
    <2>1. ASSUME NEW k \in Jobs, job[k] \in {"none", "queued", "live", "claimed"}
          PROVE  path'[k] = path[k]
      <3>1. CASE StartSync(j)
        BY <1>0, <3>1, <2>1 DEF StartSync, PathShape, PathOK
      <3>2. CASE StepSync(j)
        BY <1>0, <3>2, <2>1, OthersStay DEF StepSync
      <3>3. CASE PathFails(j)
        BY <1>0, <3>3, <2>1, OthersStay DEF PathFails
      <3> QED BY <1>2, <3>1, <3>2, <3>3
    <2>2. UNCHANGED <<status, job, flagged, cancelling, posted, input>> /\ troubles' \in 0 .. MaxTroubles
      BY <1>0, <1>2, PathStepStores DEF StartSync, StepSync, PathFails, jobVars, Throws, AnswerLost
    <2> QED BY <2>1, <2>2
  <1>3. ASSUME NEW j \in Jobs, StepPath(j) PROVE JobShape'
    <2>1. \A k \in Runs \ {j} : path'[k] = path[k]
      BY <1>0, <1>3, OthersStay DEF StepPath
    <2>2. UNCHANGED <<jobVars, input>> /\ job[j] = "path"
      BY <1>0, <1>3, PathStepStores DEF StepPath
    <2> QED BY <1>0, <2>1, <2>2 DEF jobVars
  <1>4. ASSUME NEW j \in Jobs, StartJob(j) PROVE JobShape'
    BY <1>0, <1>4 DEF StartJob, PathShape, PathOK, Locals
  <1>5. ASSUME NEW j \in Jobs, EnterPath(j) PROVE JobShape'
    BY <1>0, <1>5 DEF EnterPath, PathShape, PathOK
  <1>6. ASSUME NEW j \in Jobs, GoLive(j) \/ Claim(j) \/ LeavePath(j) \/ Complete(j) PROVE JobShape'
    BY <1>0, <1>6 DEF GoLive, Claim, LeavePath, Complete, pathVars
  <1>7. ASSUME NEW j \in Jobs, Notify(j) \/ NotifyFailure(j) \/ Caught(j) PROVE JobShape'
    BY <1>0, <1>7 DEF Notify, NotifyFailure, Caught, pathVars
  <1>8. ASSUME NEW j \in Jobs, Cancel(j) \/ CancelWrite(j) \/ MarkStale(j) PROVE JobShape'
    BY <1>0, <1>8 DEF Cancel, CancelWrite, MarkStale, pathVars
  <1>9. ASSUME NEW j \in Jobs, JobFails(j) \/ CatchFails(j) PROVE JobShape'
    <2>1. posted' \in [Jobs -> SUBSET {"result", "failure"}]
      <3>1. CASE UNCHANGED posted
        BY <3>1
      <3>2. ASSUME NEW sent \in SUBSET {"result"}, posted' = [posted EXCEPT ![j] = @ \cup sent]
            PROVE  posted' \in [Jobs -> SUBSET {"result", "failure"}]
        <4>1. posted[j] \cup sent \in SUBSET {"result", "failure"}
          OBVIOUS
        <4> QED BY <3>2, <4>1
      <3> QED BY <1>9, <3>1, <3>2 DEF JobFails, CatchFails
    <2>2. job' \in [Jobs -> JobSteps] /\ job'[j] \in {"caught", "over"}
      BY <1>9 DEF JobFails, CatchFails
    <2>3. \A k \in Jobs \ {j} : job'[k] = job[k]
      BY <1>9 DEF JobFails, CatchFails
    <2>4. UNCHANGED <<pathVars, status, flagged, cancelling>> /\ troubles' \in 0 .. MaxTroubles
      BY <1>0, <1>9 DEF JobFails, CatchFails
    <2> QED BY <2>1, <2>2, <2>3, <2>4 DEF pathVars
  <1>10. CASE Restart
    BY <1>0, <1>10 DEF Restart, Executing
  <1>11. ASSUME NEW j \in Runs, ApproveToken(j) PROVE JobShape'
    BY <1>0, <1>11 DEF ApproveToken, Approve, jobVars
  <1> QED BY <1>1, <1>2, <1>3, <1>4, <1>5, <1>6, <1>7, <1>8, <1>9, <1>10, <1>11
          DEF Next, JobStep

\* Type correctness, for any executions, workflows, inputs and number of troubles.
THEOREM TypeCorrect == Spec => []TypeOK
  <1>1. Shape /\ [Next]_vars => Shape'
    BY NextPathShape, NextJobShape DEF Shape
  <1>2. Shape => TypeOK
    BY DEF Shape, PathShape, JobShape, TypeOK
  <1> QED BY InitShape, <1>1, <1>2, PTL DEF Spec

\* The shape is an invariant, which the other theorems use.
LEMMA ShapeInvariant == Spec => []Shape
  <1>1. Shape /\ [Next]_vars => Shape'
    BY NextPathShape, NextJobShape DEF Shape
  <1> QED BY InitShape, <1>1, PTL DEF Spec

-----------------------------------------------------------------------------
\* How far a job is tells which messages there are and what its record says.
MessagesKnown ==
    \A j \in Jobs :
      /\ job[j] \in {"none", "queued", "live", "claimed", "path", "complete"} => posted[j] = {}
      /\ job[j] = "notify" => status[j] = "completed" /\ posted[j] = {}
      /\ job[j] = "notifyFailure" => status[j] = "failed"
      /\ "failure" \in posted[j] => job[j] = "over" /\ status[j] = "failed"
      /\ "result" \in posted[j] => status[j] \in {"completed", "failed"}

\* What the owner of a job was told is what its record says, at any time after.
THEOREM MessagesMatch == Spec => []MessageMatchesRecord
  <1>1. Init => MessagesKnown
    BY DEF Init, MessagesKnown
  <1>2. Shape /\ MessagesKnown /\ [Next]_vars => MessagesKnown'
    <2> SUFFICES ASSUME Shape, MessagesKnown, [Next]_vars PROVE MessagesKnown'
      OBVIOUS
    <2> USE DEF MessagesKnown, Turn, Write
    <2>0. /\ status \in [Jobs -> JobStatuses] /\ job \in [Jobs -> JobSteps]
          /\ posted \in [Jobs -> SUBSET {"result", "failure"}]
      BY DEF Shape, JobShape
    <2>1. CASE UNCHANGED <<status, job, posted>>
      BY <2>1
    <2>2. ASSUME NEW j \in Jobs, StartJob(j) \/ GoLive(j) \/ Claim(j) \/ EnterPath(j) \/ LeavePath(j)
                                  \/ Complete(j)
          PROVE  MessagesKnown'
      BY <2>0, <2>2 DEF StartJob, GoLive, Claim, EnterPath, LeavePath, Complete
    <2>3. ASSUME NEW j \in Jobs, Notify(j) PROVE MessagesKnown'
      BY <2>0, <2>3 DEF Notify
    <2>4. ASSUME NEW j \in Jobs, Caught(j) PROVE MessagesKnown'
      BY <2>0, <2>4 DEF Caught
    <2>5. ASSUME NEW j \in Jobs, NotifyFailure(j) PROVE MessagesKnown'
      BY <2>0, <2>5 DEF NotifyFailure
    <2>6. ASSUME NEW j \in Jobs, CancelWrite(j) \/ MarkStale(j) PROVE MessagesKnown'
      BY <2>0, <2>6 DEF CancelWrite, MarkStale
    <2>7. ASSUME NEW j \in Jobs, JobFails(j) \/ CatchFails(j) PROVE MessagesKnown'
      BY <2>0, <2>7 DEF JobFails, CatchFails
    <2>8. CASE Restart
      BY <2>0, <2>8 DEF Restart
    <2>9. ASSUME NEW j \in Runs, StartSync(j) \/ StepSync(j) \/ PathFails(j) \/ ApproveToken(j)
          PROVE  UNCHANGED <<status, job, posted>>
      BY <2>9 DEF StartSync, StepSync, PathFails, ApproveToken, jobVars
    <2>10. ASSUME NEW j \in Jobs, StepPath(j) \/ Cancel(j) PROVE UNCHANGED <<status, job, posted>>
      BY <2>10 DEF StepPath, Cancel, jobVars
    <2> QED BY <2>1, <2>2, <2>3, <2>4, <2>5, <2>6, <2>7, <2>8, <2>9, <2>10
            DEF Next, JobStep, vars, jobVars
  <1>3. MessagesKnown => MessageMatchesRecord
    BY DEF MessagesKnown, MessageMatchesRecord
  <1> QED BY <1>1, <1>2, <1>3, ShapeInvariant, PTL DEF Spec

\* A job that was cancelled in time has not come to writing its result.
StandsCancelled(j) ==
    status[j] = "cancelled" /\ job[j] \in {"queued", "live", "claimed", "path", "caught", "over", "lost"}

\* A cancellation recorded before the golden path returns is never overwritten.
THEOREM CancellationStands == Spec => EarlyCancelStands
  <1> SUFFICES ASSUME NEW j \in Jobs
               PROVE  Spec => [](status[j] = "cancelled" /\ job[j] \in {"queued", "live", "claimed", "path"}
                                   => [](status[j] = "cancelled"))
    BY DEF EarlyCancelStands
  <1>1. Shape /\ StandsCancelled(j) /\ [Next]_vars => StandsCancelled(j)'
    <2> SUFFICES ASSUME Shape, StandsCancelled(j), [Next]_vars PROVE StandsCancelled(j)'
      OBVIOUS
    <2> USE DEF StandsCancelled, Turn, Write
    <2>0. /\ status \in [Jobs -> JobStatuses] /\ job \in [Jobs -> JobSteps]
      BY DEF Shape, JobShape
    <2>1. ASSUME NEW k \in Jobs, StartJob(k) \/ GoLive(k) \/ Claim(k) \/ EnterPath(k) \/ LeavePath(k)
                                  \/ Complete(k) \/ Notify(k) \/ Caught(k) \/ NotifyFailure(k)
          PROVE  StandsCancelled(j)'
      BY <2>0, <2>1 DEF StartJob, GoLive, Claim, EnterPath, LeavePath, Complete, Notify, Caught,
                        NotifyFailure
    <2>2. ASSUME NEW k \in Jobs, CancelWrite(k) \/ MarkStale(k) \/ JobFails(k) \/ CatchFails(k)
          PROVE  StandsCancelled(j)'
      BY <2>0, <2>2 DEF CancelWrite, MarkStale, JobFails, CatchFails
    <2>3. CASE Restart
      BY <2>0, <2>3 DEF Restart
    <2>4. ASSUME NEW k \in Runs, StartSync(k) \/ StepSync(k) \/ PathFails(k) \/ ApproveToken(k)
          PROVE  UNCHANGED <<status, job>>
      BY <2>4 DEF StartSync, StepSync, PathFails, ApproveToken, jobVars
    <2>5. ASSUME NEW k \in Jobs, StepPath(k) \/ Cancel(k) PROVE UNCHANGED <<status, job>>
      BY <2>5 DEF StepPath, Cancel, jobVars
    <2> QED BY <2>1, <2>2, <2>3, <2>4, <2>5 DEF Next, JobStep, vars, jobVars
  <1>2. status[j] = "cancelled" /\ job[j] \in {"queued", "live", "claimed", "path"} => StandsCancelled(j)
    BY DEF StandsCancelled
  <1>3. StandsCancelled(j) => status[j] = "cancelled"
    BY DEF StandsCancelled
  <1> QED BY <1>1, <1>2, <1>3, ShapeInvariant, PTL DEF Spec

-----------------------------------------------------------------------------
\* A flow that is about to be saved has passed the checks.
Checked(j) ==
    path[j].at \in {"find", "match", "owner", "save"}
      => DraftErrors(path[j].flow) = {} /\ ~Denied(path[j].flow, input[j])

AllowedInv == InN8nIsAllowed /\ \A j \in Runs : Checked(j)

\* Saving a checked flow leaves only what is allowed in n8n.
LEMMA SavedIsAllowed ==
    ASSUME PathShape, AllowedInv, NEW j \in Runs, At(j, "save"), ~Unapproved(j),
           NEW w \in Targets(j), n8n' = Saved(j, w), UNCHANGED approved
    PROVE  InN8nIsAllowed'
  <1>1. /\ w \in Workflows /\ n8n \in [Workflows -> Stored]
    BY DEF Targets, PathShape, PathOK, Locals
  <1>2. /\ \A v \in Workflows \ {w} : n8n'[v] = n8n[v]
        /\ n8n'[w].flow = path[j].flow /\ n8n'[w].by = j
    BY <1>1 DEF Saved
  <1>3. /\ DraftErrors(path[j].flow) = {}
        /\ RiskVerdict(path[j].flow, FALSE) # "block"
        /\ RiskVerdict(path[j].flow, FALSE) = "review" => j \in approved
    BY DEF AllowedInv, Checked, Denied, Unapproved
  <1> QED BY <1>1, <1>2, <1>3 DEF AllowedInv, InN8nIsAllowed

\* Activating a workflow changes neither what it does nor who saved it.
LEMMA ActiveIsAllowed ==
    ASSUME PathShape, AllowedInv, NEW w \in Workflows, n8n' = [n8n EXCEPT ![w].active = TRUE],
           UNCHANGED approved
    PROVE  InN8nIsAllowed'
  <1>1. \A v \in Workflows : n8n'[v].flow = n8n[v].flow /\ n8n'[v].by = n8n[v].by
    <2>1. n8n \in [Workflows -> Stored] /\ \A v \in Workflows : n8n[v] \in Stored
      BY DEF PathShape, PathOK
    <2>2. /\ \A v \in Workflows \ {w} : n8n'[v] = n8n[v]
          /\ n8n'[w] = [n8n[w] EXCEPT !.active = TRUE]
      BY <2>1
    <2>3. n8n'[w].flow = n8n[w].flow /\ n8n'[w].by = n8n[w].by
      BY <2>1, <2>2 DEF Stored
    <2> QED BY <2>2, <2>3
  <1>2. ASSUME NEW v \in Workflows, n8n'[v].by # NoWorkflow
        PROVE  /\ DraftErrors(n8n'[v].flow) = {}
               /\ RiskVerdict(n8n'[v].flow, FALSE) # "block"
               /\ RiskVerdict(n8n'[v].flow, FALSE) = "review" => n8n'[v].by \in approved
    <2>1. n8n'[v].flow = n8n[v].flow /\ n8n'[v].by = n8n[v].by
      BY <1>1
    <2>2. /\ DraftErrors(n8n[v].flow) = {}
          /\ RiskVerdict(n8n[v].flow, FALSE) # "block"
          /\ RiskVerdict(n8n[v].flow, FALSE) = "review" => n8n[v].by \in approved
      BY <1>2, <2>1 DEF AllowedInv, InN8nIsAllowed
    <2> QED BY <2>1, <2>2
  <1> QED BY <1>2 DEF InN8nIsAllowed

\* A step of the golden path leaves only what is allowed in n8n.
LEMMA PathStepAllowed ==
    ASSUME PathShape, AllowedInv, NEW j \in Runs, PathStep(j)
    PROVE  AllowedInv'
  <1>0. /\ path \in [Runs -> Locals] /\ path[j] \in Locals /\ LocalShape(j) /\ Checked(j)
        /\ \A k \in Runs \ {j} : path'[k] = path[k]
        /\ UNCHANGED <<approved, input>>
    BY OthersStay, PathStepStores DEF PathShape, PathOK, AllowedInv
  <1>1. InN8nIsAllowed'
    <2>1. CASE UNCHANGED n8n
      BY <1>0, <2>1 DEF AllowedInv, InN8nIsAllowed
    <2>2. CASE Save(j)
      BY <1>0, <2>1, <2>2, SavedIsAllowed DEF Save
    <2>3. CASE Activate(j)
      BY <1>0, <2>3, ActiveIsAllowed DEF Activate, LocalShape, Knowing, Steps
    <2> QED BY <2>1, <2>2, <2>3
            DEF PathStep, Prepare, Find, CheckOwner, Record, Fetch, SyncRead, SyncWrite,
                MockTest, RepairFlow, MarkManual, MarkTested, Gate, Activated
  <1>2. Checked(j)'
    <2>1. ASSUME NEW o, path'[j] = Fresh(j, "end", o) PROVE Checked(j)'
      BY <2>1 DEF Checked, Fresh
    <2>2. CASE Prepare(j)
      <3>1. CASE End(j, "blocked")
        BY <1>0, <2>1, <3>1
      <3>2. CASE ~End(j, "blocked")
        <4>1. ~BlocksDraft(DraftOf(input[j]), input[j]) /\ ~Denied(DraftOf(input[j]), input[j])
          BY <2>2, <3>2 DEF Prepare
        <4>2. path'[j].flow = DraftOf(input[j])
          BY <1>0, <2>2, <4>1 DEF Prepare, Locals
        <4> QED BY <1>0, <4>1, <4>2 DEF Checked, BlocksDraft
      <3> QED BY <3>1, <3>2
    <2>3. CASE Find(j) \/ CheckOwner(j)
      <3>1. \/ path'[j] = Fresh(j, "end", "blocked")
            \/ path[j].at \in {"find", "match", "owner"} /\ path'[j].flow = path[j].flow
        BY <1>0, <2>3 DEF Find, CheckOwner, Locals
      <3> QED BY <1>0, <2>1, <3>1 DEF Checked
    <2>4. CASE RepairFlow(j)
      <3>1. path'[j].at = "owner" => /\ path'[j].flow = Repaired(path[j].flow)
                                     /\ ~Undeployable(j, Repaired(path[j].flow))
        BY <1>0, <2>4 DEF RepairFlow, Locals
      <3>2. path'[j].at \in {"manual", "test", "owner"}
        BY <1>0, <2>4 DEF RepairFlow, Locals
      <3> QED BY <1>0, <3>1, <3>2 DEF Checked, Undeployable
    <2>5. CASE \/ Save(j) \/ Record(j) \/ Fetch(j) \/ SyncRead(j) \/ SyncWrite(j) \/ MockTest(j)
               \/ MarkManual(j) \/ MarkTested(j) \/ Gate(j) \/ Activate(j) \/ Activated(j)
      <3>1. path'[j].at \notin {"find", "match", "owner", "save"}
        <4>1. CASE Record(j) \/ Fetch(j) \/ SyncRead(j) \/ MockTest(j)
          BY <1>0, <4>1 DEF Record, Fetch, SyncRead, MockTest, AfterTest, Locals
        <4>2. CASE MarkTested(j) \/ Gate(j) \/ Activate(j) \/ Activated(j)
          BY <1>0, <4>2 DEF MarkTested, Gate, Activate, Activated, Locals
        <4>3. CASE Save(j) \/ SyncWrite(j) \/ MarkManual(j)
          BY <1>0, <4>3 DEF Save, SyncWrite, MarkManual, Fresh, Locals
        <4> QED BY <2>5, <4>1, <4>2, <4>3
      <3> QED BY <3>1 DEF Checked
    <2> QED BY <2>2, <2>3, <2>4, <2>5 DEF PathStep
  <1>3. \A k \in Runs \ {j} : Checked(k)'
    BY <1>0 DEF AllowedInv, Checked
  <1> QED BY <1>1, <1>2, <1>3 DEF AllowedInv

\* Nothing gets into n8n past the checks and the human, for any requests and any number of
\* executions beside each other.
THEOREM OnlyAllowedWorkflows == Spec => []InN8nIsAllowed
  <1>1. Init => AllowedInv
    <2> SUFFICES ASSUME Init PROVE AllowedInv
      OBVIOUS
    <2>1. \A w \in Workflows : n8n[w].by = NoWorkflow
      BY DEF Init, InitPath
    <2>2. \A j \in Runs : path[j].at = "idle"
      BY DEF Init, InitPath, Fresh
    <2> QED BY <2>1, <2>2 DEF AllowedInv, InN8nIsAllowed, Checked
  <1>2. Shape /\ AllowedInv /\ [Next]_vars => AllowedInv'
    <2> SUFFICES ASSUME Shape, AllowedInv, [Next]_vars PROVE AllowedInv'
      OBVIOUS
    <2>0. /\ PathShape /\ path \in [Runs -> Locals] /\ Jobs \subseteq Runs
          /\ \A j \in Runs : path[j] \in Locals
      BY JobsAssumption DEF Shape, PathShape, PathOK
    <2>1. ASSUME UNCHANGED pathVars PROVE AllowedInv'
      BY <2>1 DEF pathVars, AllowedInv, InN8nIsAllowed, Checked
    <2>2. ASSUME NEW j \in Runs, PathStep(j) PROVE AllowedInv'
      BY <2>0, <2>2, PathStepAllowed
    <2>3. ASSUME UNCHANGED <<n8n, approved, input>>,
                 \A j \in Runs : path'[j].at \in {"idle", "prepare", "end"} \/ path'[j] = path[j]
          PROVE  AllowedInv'
      BY <2>3 DEF AllowedInv, InN8nIsAllowed, Checked
    <2>4. ASSUME NEW j \in Runs, StartSync(j) PROVE AllowedInv'
      BY <2>0, <2>3, <2>4 DEF StartSync, Locals, n8nVars
    <2>5. ASSUME NEW j \in Jobs, StartJob(j) PROVE AllowedInv'
      <3>1. path[j].at = "idle"
        BY <2>5 DEF Shape, JobShape, StartJob, Turn
      <3>2. \A k \in Runs : path'[k].at = "idle" \/ path'[k] = path[k]
        BY <2>0, <2>5, <3>1 DEF StartJob, Locals
      <3> QED BY <2>3, <2>5, <3>2 DEF StartJob, n8nVars
    <2>6. ASSUME NEW j \in Jobs, EnterPath(j) PROVE AllowedInv'
      BY <2>0, <2>3, <2>6 DEF EnterPath, Locals, n8nVars
    <2>7. ASSUME NEW j \in Runs, Throws(j) \/ AnswerLost(j) PROVE AllowedInv'
      <3>1. /\ UNCHANGED <<approved, input>>
            /\ \A k \in Runs : path'[k].at = "end" \/ path'[k] = path[k]
        BY <2>0, <2>7 DEF Throws, AnswerLost, Fresh
      <3>2. InN8nIsAllowed'
        <4>1. CASE UNCHANGED n8n
          BY <3>1, <4>1 DEF AllowedInv, InN8nIsAllowed
        <4>2. CASE ~UNCHANGED n8n
          BY <2>0, <2>7, <3>1, <4>2, SavedIsAllowed, ActiveIsAllowed
             DEF Throws, AnswerLost, PathShape, LocalShape, Knowing, Steps
        <4> QED BY <4>1, <4>2
      <3> QED BY <3>1, <3>2 DEF AllowedInv, Checked
    <2>8. CASE Restart
      BY <2>3, <2>8 DEF Restart, Fresh
    <2>9. ASSUME NEW j \in Runs, ApproveToken(j) PROVE AllowedInv'
      BY <2>9 DEF ApproveToken, Approve, AllowedInv, InN8nIsAllowed, Checked
    <2>10. ASSUME NEW j \in Jobs,
               \/ GoLive(j) \/ Claim(j) \/ LeavePath(j) \/ Complete(j) \/ Notify(j) \/ Caught(j)
               \/ NotifyFailure(j) \/ Cancel(j) \/ CancelWrite(j) \/ MarkStale(j)
               \/ JobFails(j) \/ CatchFails(j)
           PROVE  UNCHANGED pathVars
      BY <2>10 DEF GoLive, Claim, LeavePath, Complete, Notify, Caught, NotifyFailure, Cancel,
                   CancelWrite, MarkStale, JobFails, CatchFails
    <2> QED BY <2>0, <2>1, <2>2, <2>4, <2>5, <2>6, <2>7, <2>8, <2>9, <2>10
            DEF Next, JobStep, StepSync, StepPath, PathFails, vars
  <1>3. AllowedInv => InN8nIsAllowed
    BY DEF AllowedInv
  <1> QED BY <1>1, <1>2, <1>3, ShapeInvariant, PTL DEF Spec

-----------------------------------------------------------------------------
\* From its first record on, an execution works for an automation that is managed.
Later == {"sync", "write", "test", "repair", "manual", "gate", "activate", "activated", "mark"}

ForManaged(j) ==
    /\ At(j, "fetch") => request[path[j].target].managed
    /\ path[j].at \in Later \/ path[j].tested => request[path[j].auto].managed
    /\ path[j].at \in {"idle", "prepare", "find", "match"} \/ path[j].wf = NoWorkflow
         => ~path[j].tested
    /\ At(j, "repair") => path[j].tested

\* The workflow of an unmanaged record stays where it was: no managed record names it, and
\* no execution gets past the check of its owner with it.
Apart(a) ==
    LET w == OldRecord[a] IN
    /\ request[a].there /\ request[a].wf = w
    /\ n8n[w].there /\ n8n[w].by = NoWorkflow
    /\ \A b \in Owners(w) : ~request[b].managed
    /\ \A j \in Runs : path[j].wf = w => path[j].at \in {"idle", "prepare", "match", "owner", "end"}

UnmanagedInv ==
    /\ \A j \in Runs : ForManaged(j)
    /\ \A a \in Old : ~request[a].managed => Apart(a)

\* What a step of the golden path does to the records: managed ones stay so, and what one
\* names afterwards it named before, or is what a managed execution works on.
LEMMA RecordsChange ==
    ASSUME PathShape, UnmanagedInv, NEW j \in Runs, PathStep(j), NEW b \in Autos
    PROVE  /\ request[b].managed => request'[b].managed
           /\ \/ /\ request'[b].there = request[b].there /\ request'[b].wf = request[b].wf
                 /\ request'[b].managed = request[b].managed
              \/ /\ request'[b].managed /\ request'[b].wf = path[j].wf
                 /\ path[j].at \in {"record", "manual", "mark"}
  <1>0. /\ request \in [Autos -> Document] /\ request[b] \in Document
        /\ path[j].auto \in Autos /\ path[j].target \in Autos
        /\ request[path[j].auto] \in Document /\ request[path[j].target] \in Document
        /\ ForManaged(j)
    BY DEF PathShape, PathOK, Locals, UnmanagedInv
  <1>1. CASE Record(j)
    <2>1. CASE b = path[j].target
      <3>1. request'[b].managed /\ request'[b].wf = path[j].wf
        BY <1>0, <1>1, <2>1 DEF Record, Document
      <3> QED BY <1>1, <3>1 DEF Record
    <2>2. CASE b # path[j].target
      BY <1>0, <1>1, <2>2 DEF Record
    <2> QED BY <2>1, <2>2
  <1>2. CASE MarkManual(j) \/ MarkTested(j)
    <2>1. request[path[j].auto].managed
      BY <1>0, <1>2 DEF MarkManual, MarkTested, ForManaged, Later
    <2>2. CASE b = path[j].auto /\ request[b].there
      <3>1. request'[b].managed = request[b].managed /\ request'[b].wf = path[j].wf
        BY <1>0, <1>2, <2>2 DEF MarkManual, MarkTested, Marked, Document
      <3> QED BY <1>2, <2>1, <2>2, <3>1 DEF MarkManual, MarkTested
    <2>3. CASE b # path[j].auto \/ ~request[b].there
      BY <1>0, <1>2, <2>3 DEF MarkManual, MarkTested, Marked
    <2> QED BY <2>2, <2>3
  <1>3. CASE SyncWrite(j)
    BY <1>0, <1>3, OwnerIsOwner DEF SyncWrite, Document
  <1>4. CASE MockTest(j) \/ Activated(j)
    BY <1>0, <1>4 DEF MockTest, Activated, Document
  <1>5. CASE UNCHANGED request
    BY <1>5
  <1> QED BY <1>1, <1>2, <1>3, <1>4, <1>5
          DEF PathStep, Prepare, Find, CheckOwner, Save, Fetch, SyncRead, RepairFlow, Gate, Activate

\* It works for the same automation as before, on workflow w.
Same(j, w) ==
    /\ path'[j].wf = w /\ path'[j].tested = path[j].tested
    /\ path'[j].auto = path[j].auto /\ path'[j].target = path[j].target

\* Where a step of the golden path takes an execution, and with which workflow.
LEMMA StepsTaken ==
    ASSUME PathShape, NEW j \in Runs, PathStep(j)
    PROVE  \/ path'[j].at = "end" /\ path'[j].wf = NoWorkflow /\ ~path'[j].tested
           \/ /\ At(j, "prepare") /\ path'[j].at \in {"find", "owner"}
              /\ Same(j, path[j].wf)
              /\ path'[j].at = "owner" <=> path[j].wf # NoWorkflow
           \/ /\ At(j, "find") /\ path'[j].at = "match"
              /\ path'[j].wf \in Workflows /\ n8n[path'[j].wf].there
              /\ path'[j].tested = path[j].tested /\ path'[j].auto = path[j].auto
           \/ /\ path[j].at \in {"match", "owner"} /\ path'[j].at = "save" /\ ~Refused(j)
              /\ path'[j].wf = path[j].wf /\ path'[j].tested = path[j].tested
              /\ path'[j].auto = path[j].auto
              /\ path'[j].target = IF Owners(path[j].wf) = {} THEN path[j].auto
                                   ELSE Owner(path[j].wf)
           \/ At(j, "find") /\ path'[j].at = "save" /\ Same(j, path[j].wf)
           \/ /\ At(j, "save") /\ path'[j].at = "record" /\ path'[j].wf \in Targets(j)
              /\ Same(j, path'[j].wf)
           \/ At(j, "record") /\ path'[j].at = "fetch" /\ Same(j, path[j].wf)
           \/ /\ At(j, "fetch") /\ path'[j].at \in {"test", "sync"}
              /\ path'[j].wf = path[j].wf /\ path'[j].tested = path[j].tested
              /\ path'[j].auto = IF path[j].tested THEN path[j].auto ELSE path[j].target
           \/ /\ path[j].at \in Later /\ path'[j].at \in Later
              /\ path'[j].wf = path[j].wf /\ path'[j].auto = path[j].auto
              /\ path[j].tested \/ path'[j].at = "repair" => path'[j].tested
           \/ /\ At(j, "repair") /\ path'[j].at = "owner"
              /\ path'[j].wf = path[j].wf /\ path'[j].auto = path[j].auto
              /\ path'[j].tested = path[j].tested
  <1>0. path \in [Runs -> Locals] /\ path[j] \in Locals
    BY DEF PathShape, PathOK
  <1>1. ASSUME NEW o, path'[j] = Fresh(j, "end", o)
        PROVE  path'[j].at = "end" /\ path'[j].wf = NoWorkflow /\ ~path'[j].tested
    BY <1>1 DEF Fresh
  <1>2. CASE Prepare(j)
    <2>1. CASE End(j, "blocked")
      BY <1>0, <1>1, <2>1
    <2>2. CASE ~End(j, "blocked")
      <3>1. PICK n \in {0, 1} : path' = [path EXCEPT
                ![j].at = IF input[j].wf = NoWorkflow THEN "find" ELSE "owner",
                ![j].flow = DraftOf(input[j]), ![j].attempts = n]
        BY <1>2, <2>2 DEF Prepare
      <3>2. path'[j] = [path[j] EXCEPT !.at = IF input[j].wf = NoWorkflow THEN "find" ELSE "owner",
                                      !.flow = DraftOf(input[j]), !.attempts = n]
        BY <1>0, <3>1
      <3>3. /\ path'[j].at = IF input[j].wf = NoWorkflow THEN "find" ELSE "owner"
            /\ path'[j].flow = DraftOf(input[j]) /\ path'[j].attempts = n
        BY <1>0, <3>2 DEF Locals
      <3>4. path[j].wf = input[j].wf /\ At(j, "prepare")
        BY <1>2 DEF PathShape, LocalShape, Prepare
      <3>5. Same(j, path[j].wf)
        BY <1>0, <3>2 DEF Locals, Same
      <3> QED BY <3>3, <3>4, <3>5
    <2> QED BY <2>1, <2>2
  <1>3. CASE Find(j)
    BY <1>0, <1>3 DEF Find, Locals, Same
  <1>4. CASE CheckOwner(j)
    BY <1>0, <1>1, <1>4 DEF CheckOwner, Locals
  <1>5. CASE Save(j)
    <2>1. CASE End(j, "blocked")
      BY <1>0, <1>1, <2>1
    <2>2. CASE ~End(j, "blocked")
      <3>1. PICK w \in Targets(j) : path' = [path EXCEPT ![j].at = "record", ![j].wf = w]
        BY <1>5, <2>2 DEF Save
      <3>2. path'[j] = [path[j] EXCEPT !.at = "record", !.wf = w]
        BY <1>0, <3>1
      <3>3. path'[j].at = "record" /\ path'[j].wf = w /\ Same(j, w)
        BY <1>0, <3>2 DEF Locals, Same
      <3> QED BY <1>5, <3>3 DEF Save
    <2> QED BY <2>1, <2>2
  <1>6. CASE Record(j) \/ Fetch(j)
    BY <1>0, <1>6 DEF Record, Fetch, Locals, Same
  <1>7. CASE SyncRead(j) \/ MockTest(j) \/ MarkTested(j) \/ Gate(j) \/ Activate(j) \/ Activated(j)
    BY <1>0, <1>7 DEF SyncRead, MockTest, AfterTest, MarkTested, Gate, Activate, Activated,
                      Locals, Later
  <1>8. CASE SyncWrite(j) \/ MarkManual(j)
    BY <1>0, <1>1, <1>8 DEF SyncWrite, MarkManual, Locals, Later
  <1>9. CASE RepairFlow(j)
    BY <1>0, <1>9 DEF RepairFlow, Locals, Later
  <1> QED BY <1>2, <1>3, <1>4, <1>5, <1>6, <1>7, <1>8, <1>9 DEF PathStep

\* The absence of a workflow is no workflow.
LEMMA NoWorkflowIsNone == NoWorkflow \notin Workflows
  BY PathAssumption

\* A step of the golden path leaves the workflows of unmanaged records apart.
LEMMA PathStepApart ==
    ASSUME PathShape, UnmanagedInv, NEW j \in Runs, PathStep(j)
    PROVE  UnmanagedInv'
  <1>0. /\ path \in [Runs -> Locals] /\ path[j] \in Locals /\ LocalShape(j)
        /\ request \in [Autos -> Document] /\ n8n \in [Workflows -> Stored]
        /\ \A k \in Runs \ {j} : path'[k] = path[k]
        /\ path' \in [Runs -> Locals]
    BY OthersStay, PathStepLocals DEF PathShape, PathOK
  <1>1. \A b \in Autos : request[b].managed => request'[b].managed
    BY RecordsChange
  <1>2. ASSUME NEW k \in Runs PROVE ForManaged(k)'
    <2>0. ForManaged(k)
      BY DEF UnmanagedInv
    <2>1. CASE k # j
      <3>1. path[k].target \in Autos /\ path[k].auto \in Autos
        BY <1>0 DEF Locals
      <3> QED BY <1>0, <1>1, <2>0, <2>1, <3>1 DEF ForManaged
    <2>2. CASE k = j
      <3>1. path[j].target \in Autos /\ path[j].auto \in Autos
        BY <1>0 DEF Locals
      <3>2. CASE Record(j)
        <4>1. request'[path[j].target].managed
          BY <1>0, <3>1, <3>2 DEF Record, Document
        <4>2. path'[j] = [path[j] EXCEPT !.at = "fetch"]
          BY <1>0, <3>2 DEF Record
        <4>3. /\ path'[j].at = "fetch" /\ path'[j].target = path[j].target
              /\ path'[j].auto = path[j].auto /\ path'[j].tested = path[j].tested
          BY <1>0, <4>2 DEF Locals
        <4>4. path'[j].wf = path[j].wf
          BY <1>0, <4>2 DEF Locals
        <4> QED BY <1>1, <2>0, <2>2, <3>1, <4>1, <4>3, <4>4 DEF ForManaged, Later
      <3>3. CASE ~At(j, "record")
        <4>1. /\ path'[j].at # "fetch"
              /\ \/ path'[j].at = "end" /\ ~path'[j].tested
                 \/ At(j, "fetch") /\ path'[j].auto = IF path[j].tested THEN path[j].auto
                                                       ELSE path[j].target
                 \/ /\ path'[j].auto = path[j].auto
                    /\ \/ path[j].at \in Later
                       \/ path'[j].at \notin Later /\ path'[j].tested = path[j].tested
          BY <1>0, <3>3, StepsTaken DEF Same, Later, Locals
        <4>2. request[path'[j].auto].managed \/ (path'[j].at \notin Later /\ ~path'[j].tested)
          BY <2>0, <2>2, <4>1 DEF ForManaged, Later
        <4>3. path'[j].auto \in Autos
          BY <1>0 DEF Locals
        <4>4. path'[j].at \in {"idle", "prepare", "find", "match"} \/ path'[j].wf = NoWorkflow
                => ~path'[j].tested
          BY <1>0, <2>0, <2>2, <3>3, NoWorkflowIsNone, StepsTaken
             DEF ForManaged, Same, Later, LocalShape, Knowing, Steps, Targets
        <4>5. path'[j].at = "repair" => path'[j].tested
          BY StepsTaken DEF Same, Later
        <4> QED BY <1>1, <2>2, <4>1, <4>2, <4>3, <4>4, <4>5 DEF ForManaged
      <3>4. At(j, "record") => Record(j)
        BY DEF PathStep, Prepare, Find, CheckOwner, Save, Record, Fetch, SyncRead, SyncWrite,
               MockTest, RepairFlow, MarkManual, MarkTested, Gate, Activate, Activated
      <3> QED BY <3>2, <3>3, <3>4
    <2> QED BY <2>1, <2>2
  <1>3. ASSUME NEW a \in Old, ~request'[a].managed PROVE Apart(a)'
    <2> DEFINE w == OldRecord[a]
    <2>0. ~request[a].managed /\ Apart(a) /\ a \in Autos /\ w \in Workflows /\ w # NoWorkflow
      BY <1>1, <1>3, PathAssumption DEF UnmanagedInv
    <2>1. path[j].wf = w => path[j].at \in {"idle", "prepare", "match", "owner", "end"}
      BY <2>0 DEF Apart
    <2>2. \A b \in Autos : \/ /\ request'[b].there = request[b].there
                              /\ request'[b].wf = request[b].wf
                              /\ request'[b].managed = request[b].managed
                           \/ request'[b].managed /\ request'[b].wf # w
      BY <2>1, RecordsChange
    <2>3. request'[a].there /\ request'[a].wf = w
      BY <1>3, <2>0, <2>2 DEF Apart
    <2>4. \A b \in Autos : request'[b].there /\ request'[b].wf = w => ~request'[b].managed
      BY <2>0, <2>2 DEF Apart, Owners
    <2>5. n8n'[w].there /\ n8n'[w].by = NoWorkflow
      <3>1. n8n[w].there /\ n8n[w].by = NoWorkflow
        BY <2>0 DEF Apart
      <3>2. CASE Save(j)
        <4>1. w \notin Targets(j)
          BY <2>0, <2>1, <3>1, <3>2 DEF Save, Targets
        <4> QED BY <1>0, <2>0, <3>1, <3>2, <4>1 DEF Save, Saved
      <3>3. CASE Activate(j)
        BY <1>0, <2>0, <2>1, <3>1, <3>3 DEF Activate, Stored
      <3>4. CASE UNCHANGED n8n
        BY <3>1, <3>4
      <3> QED BY <3>2, <3>3, <3>4
              DEF PathStep, Prepare, Find, CheckOwner, Record, Fetch, SyncRead, SyncWrite,
                  MockTest, RepairFlow, MarkManual, MarkTested, Gate, Activated
    <2>6. ASSUME NEW k \in Runs, path'[k].wf = w
          PROVE  path'[k].at \in {"idle", "prepare", "match", "owner", "end"}
      <3>1. CASE k # j
        BY <1>0, <2>0, <2>6, <3>1 DEF Apart
      <3>2. CASE k = j /\ path[j].at \in {"match", "owner"} /\ path[j].wf = w
        <4>1. Owners(w) # {}
          BY <2>0 DEF Apart, Owners
        <4>2. Refused(j)
          BY <2>0, <3>2, <4>1, OwnerIsOwner DEF Apart, Refused, PathShape
        <4> QED BY <2>0, <2>6, <3>2, <4>2, StepsTaken DEF Same, Later
      <3>3. CASE k = j /\ At(j, "save")
        <4>1. w \notin Targets(j)
          BY <2>0, <2>1, <3>3 DEF Targets, Apart
        <4> QED BY <2>0, <2>6, <3>3, <4>1, StepsTaken DEF Same, Later
      <3>4. CASE k = j /\ At(j, "find")
        BY <2>1, <2>6, <3>4, StepsTaken DEF Same, Later
      <3>5. CASE k = j /\ At(j, "prepare")
        BY <2>0, <2>6, <3>5, <1>0, StepsTaken DEF Same, Later, Locals
      <3>6. CASE k = j /\ path[j].at \notin {"prepare", "find", "match", "owner", "save"}
        BY <1>0, <2>0, <2>1, <2>6, <3>6, StepsTaken DEF Same, Later, Locals
      <3>7. k = j /\ path[j].at \in {"match", "owner"} /\ path[j].wf # w => FALSE
        BY <1>0, <2>0, <2>6, StepsTaken DEF Same, Later
      <3> QED BY <3>1, <3>2, <3>3, <3>4, <3>5, <3>6, <3>7
    <2> QED BY <2>3, <2>4, <2>5, <2>6 DEF Apart, Owners
  <1> QED BY <1>2, <1>3 DEF UnmanagedInv

\* What the other steps do to an execution: nothing, end it, or begin it.
Outside(k) ==
    \/ path'[k] = path[k]
    \/ path'[k].at = "end" /\ path'[k].wf = NoWorkflow /\ ~path'[k].tested
    \/ /\ path[k].at = "idle" /\ path'[k].at \in {"idle", "prepare"}
       /\ path'[k].wf = input[k].wf /\ path'[k].tested = path[k].tested

\* The steps that are not of the golden path leave the records alone, and n8n but for a call
\* whose answer is lost.
LEMMA OtherSteps ==
    ASSUME Shape, [Next]_vars, \A j \in Runs : ~PathStep(j)
    PROVE  /\ UNCHANGED <<request, input>>
           /\ \A k \in Runs : Outside(k)
           /\ \/ UNCHANGED n8n
              \/ \E j \in Runs : \E w \in Targets(j) : At(j, "save") /\ n8n' = Saved(j, w)
              \/ \E j \in Runs : At(j, "activate") /\ n8n' = [n8n EXCEPT ![path[j].wf].active = TRUE]
  <1>0. /\ PathShape /\ JobShape /\ path \in [Runs -> Locals] /\ Jobs \subseteq Runs
        /\ \A j \in Runs : path[j] \in Locals
    BY JobsAssumption DEF Shape, PathShape, PathOK
  <1>1. CASE UNCHANGED pathVars
    BY <1>1 DEF pathVars, Outside
  <1>2. ASSUME NEW j \in Runs, StartSync(j)
        PROVE  UNCHANGED <<n8n, request, input>> /\ \A k \in Runs : Outside(k)
    BY <1>0, <1>2 DEF StartSync, Outside, Locals, n8nVars
  <1>3. ASSUME NEW j \in Jobs, StartJob(j)
        PROVE  UNCHANGED <<n8n, request, input>> /\ \A k \in Runs : Outside(k)
    <2>1. path[j].at = "idle"
      BY <1>0, <1>3 DEF JobShape, StartJob, Turn
    <2> QED BY <1>0, <1>3, <2>1 DEF StartJob, Outside, Locals, n8nVars
  <1>4. ASSUME NEW j \in Jobs, EnterPath(j)
        PROVE  UNCHANGED <<n8n, request, input>> /\ \A k \in Runs : Outside(k)
    <2>1. job[j] = "claimed"
      BY <1>4 DEF EnterPath, Turn
    <2>2. path[j].at = "idle" /\ path[j].wf = input[j].wf
      BY <1>0, <2>1 DEF JobShape
    <2> QED BY <1>0, <1>4, <2>2 DEF EnterPath, Outside, Locals, n8nVars
  <1>5. ASSUME NEW j \in Runs, Throws(j) \/ AnswerLost(j)
        PROVE  UNCHANGED <<request, input>> /\ \A k \in Runs : Outside(k)
    BY <1>0, <1>5 DEF Throws, AnswerLost, Outside, Fresh
  <1>6. CASE Restart
    BY <1>0, <1>6 DEF Restart, Outside, Fresh
  <1>7. ASSUME NEW j \in Runs, ApproveToken(j)
        PROVE  UNCHANGED <<n8n, request, input>> /\ \A k \in Runs : Outside(k)
    BY <1>7 DEF ApproveToken, Approve, Outside
  <1>8. ASSUME NEW j \in Jobs,
               \/ GoLive(j) \/ Claim(j) \/ LeavePath(j) \/ Complete(j) \/ Notify(j) \/ Caught(j)
               \/ NotifyFailure(j) \/ Cancel(j) \/ CancelWrite(j) \/ MarkStale(j)
               \/ JobFails(j) \/ CatchFails(j)
        PROVE  UNCHANGED pathVars
    BY <1>8 DEF GoLive, Claim, LeavePath, Complete, Notify, Caught, NotifyFailure, Cancel,
                CancelWrite, MarkStale, JobFails, CatchFails
  <1>9. ASSUME NEW j \in Runs, Throws(j) \/ AnswerLost(j)
        PROVE  \/ UNCHANGED n8n
               \/ \E w \in Targets(j) : At(j, "save") /\ n8n' = Saved(j, w)
               \/ At(j, "activate") /\ n8n' = [n8n EXCEPT ![path[j].wf].active = TRUE]
    BY <1>9 DEF Throws, AnswerLost
  <1> QED BY <1>0, <1>1, <1>2, <1>3, <1>4, <1>5, <1>6, <1>7, <1>8, <1>9
          DEF Next, JobStep, StepSync, StepPath, PathFails, vars

\* At first the workflows of unmanaged records are apart.
LEMMA UnmanagedInit ==
    ASSUME Init
    PROVE  UnmanagedInv
  <1>1. \A j \in Runs : path[j].at = "idle" /\ path[j].wf = NoWorkflow /\ ~path[j].tested
    BY DEF Init, InitPath, Fresh
  <1>2. \A a \in Autos :
          /\ ~request[a].managed
          /\ a \in Old => request[a].there /\ request[a].wf = OldRecord[a]
    BY DEF Init, InitPath
  <1>3. \A w \in DOMAIN OldWorkflow : n8n[w].there /\ n8n[w].by = NoWorkflow
    BY PathAssumption DEF Init, InitPath
  <1> QED BY <1>1, <1>2, <1>3, PathAssumption DEF UnmanagedInv, ForManaged, Apart, Owners, Later

\* No step touches the workflow of an unmanaged record.
LEMMA UnmanagedStep ==
    ASSUME Shape, UnmanagedInv, [Next]_vars
    PROVE  UnmanagedInv'
  <1>1. CASE \E j \in Runs : PathStep(j)
    BY <1>1, PathStepApart DEF Shape
  <1>2. CASE \A j \in Runs : ~PathStep(j)
    <2>0. PathShape /\ n8n \in [Workflows -> Stored] /\ \A w \in Workflows : n8n[w] \in Stored
      BY DEF Shape, PathShape, PathOK
    <2>1. UNCHANGED <<request, input>> /\ \A k \in Runs : Outside(k)
      BY <1>2, OtherSteps
    <2>2. \A k \in Runs : ForManaged(k)'
      <3> SUFFICES ASSUME NEW k \in Runs PROVE ForManaged(k)'
        OBVIOUS
      <3>1. Outside(k) /\ ForManaged(k)
        BY <2>1 DEF UnmanagedInv
      <3> QED BY <2>1, <3>1 DEF ForManaged, Outside, Later
    <2>3. ASSUME NEW a \in Old, ~request[a].managed PROVE Apart(a)'
      <3> DEFINE w == OldRecord[a]
      <3>0. Apart(a) /\ w \in Workflows /\ w # NoWorkflow
        BY <2>3, PathAssumption DEF UnmanagedInv
      <3>1. n8n'[w].there /\ n8n'[w].by = NoWorkflow
        <4>1. ASSUME NEW j \in Runs, NEW v \in Targets(j), At(j, "save"), n8n' = Saved(j, v)
              PROVE  n8n'[w] = n8n[w]
          <5>1. v # w
            BY <3>0, <4>1 DEF Apart, Targets
          <5> QED BY <2>0, <3>0, <4>1, <5>1 DEF Saved
        <4>2. ASSUME NEW j \in Runs, At(j, "activate"),
                     n8n' = [n8n EXCEPT ![path[j].wf].active = TRUE]
              PROVE  n8n'[w] = n8n[w]
          BY <2>0, <3>0, <4>2 DEF Apart
        <4> QED BY <1>2, <3>0, <4>1, <4>2, OtherSteps DEF Apart
      <3>2. \A k \in Runs : path'[k].wf = w => path'[k].at \in {"idle", "prepare", "match", "owner", "end"}
        BY <2>1, <3>0 DEF Outside, Apart
      <3> QED BY <2>1, <3>0, <3>1, <3>2 DEF Apart, Owners
    <2> QED BY <2>1, <2>2, <2>3 DEF UnmanagedInv
  <1> QED BY <1>1, <1>2

\* A workflow whose record is not Mastra's is never saved, for any requests, executions and
\* faults.
THEOREM UnmanagedKept == Spec => []UnmanagedUntouched
  <1>1. Init => UnmanagedInv
    BY UnmanagedInit
  <1>2. Shape /\ UnmanagedInv /\ [Next]_vars => UnmanagedInv'
    BY UnmanagedStep
  <1>3. UnmanagedInv => UnmanagedUntouched
    BY DEF UnmanagedInv, UnmanagedUntouched, Apart
  <1> QED BY <1>1, <1>2, <1>3, ShapeInvariant, PTL DEF Spec

-----------------------------------------------------------------------------
\* Nobody asks for a workflow by its id but for the old ones.
AsksForOld ==
    \A j \in Runs : \A asked \in Inputs[j] : asked.wf \in DOMAIN OldWorkflow \cup {NoWorkflow}

\* The automation an execution has recorded for its workflow, or is about to.
ClaimOf(j, a, w) ==
    /\ path[j].wf = w
    /\ \/ path[j].at \in {"save", "record", "fetch"} /\ path[j].target = a
       \/ (path[j].at \in Later \/ path[j].tested) /\ path[j].auto = a

Claimants(w) == Owners(w) \cup {a \in Autos : \E j \in Runs : ClaimOf(j, a, w)}

\* Whoever works on a created workflow works for its owner, and found it in n8n.
OneClaimant(w) ==
    /\ \A a, b \in Claimants(w) : a = b
    /\ \A j \in Runs : path[j].wf = w =>
         /\ n8n[w].there
         /\ path[j].at \notin {"idle", "prepare", "find"}
         /\ At(j, "owner") => path[j].tested
    /\ Owners(w) # {} => n8n[w].there

OwnerInv == \A w \in Workflows \ DOMAIN OldWorkflow : OneClaimant(w)

\* A step of the golden path adds no owner who was not a claimant.
LEMMA NewOwners ==
    ASSUME PathShape, UnmanagedInv, NEW j \in Runs, PathStep(j), NEW w
    PROVE  \A b \in Owners(w)' : b \in Claimants(w)
  <1> SUFFICES ASSUME NEW b \in Autos, request'[b].there, request'[b].wf = w
               PROVE  b \in Claimants(w)
    BY DEF Owners
  <1>0. /\ request \in [Autos -> Document] /\ \A c \in Autos : request[c] \in Document
        /\ path[j].auto \in Autos /\ path[j].target \in Autos
    BY DEF PathShape, PathOK, Locals
  <1>1. CASE b \in Owners(w)
    BY <1>1 DEF Claimants
  <1>2. CASE Record(j) /\ b = path[j].target
    <2>1. request'[b].wf = path[j].wf
      BY <1>0, <1>2 DEF Record, Document
    <2> QED BY <1>2, <2>1 DEF Record, Claimants, ClaimOf
  <1>3. CASE (MarkManual(j) \/ MarkTested(j)) /\ b = path[j].auto /\ request[b].there
    <2>1. request'[b].wf = path[j].wf
      BY <1>0, <1>3 DEF MarkManual, MarkTested, Marked, Document
    <2> QED BY <1>3, <2>1 DEF MarkManual, MarkTested, Claimants, ClaimOf, Later
  <1>4. CASE b \notin Owners(w)
    <2>1. ~(request'[b].there = request[b].there /\ request'[b].wf = request[b].wf)
      BY <1>4 DEF Owners
    <2>2. CASE Record(j)
      BY <1>0, <1>2, <2>1, <2>2 DEF Record
    <2>3. CASE MarkManual(j) \/ MarkTested(j)
      BY <1>0, <1>3, <2>1, <2>3 DEF MarkManual, MarkTested, Marked
    <2>4. CASE SyncWrite(j)
      BY <1>0, <2>1, <2>4, OwnerIsOwner DEF SyncWrite, Document
    <2>5. CASE MockTest(j) \/ Activated(j)
      <3>1. request[b] \in Document
        BY <1>0
      <3>2. request'[b].there = request[b].there /\ request'[b].wf = request[b].wf
        <4>1. CASE MockTest(j)
          BY <1>0, <3>1, <4>1 DEF MockTest, Document
        <4>2. CASE Activated(j)
          BY <1>0, <3>1, <4>2 DEF Activated, Document
        <4> QED BY <2>5, <4>1, <4>2
      <3> QED BY <2>1, <3>2
    <2>6. CASE UNCHANGED request
      BY <2>1, <2>6
    <2> QED BY <2>2, <2>3, <2>4, <2>5, <2>6
            DEF PathStep, Prepare, Find, CheckOwner, Save, Fetch, SyncRead, RepairFlow, Gate, Activate
  <1> QED BY <1>1, <1>4

\* So do the claims of the execution that takes the step, but for a workflow it creates.
LEMMA NewClaims ==
    ASSUME PathShape, UnmanagedInv, OwnerInv, NEW j \in Runs, PathStep(j),
           NEW w \in Workflows \ DOMAIN OldWorkflow, NEW a \in Autos, ClaimOf(j, a, w)'
    PROVE  \/ a \in Claimants(w)
           \/ /\ Save(j) /\ path[j].wf = NoWorkflow /\ w \in Targets(j) /\ a = path[j].target
              /\ ~path'[j].tested /\ path'[j].at = "record"
  <1> USE DEF ClaimOf
  <1>0. /\ path[j] \in Locals /\ LocalShape(j) /\ ForManaged(j) /\ OneClaimant(w)
        /\ w # NoWorkflow
    BY NoWorkflowIsNone DEF PathShape, PathOK, UnmanagedInv, OwnerInv
  <1>1. \A b \in Autos : ClaimOf(j, b, w) => b \in Claimants(w)
    BY DEF Claimants
  <1>2. CASE path[j].at \in {"match", "owner"} /\ path'[j].at = "save"
    <2>1. /\ ~Refused(j) /\ path[j].wf = w /\ path'[j].tested = path[j].tested
          /\ path'[j].auto = path[j].auto
          /\ path'[j].target = IF Owners(w) = {} THEN path[j].auto ELSE Owner(w)
      BY <1>0, <1>2, StepsTaken DEF Same, Later
    <2>2. path[j].tested => path[j].auto \in Claimants(w)
      BY <1>0, <1>1, <2>1 DEF Locals
    <2>3. path[j].tested \/ Owners(w) # {}
      BY <1>0, <1>2, <2>1 DEF OneClaimant, Refused
    <2>4. Owners(w) # {} => Owner(w) \in Claimants(w)
      BY OwnerIsOwner DEF Claimants, PathShape
    <2> QED BY <1>2, <2>1, <2>2, <2>3, <2>4 DEF Later
  <1>3. CASE At(j, "save")
    <2>1. /\ Save(j) /\ path'[j].at = "record" /\ w \in Targets(j) /\ Same(j, w)
      <3>1. Save(j)
        BY <1>3 DEF PathStep, Prepare, Find, CheckOwner, Save, Record, Fetch, SyncRead, SyncWrite,
                 MockTest, RepairFlow, MarkManual, MarkTested, Gate, Activate, Activated
      <3> QED BY <1>0, <1>3, <3>1, StepsTaken DEF Same, Later
    <2>2. CASE path[j].wf = NoWorkflow
      BY <1>0, <2>1, <2>2 DEF Same, ForManaged, Later
    <2>3. CASE path[j].wf # NoWorkflow
      <3>1. path[j].wf = w
        BY <2>1, <2>3 DEF Targets
      <3> QED BY <1>1, <1>3, <2>1, <3>1 DEF Same, Later
    <2> QED BY <2>2, <2>3
  <1>4. CASE At(j, "record") \/ At(j, "fetch")
    BY <1>0, <1>1, <1>4, StepsTaken DEF Same, Later
  <1>5. CASE path[j].at \in Later
    BY <1>0, <1>1, <1>5, StepsTaken DEF Same, Later
  <1>6. CASE path[j].at \in {"prepare", "find"}
    BY <1>0, <1>6, StepsTaken DEF Same, Later, ForManaged, OneClaimant
  <1>7. CASE path[j].at \in {"match", "owner"} /\ path'[j].at # "save"
    BY <1>0, <1>7, StepsTaken DEF Same, Later
  <1>8. path[j].at \notin {"idle", "end"}
    BY OthersStay
  <1> QED BY <1>0, <1>2, <1>3, <1>4, <1>5, <1>6, <1>7, <1>8 DEF Locals, Steps, Later

\* A step of the golden path keeps the one claimant.
LEMMA PathStepOwner ==
    ASSUME PathShape, UnmanagedInv, OwnerInv, AsksForOld, NEW j \in Runs, PathStep(j)
    PROVE  OwnerInv'
  <1> SUFFICES ASSUME NEW w \in Workflows \ DOMAIN OldWorkflow PROVE OneClaimant(w)'
    BY DEF OwnerInv
  <1>0. /\ OneClaimant(w) /\ path[j] \in Locals /\ w # NoWorkflow
        /\ n8n \in [Workflows -> Stored] /\ n8n[w] \in Stored
        /\ \A k \in Runs \ {j} : path'[k] = path[k]
        /\ UNCHANGED input
    BY OthersStay, PathStepStores, NoWorkflowIsNone DEF OwnerInv, PathShape, PathOK
  <1>1. \A b \in Owners(w)' : b \in Claimants(w)
    BY NewOwners
  <1>2. \A k \in Runs \ {j} : \A b \in Autos : ClaimOf(k, b, w)' => b \in Claimants(w)
    BY <1>0 DEF ClaimOf, Claimants
  <1>3. n8n[w].there => n8n'[w].there
    <2>1. CASE Save(j)
      BY <1>0, <2>1 DEF Save, Saved, Targets
    <2>2. CASE Activate(j)
      BY <1>0, <2>2 DEF Activate, Stored
    <2>3. CASE UNCHANGED n8n
      BY <2>3
    <2> QED BY <2>1, <2>2, <2>3
            DEF PathStep, Prepare, Find, CheckOwner, Record, Fetch, SyncRead, SyncWrite,
                MockTest, RepairFlow, MarkManual, MarkTested, Gate, Activated
  <1>4. CASE Save(j) /\ path[j].wf = NoWorkflow /\ w \in Targets(j) /\ path'[j].wf = w
    <2>1. ~n8n[w].there
      BY <1>4 DEF Targets
    <2>2. Claimants(w) = {} /\ \A k \in Runs : path[k].wf # w
      BY <1>0, <2>1 DEF OneClaimant, Claimants, ClaimOf
    <2>3. \A b \in Claimants(w)' : b = path[j].target
      BY <1>1, <1>2, <2>2, NewClaims DEF Claimants
    <2>4. n8n'[w].there /\ path'[j].at = "record"
      <3>1. path \in [Runs -> Locals] /\ path'[j].at # "end"
        BY <1>0, <1>4, StepsTaken DEF PathShape, PathOK, Save, Same, Later
      <3>2. PICK v \in Targets(j) : /\ n8n' = Saved(j, v)
                                   /\ path' = [path EXCEPT ![j].at = "record", ![j].wf = v]
        BY <1>0, <1>4, <3>1 DEF Save, Fresh
      <3>3. path'[j].wf = v /\ path'[j].at = "record"
        BY <1>0, <3>1, <3>2 DEF Locals
      <3> QED BY <1>0, <1>4, <3>2, <3>3 DEF Saved
    <2> QED BY <1>0, <2>2, <2>3, <2>4 DEF OneClaimant
  <1>5. CASE ~(Save(j) /\ path[j].wf = NoWorkflow /\ w \in Targets(j) /\ path'[j].wf = w)
    <2>1. \A b \in Autos : ClaimOf(j, b, w)' => b \in Claimants(w)
      BY <1>5, NewClaims DEF ClaimOf
    <2>2. \A b \in Claimants(w)' : b \in Claimants(w)
      BY <1>1, <1>2, <2>1 DEF Claimants
    <2>3. \A a, b \in Claimants(w)' : a = b
      BY <1>0, <2>2 DEF OneClaimant
    <2>4. Owners(w)' # {} => n8n'[w].there
      <3>1. Claimants(w) # {} => n8n[w].there
        BY <1>0 DEF OneClaimant, Claimants, ClaimOf
      <3> QED BY <1>1, <1>3, <3>1
    <2>5. path'[j].wf = w =>
            /\ n8n'[w].there
            /\ path'[j].at \notin {"idle", "prepare", "find"}
            /\ path'[j].at = "owner" => path'[j].tested
      <3> SUFFICES ASSUME path'[j].wf = w
                   PROVE  /\ n8n'[w].there
                          /\ path'[j].at \notin {"idle", "prepare", "find"}
                          /\ path'[j].at = "owner" => path'[j].tested
        OBVIOUS
      <3>1. path'[j].at \notin {"idle", "prepare", "find"}
        BY <1>0, StepsTaken DEF Same, Later
      <3>2. n8n[w].there
        <4>1. CASE path[j].wf = w
          BY <1>0, <4>1 DEF OneClaimant
        <4>2. CASE path[j].wf # w
          <5>1. \/ At(j, "find") /\ n8n[w].there
                \/ At(j, "save") /\ w \in Targets(j)
            BY <1>0, <4>2, StepsTaken DEF Same, Later
          <5>2. At(j, "save") => Save(j)
            BY DEF PathStep, Prepare, Find, CheckOwner, Save, Record, Fetch, SyncRead, SyncWrite,
                   MockTest, RepairFlow, MarkManual, MarkTested, Gate, Activate, Activated
          <5> QED BY <1>5, <4>2, <5>1, <5>2 DEF Targets
        <4> QED BY <4>1, <4>2
      <3>3. path'[j].at = "owner" => path'[j].tested
        <4>1. CASE At(j, "prepare")
          BY <1>0, <4>1, StepsTaken DEF Same, Later, OneClaimant
        <4>2. CASE At(j, "repair")
          <5>1. path[j].tested
            BY <4>2 DEF UnmanagedInv, ForManaged
          <5> QED BY <4>2, <5>1, StepsTaken DEF Same, Later
        <4>3. CASE path[j].at \notin {"prepare", "repair"}
          BY <1>0, <4>3, StepsTaken DEF Same, Later, Locals
        <4> QED BY <4>1, <4>2, <4>3
      <3> QED BY <1>3, <3>1, <3>2, <3>3
    <2> QED BY <1>0, <1>3, <2>3, <2>4, <2>5 DEF OneClaimant
  <1> QED BY <1>4, <1>5

\* When nobody names a workflow of n8n that he did not get from before, every workflow the
\* golden path created has at most one owner, however executions race for its name.
THEOREM OneOwner ==
    ASSUME AsksForOld
    PROVE  Spec => []CreatedHasOneOwner
  <1>1. Init => UnmanagedInv /\ OwnerInv
    <2> SUFFICES ASSUME Init PROVE UnmanagedInv /\ OwnerInv
      OBVIOUS
    <2>1. \A j \in Runs : path[j].wf = NoWorkflow
      BY DEF Init, InitPath, Fresh
    <2>2. \A a \in Autos : request[a].there => a \in Old /\ request[a].wf = OldRecord[a]
      BY DEF Init, InitPath
    <2>4. UnmanagedInv
      BY UnmanagedInit
    <2>5. \A w \in Workflows \ DOMAIN OldWorkflow : Owners(w) = {}
      BY <2>2, PathAssumption DEF Owners
    <2>6. \A w \in Workflows \ DOMAIN OldWorkflow : Claimants(w) = {}
      BY <2>1, <2>5, NoWorkflowIsNone DEF Claimants, ClaimOf
    <2>7. OwnerInv
      BY <2>1, <2>5, <2>6, NoWorkflowIsNone DEF OwnerInv, OneClaimant
    <2> QED BY <2>4, <2>7
  <1>2. Shape /\ UnmanagedInv /\ OwnerInv /\ [Next]_vars => OwnerInv'
    <2> SUFFICES ASSUME Shape, UnmanagedInv, OwnerInv, [Next]_vars PROVE OwnerInv'
      OBVIOUS
    <2>1. CASE \E j \in Runs : PathStep(j)
      BY <2>1, PathStepOwner DEF Shape
    <2>2. CASE \A j \in Runs : ~PathStep(j)
      <3> SUFFICES ASSUME NEW w \in Workflows \ DOMAIN OldWorkflow PROVE OneClaimant(w)'
        BY DEF OwnerInv
      <3>0. /\ OneClaimant(w) /\ w # NoWorkflow /\ n8n \in [Workflows -> Stored]
            /\ n8n[w] \in Stored
        BY NoWorkflowIsNone DEF OwnerInv, Shape, PathShape, PathOK
      <3>1. UNCHANGED <<request, input>> /\ \A k \in Runs : Outside(k)
        BY <2>2, OtherSteps
      <3>2. n8n[w].there => n8n'[w].there
        <4>1. ASSUME NEW j \in Runs, NEW v \in Targets(j), n8n' = Saved(j, v)
              PROVE  n8n[w].there => n8n'[w].there
          BY <3>0, <4>1 DEF Saved
        <4>2. ASSUME NEW j \in Runs, n8n' = [n8n EXCEPT ![path[j].wf].active = TRUE]
              PROVE  n8n[w].there => n8n'[w].there
          BY <3>0, <4>2 DEF Stored
        <4> QED BY <2>2, <4>1, <4>2, OtherSteps
      <3>3. \A k \in Runs : input[k].wf # w
        BY PathAssumption, <3>0 DEF Shape, PathShape, PathOK, Asks, AsksForOld
      <3>4. \A k \in Runs : path'[k].wf = w => path'[k] = path[k]
        BY <3>0, <3>1, <3>3 DEF Outside
      <3>5. Claimants(w)' \subseteq Claimants(w)
        BY <3>1, <3>4 DEF Claimants, ClaimOf, Owners
      <3>6. Owners(w)' = Owners(w)
        BY <3>1 DEF Owners
      <3> QED BY <3>0, <3>2, <3>4, <3>5, <3>6 DEF OneClaimant
    <2> QED BY <2>1, <2>2
  <1>3. OwnerInv => CreatedHasOneOwner
    <2> SUFFICES ASSUME OwnerInv, NEW w \in Workflows \ DOMAIN OldWorkflow
                 PROVE  Cardinality(Owners(w)) <= 1
      BY DEF CreatedHasOneOwner
    <2>1. \A a, b \in Owners(w) : a = b
      BY DEF OwnerInv, OneClaimant, Claimants
    <2>2. CASE Owners(w) = {}
      BY <2>2, FS_EmptySet
    <2>3. CASE Owners(w) # {}
      <3>1. PICK a \in Owners(w) : TRUE
        BY <2>3
      <3>2. Owners(w) = {a}
        BY <2>1, <3>1
      <3>3. Cardinality({a}) = 1
        BY FS_Singleton
      <3> QED BY <3>2, <3>3
    <2> QED BY <2>2, <2>3
  <1>4. Shape /\ UnmanagedInv /\ [Next]_vars => UnmanagedInv'
    BY UnmanagedStep
  <1> QED BY <1>1, <1>2, <1>3, <1>4, ShapeInvariant, PTL DEF Spec
=============================================================================
