------------------------------ MODULE SmartRouter ------------------------------
(***************************************************************************)
(* How a model is found for a subtask: config/model-capabilities.ts, the   *)
(* selection of services/smart-router.ts, what services/gpu-guard.ts says  *)
(* of the card, and the two ways in which services/subtask-executor.ts     *)
(* leaves the router's choice, to a fallback and to a stronger model.      *)
(***************************************************************************)
EXTENDS Integers, Sequences, FiniteSets

CONSTANTS
    Registry,               \* modelRegistry; a model is its place in it
    VRAM_BUDGET_MB,         \* the planning budget
    criticalThresholdMb,
    DailyLimit              \* OPENROUTER_DAILY_LIMIT, none if 0

\* ModelTier, in the order of ESCALATION_PATH: local-micro, -light and -heavy, cloud-free,
\* -fast and -pro.  A tier's path is made of all that follow it.
Tiers == 1 .. 6
LocalHeavy == 3
CloudFree == 4

\* trivial, simple, moderate, complex
Levels == 0 .. 3

ModelCapability ==
    [tier : Tiers, maxComplexity : Levels, vramMb : Nat, costPerCall : Nat, avgLatencyMs : Nat]

\* The executor tells a local model by its id, the router by its memory; they agree.
ASSUME RouterAssumption ==
    /\ Registry \in Seq(ModelCapability)
    /\ \A m \in DOMAIN Registry : Registry[m].vramMb > 0 <=> Registry[m].tier <= LocalHeavy
    /\ VRAM_BUDGET_MB \in Nat
    /\ criticalThresholdMb \in Nat
    /\ DailyLimit \in Nat

Models == DOMAIN Registry
NoModel == 0

Local(m) == Registry[m].vramMb > 0
Free(m) == Registry[m].tier = CloudFree
Capable(m, level) == Registry[m].maxComplexity >= level

\* Array.find on the registry.
IsFirst(m, S) == m \in S /\ \A n \in S : m <= n

-----------------------------------------------------------------------------
(* gpu-guard: a snapshot of the card                                        *)

Snapshot == [gpuAvailable : BOOLEAN, availableForModelsMb : Nat]

\* No card, or nvidia-smi has failed.
NoCard == [gpuAvailable |-> FALSE, availableForModelsMb |-> 0]

canLoadModel(vram, card) ==
    /\ card.gpuAvailable
    /\ card.availableForModelsMb >= criticalThresholdMb
    /\ vram <= card.availableForModelsMb

\* The budget of VramBudgetTracker: the smaller of the planned and the live one.
budgetMb(card) ==
    IF card.availableForModelsMb < VRAM_BUDGET_MB THEN card.availableForModelsMb
                                                  ELSE VRAM_BUDGET_MB

canFit(m, usedVramMb, card) == usedVramMb + Registry[m].vramMb <= budgetMb(card)

-----------------------------------------------------------------------------
(* selectModel                                                              *)

\* Local ones first, then by cost and latency; the sort is stable.
Before(m, n) ==
    LET a == Registry[m]
        b == Registry[n]
    IN \/ Local(m) /\ ~Local(n)
       \/ /\ Local(m) <=> Local(n)
          /\ \/ a.costPerCall < b.costPerCall
             \/ a.costPerCall = b.costPerCall /\ a.avgLatencyMs < b.avgLatencyMs
             \/ a.costPerCall = b.costPerCall /\ a.avgLatencyMs = b.avgLatencyMs /\ m < n

\* Those whose circuit is looked at.
Considered(level, card, available) ==
    {m \in available : Capable(m, level) /\ (Local(m) => card.gpuAvailable)}

\* Candidates, without the local ones there is no room for.
Usable(level, card, usedVramMb, available, open, over) ==
    {m \in Considered(level, card, available) :
        /\ m \notin open
        /\ Free(m) => ~over
        /\ Local(m) => canFit(m, usedVramMb, card) /\ canLoadModel(Registry[m].vramMb, card)}

Cloud(available) == {m \in available : ~Local(m)}

\* m is the first of the sorted candidates that can be used, or the absolute fallback.
Selects(m, usable, available) ==
    IF usable # {}
    THEN m \in usable /\ \A n \in usable \ {m} : Before(m, n)
    ELSE IsFirst(m, Cloud(available))

-----------------------------------------------------------------------------
(* subtask-executor: another model than the router's                        *)

\* Mutant: the card is not asked.
FallbacksNoGuard(m, available, card) ==
    IF Local(m) THEN Cloud(available) ELSE {n \in available : Local(n)}

\* findOfflineFallback takes the first of these, whatever it is capable of.
Fallbacks(m, available, card) ==
    IF Local(m)
    THEN Cloud(available)
    ELSE {n \in available :
            /\ card.gpuAvailable
            /\ Local(n)
            /\ Registry[n].vramMb <= card.availableForModelsMb}

\* What getEscalationModel finds on the path of m's tier.
Stronger(m, level, available) ==
    {n \in available \ {m} : Registry[n].tier > Registry[m].tier /\ Capable(n, level)}

\* It takes the first of the lowest tier.
Escalates(n, S) ==
    /\ n \in S
    /\ \A o \in S : \/ Registry[n].tier < Registry[o].tier
                    \/ Registry[n].tier = Registry[o].tier /\ n <= o
=============================================================================
