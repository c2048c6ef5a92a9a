---------------------------- MODULE SemanticMemory ----------------------------
(***************************************************************************)
(* services/semantic-memory-worker.ts and the memory part of               *)
(* services/coding-precontext.ts.  After a turn a worker looks for the     *)
(* memories that belong to what was said and leaves them as a pending      *)
(* context; the next turn of the thread, or of the task, takes it.  A      *)
(* ledger of what was injected keeps a memory from being shown twice.      *)
(* Every step ends with an await; turns and workers run side by side.  The *)
(* contexts live for a day, longer than anything here.                     *)
(***************************************************************************)
EXTENDS Integers, Sequences, FiniteSets

CONSTANTS
    Turns,          \* turns of agents, each with its worker
    Memories,       \* entries of system_knowledge
    Thread,         \* turn -> thread
    CodeTask,       \* turn -> task, or NoTask
    NoTask,
    TopK,           \* memories a worker keeps
    PromptItems,    \* memories of them in the prompt
    RecallItems     \* memories recalled when nothing is pending

\* The turns of a task run in the thread that has the name of the task; of a hunt, in one
\* that is named after it. A turn without a task may be in any thread.
ASSUME TaskHasOneThread ==
    \A t, u \in Turns :
        CodeTask[t] # NoTask /\ CodeTask[t] = CodeTask[u] => Thread[t] = Thread[u]

VARIABLES
    doc,            \* pending_memory_context: turn whose worker made it -> status and content
    computed,       \* those turns in the order of computedAt
    ledger,         \* injected_memory_context
    ctx,            \* turn -> step of its context
    worker,         \* turn -> step of its worker
    inPrompt,       \* history: turn -> memories in its prompt
    overlap         \* history: pairs of turns whose contexts were built at the same time

memVars == <<doc, computed, ledger, ctx, worker, inPrompt, overlap>>

NothingPending == [status |-> "none", ids |-> {}, prompt |-> {}]
NoContext == [step |-> "none", from |-> {}, ids |-> {}]

InitMemory ==
    /\ doc = [t \in Turns |-> NothingPending]
    /\ computed = <<>>
    /\ ledger = {}
    /\ ctx = [t \in Turns |-> NoContext]
    /\ worker = [t \in Turns |-> [step |-> "none", ids |-> {}]]
    /\ inPrompt = [t \in Turns |-> {}]
    /\ overlap = {}

\* scopeClauses: the same thread, or the same task where there is one.
SameScope(t, u) ==
    \/ Thread[t] = Thread[u]
    \/ CodeTask[t] # NoTask /\ CodeTask[t] = CodeTask[u]

Injected(t) ==
    {entry.memory : entry \in {e \in ledger :
        \/ e.thread = Thread[t]
        \/ CodeTask[t] # NoTask /\ e.task = CodeTask[t]}}

\* filterPreviouslyInjectedMemoryIds
Fresh(t, ids) == ids \ Injected(t)

\* recordInjectedMemoryContext: an upsert per memory that keeps the entry of its thread.
Inject(t, ids) ==
    ledger' = ledger \cup
        {[thread |-> Thread[t], task |-> CodeTask[t], memory |-> m] :
            m \in {m \in ids : \A e \in ledger : e.thread = Thread[t] => e.memory # m}}

PendingDocs(t) == {u \in Turns : doc[u].status = "pending" /\ SameScope(t, u)}

IndexOf(u) == CHOOSE i \in 1..Len(computed) : computed[i] = u

\* The pending context of the scope that was computed last, if there is one.
NewestPending(t) ==
    {u \in PendingDocs(t) : \A v \in PendingDocs(t) : IndexOf(v) <= IndexOf(u)}

BuildingContext == {t \in Turns : ctx[t].step \notin {"none", "ready"}}

Step(t, step) == ctx' = [ctx EXCEPT ![t].step = step]

-----------------------------------------------------------------------------
(* The context of a turn.                                                   *)

StartContext(t, isAsync) ==
    /\ ctx[t].step = "none"
    /\ Step(t, IF isAsync THEN "find" ELSE "recall")
    /\ overlap' = overlap \cup {{t, u} : u \in BuildingContext}
    /\ UNCHANGED <<doc, computed, ledger, worker, inPrompt>>

FindPending(t) ==
    /\ ctx[t].step = "find"
    /\ ctx' = [ctx EXCEPT
                ![t].step = IF NewestPending(t) = {} THEN "recall" ELSE "filter",
                ![t].from = NewestPending(t)]
    /\ UNCHANGED <<doc, computed, ledger, worker, inPrompt, overlap>>

\* Mutant: what was injected since the context was computed is not looked at.
FilterNothing(t) ==
    /\ ctx[t].step = "filter"
    /\ Step(t, "consume")
    /\ UNCHANGED <<doc, computed, ledger, worker, inPrompt, overlap>>

\* One memory that is not fresh suppresses the whole context.
FilterPending(t) ==
    /\ ctx[t].step = "filter"
    /\ \E u \in ctx[t].from :
        Step(t, IF Fresh(t, doc[u].ids) = doc[u].ids THEN "consume" ELSE "suppress")
    /\ UNCHANGED <<doc, computed, ledger, worker, inPrompt, overlap>>

SettlePending(t) ==
    /\ ctx[t].step \in {"consume", "suppress"}
    /\ \E u \in ctx[t].from :
        doc' = [doc EXCEPT ![u].status =
                    IF ctx[t].step = "consume" THEN "consumed" ELSE "suppressed"]
    /\ Step(t, IF ctx[t].step = "consume" THEN "inject" ELSE "recall")
    /\ UNCHANGED <<computed, ledger, worker, inPrompt, overlap>>

\* All of its memories are noted, and those of its prompt shown.
InjectPending(t) ==
    /\ ctx[t].step = "inject"
    /\ \E u \in ctx[t].from :
        /\ Inject(t, doc[u].ids)
        /\ inPrompt' = [inPrompt EXCEPT ![t] = doc[u].prompt]
    /\ Step(t, "ready")
    /\ UNCHANGED <<doc, computed, worker, overlap>>

\* recallKnowledge with its timeout: what it finds, or nothing.
RecallMemory(t, isAsync) ==
    /\ ctx[t].step = "recall"
    /\ \E ids \in SUBSET Memories :
        /\ Cardinality(ids) <= RecallItems
        /\ ctx' = [ctx EXCEPT
                    ![t].step = IF isAsync /\ ids # {} THEN "dedupe" ELSE "ready",
                    ![t].ids = ids]
        /\ inPrompt' = [inPrompt EXCEPT ![t] = IF isAsync THEN {} ELSE ids]
    /\ UNCHANGED <<doc, computed, ledger, worker, overlap>>

\* A context without memories.
NoMemory(t) ==
    /\ ctx[t].step = "recall"
    /\ Step(t, "ready")
    /\ UNCHANGED <<doc, computed, ledger, worker, inPrompt, overlap>>

FilterRecall(t) ==
    /\ ctx[t].step = "dedupe"
    /\ LET ids == Fresh(t, ctx[t].ids) IN
        ctx' = [ctx EXCEPT ![t].step = IF ids = {} THEN "ready" ELSE "note", ![t].ids = ids]
    /\ UNCHANGED <<doc, computed, ledger, worker, inPrompt, overlap>>

\* recordSyncFallbackInjection
NoteRecall(t) ==
    /\ ctx[t].step = "note"
    /\ Inject(t, ctx[t].ids)
    /\ inPrompt' = [inPrompt EXCEPT ![t] = ctx[t].ids]
    /\ Step(t, "ready")
    /\ UNCHANGED <<doc, computed, worker, overlap>>

\* The database throws: without the pending context the memories are recalled, without
\* the ledger all of them are inPrompt, and an entry that is not written is nobody's concern.
ContextFails(t) ==
    \/ /\ ctx[t].step \in {"find", "filter", "consume", "suppress", "inject"}
       /\ Step(t, "recall")
       /\ UNCHANGED <<doc, computed, ledger, worker, inPrompt, overlap>>
    \/ /\ ctx[t].step = "dedupe"
       /\ Step(t, "note")
       /\ UNCHANGED <<doc, computed, ledger, worker, inPrompt, overlap>>
    \/ /\ ctx[t].step \in {"inject", "note"}
       /\ inPrompt' = [inPrompt EXCEPT ![t] =
                IF ctx[t].step = "note" THEN ctx[t].ids
                ELSE UNION {doc[u].prompt : u \in ctx[t].from}]
       /\ Step(t, "ready")
       /\ UNCHANGED <<doc, computed, ledger, worker, overlap>>

ContextStep(t, isAsync) ==
    \/ FindPending(t)
    \/ FilterPending(t)
    \/ SettlePending(t)
    \/ InjectPending(t)
    \/ RecallMemory(t, isAsync)
    \/ FilterRecall(t)
    \/ NoteRecall(t)

-----------------------------------------------------------------------------
(* The worker after a turn.                                                 *)

WorkerMoves(t, from, to, ids) ==
    /\ worker[t].step = from
    /\ worker' = [worker EXCEPT ![t] = [step |-> to, ids |-> ids]]
    /\ UNCHANGED <<ledger, ctx, inPrompt, overlap>>

\* The candidates are scored and the best of them kept; computedAt is read before.
Score(t) ==
    /\ \E ids \in SUBSET Memories :
        /\ Cardinality(ids) <= TopK
        /\ WorkerMoves(t, "score", IF ids = {} THEN "over" ELSE "fresh", ids)
    /\ computed' = Append(computed, t)
    /\ UNCHANGED doc

DropInjected(t) ==
    /\ LET ids == Fresh(t, worker[t].ids)
       IN  WorkerMoves(t, "fresh", IF ids = {} THEN "over" ELSE "compare", ids)
    /\ UNCHANGED <<doc, computed>>

\* pendingOverlapRatio: 0.8 of the new context or more are pending already.
Overlaps(t) ==
    \E u \in NewestPending(t) :
        10 * Cardinality(worker[t].ids \cap doc[u].ids) >= 8 * Cardinality(worker[t].ids)

ComparePending(t) ==
    /\ WorkerMoves(t, "compare", IF Overlaps(t) THEN "over" ELSE "stale", worker[t].ids)
    /\ UNCHANGED <<doc, computed>>

StaleExisting(t) ==
    /\ WorkerMoves(t, "stale", "insert", worker[t].ids)
    /\ doc' = [u \in Turns |->
                IF u \in PendingDocs(t) THEN [doc[u] EXCEPT !.status = "stale"] ELSE doc[u]]
    /\ UNCHANGED computed

\* Of the memories it names the prompt has the best PromptItems.
InsertPending(t) ==
    /\ WorkerMoves(t, "insert", "over", {})
    /\ \E prompt \in SUBSET worker[t].ids :
        /\ Cardinality(prompt) =
                IF Cardinality(worker[t].ids) < PromptItems
                THEN Cardinality(worker[t].ids) ELSE PromptItems
        /\ doc' = [doc EXCEPT ![t] =
                [status |-> "pending", ids |-> worker[t].ids, prompt |-> prompt]]
    /\ UNCHANGED computed

\* The embedder or the database throws: the worker ends with an event.
WorkerFails(t) ==
    /\ worker[t].step \notin {"none", "over"}
    /\ WorkerMoves(t, worker[t].step, "over", {})
    /\ UNCHANGED <<doc, computed>>

WorkerStep(t) ==
    \/ Score(t)
    \/ DropInjected(t)
    \/ ComparePending(t)
    \/ StaleExisting(t)
    \/ InsertPending(t)

\* The server goes, with the contexts and the workers in progress.
LoseMemory ==
    /\ ctx' = [t \in Turns |->
            IF t \in BuildingContext THEN [NoContext EXCEPT !.step = "ready"] ELSE ctx[t]]
    /\ worker' = [t \in Turns |->
            IF worker[t].step = "none" THEN worker[t] ELSE [step |-> "over", ids |-> {}]]
    /\ UNCHANGED <<doc, computed, ledger, inPrompt, overlap>>
=============================================================================
