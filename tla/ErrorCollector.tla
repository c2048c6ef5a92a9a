--------------------------- MODULE ErrorCollector ---------------------------
(***************************************************************************)
(* services/error-collector.ts: runtime errors become healing tickets, a   *)
(* ticket starts a repo-maintenance run.  Every server process has its own *)
(* collector (self-protection flag, cooldown); the tickets are in the one  *)
(* database they share, the Live and the staging server alike.  A report   *)
(* awaits the database three times, a run outlives the call that started   *)
(* it, and the ticket is marked in_progress only when the run returns.     *)
(***************************************************************************)
EXTENDS Integers, FiniteSets, TLC

CONSTANTS
    Procs,          \* server processes that share the database
    Sigs,           \* signatures of errors
    MaxTickets,     \* bound: tickets ever created
    MaxRestarts,    \* bound: restarts of processes
    MaxActive,      \* ERROR_COLLECTOR_MAX_ACTIVE
    None,           \* no signature, no process
    SlowMark        \* may the update to in_progress outlast a human's answer

ASSUME CollectorAssumption ==
    /\ IsFiniteSet(Procs)
    /\ MaxTickets \in Nat
    /\ MaxRestarts \in Nat
    /\ MaxActive \in Nat \ {0}
    /\ SlowMark \in BOOLEAN
    /\ None \notin Sigs \cup Procs

VARIABLES
    report,         \* process -> await its report is at and the error's signature
    cooling,        \* processes within COOLDOWN_MS of their last trigger
    status,         \* ticket -> status, "none" before insertion and after its TTL
    sig,            \* ticket -> errorSignature
    nextTicket,
    run,            \* ticket -> state of its workflow run
    owner,          \* ticket -> process whose collector started the run
    resumer,        \* ticket -> process that executes the resumed run
    toMark,         \* tickets whose run returned, not yet marked in_progress
    restarts

reportVars == <<report, cooling>>
ticketVars == <<status, sig, nextTicket>>
runVars == <<run, owner, resumer, toMark>>
collectorVars == <<reportVars, ticketVars, runVars, restarts>>

Ticket == 1..MaxTickets
Status == {"none", "pending", "in_progress", "resolved", "failed"}

ActiveStatus == {"pending", "in_progress"}
Active == {t \in Ticket : status[t] \in ActiveStatus}

NoReport == [step |-> "idle", sig |-> None]

CollectorTypeOK ==
    /\ report \in [Procs -> [step : {"idle", "find", "count", "insert"}, sig : Sigs \cup {None}]]
    /\ cooling \subseteq Procs
    /\ status \in [Ticket -> Status]
    /\ sig \in [Ticket -> Sigs \cup {None}]
    /\ nextTicket \in 1..(MaxTickets + 1)
    /\ run \in [Ticket -> {"none", "running", "suspended", "resumed", "over"}]
    /\ owner \in [Ticket -> Procs \cup {None}]
    /\ resumer \in [Ticket -> Procs \cup {None}]
    /\ toMark \subseteq Ticket
    /\ restarts \in 0..MaxRestarts

CollectorInit ==
    /\ report = [p \in Procs |-> NoReport]
    /\ cooling = {}
    /\ status = [t \in Ticket |-> "none"]
    /\ sig = [t \in Ticket |-> None]
    /\ nextTicket = 1
    /\ run = [t \in Ticket |-> "none"]
    /\ owner = [t \in Ticket |-> None]
    /\ resumer = [t \in Ticket |-> None]
    /\ toMark = {}
    /\ restarts = 0

\* Mutant: the update inserts the ticket it does not find.
SetStatusUpserts(t, s) == status' = [status EXCEPT ![t] = s]

\* updateOne({ ticketId }, ...): whatever the status was, but nothing is inserted.
SetStatus(t, s) == status' = [status EXCEPT ![t] = IF @ = "none" THEN @ ELSE s]

-----------------------------------------------------------------------------
(* reportError: self-protection lets one report at a time into a process,   *)
(* whoever reports meanwhile is turned away.                                *)

At(p, step) == report[p].step = step

\* The report goes on, or returns with a reason and no ticket.
Go(p, ends, step) ==
    report' = [report EXCEPT ![p] = IF ends THEN NoReport ELSE [@ EXCEPT !.step = step]]

Report(p, s) ==
    /\ At(p, "idle")
    /\ p \notin cooling
    /\ report' = [report EXCEPT ![p] = [step |-> "find", sig |-> s]]
    /\ UNCHANGED <<cooling, ticketVars, runVars, restarts>>

Duplicate(s) == \E t \in Active : sig[t] = s

FindDuplicate(p) ==
    /\ At(p, "find")
    /\ Go(p, Duplicate(report[p].sig), "count")
    /\ UNCHANGED <<cooling, ticketVars, runVars, restarts>>

\* Mutant: one ticket too many.
LimitExceeded == Cardinality(Active) > MaxActive

LimitReached == Cardinality(Active) >= MaxActive

CountActive(p) ==
    /\ At(p, "count")
    /\ Go(p, LimitReached, "insert")
    /\ UNCHANGED <<cooling, ticketVars, runVars, restarts>>

\* The ticket is inserted, the cooldown starts and so does _triggerWorkflow, which
\* nobody awaits.
InsertTicket(p) ==
    /\ At(p, "insert")
    /\ nextTicket \in Ticket
    /\ status' = [status EXCEPT ![nextTicket] = "pending"]
    /\ sig' = [sig EXCEPT ![nextTicket] = report[p].sig]
    /\ nextTicket' = nextTicket + 1
    /\ cooling' = cooling \cup {p}
    /\ run' = [run EXCEPT ![nextTicket] = "running"]
    /\ owner' = [owner EXCEPT ![nextTicket] = p]
    /\ report' = [report EXCEPT ![p] = NoReport]
    /\ UNCHANGED <<resumer, toMark, restarts>>

\* One of the database calls throws: the report is over, caught and logged.
ReportFails(p) ==
    /\ ~At(p, "idle")
    /\ report' = [report EXCEPT ![p] = NoReport]
    /\ UNCHANGED <<cooling, ticketVars, runVars, restarts>>

CooldownEnds(p) ==
    /\ p \in cooling
    /\ cooling' = cooling \ {p}
    /\ UNCHANGED <<report, ticketVars, runVars, restarts>>

-----------------------------------------------------------------------------
(* _triggerWorkflow and the life of the run                                 *)

\* createRun or start throws.
TriggerFails(t) ==
    /\ run[t] = "running"
    /\ run' = [run EXCEPT ![t] = "over"]
    /\ SetStatus(t, "failed")
    /\ UNCHANGED <<reportVars, sig, nextTicket, owner, resumer, toMark, restarts>>

\* run.start returns when the run suspends, ends or fails in a step.
RunReturns(t) ==
    /\ run[t] = "running"
    /\ \E s \in {"suspended", "over"} : run' = [run EXCEPT ![t] = s]
    /\ toMark' = toMark \cup {t}
    /\ UNCHANGED <<reportVars, ticketVars, owner, resumer, restarts>>

MarkInProgress(t) ==
    /\ t \in toMark
    /\ toMark' = toMark \ {t}
    /\ SetStatus(t, "in_progress")
    /\ UNCHANGED <<reportVars, sig, nextTicket, run, owner, resumer, restarts>>

\* The update throws; the catch block's own update, of a suspended run's ticket
\* too, says failed.
MarkFails(t) ==
    /\ t \in toMark
    /\ toMark' = toMark \ {t}
    /\ SetStatus(t, "failed")
    /\ UNCHANGED <<reportVars, sig, nextTicket, run, owner, resumer, restarts>>

Answerable(t) == run[t] = "suspended" /\ (SlowMark \/ t \notin toMark)

\* A human answers the suspended run through some server.
Resume(t, p) ==
    /\ Answerable(t)
    /\ run' = [run EXCEPT ![t] = "resumed"]
    /\ resumer' = [resumer EXCEPT ![t] = p]
    /\ UNCHANGED <<reportVars, ticketVars, owner, toMark, restarts>>

Over(t) ==
    /\ run[t] = "resumed"
    /\ run' = [run EXCEPT ![t] = "over"]
    /\ resumer' = [resumer EXCEPT ![t] = None]

\* The run ends without a healthy deployment: the ticket stays as it is.
RunEnds(t) ==
    /\ Over(t)
    /\ UNCHANGED <<reportVars, ticketVars, owner, toMark, restarts>>

\* deploy-and-verify found the deployment healthy: resolveTicket.
Resolve(t) ==
    /\ Over(t)
    /\ SetStatus(t, "resolved")
    /\ UNCHANGED <<reportVars, sig, nextTicket, owner, toMark, restarts>>

-----------------------------------------------------------------------------
(* The surroundings                                                         *)

\* The TTL index of the database; cleanupExpired itself is never called.
Expire(t) ==
    /\ status[t] # "none"
    /\ status' = [status EXCEPT ![t] = "none"]
    /\ UNCHANGED <<reportVars, sig, nextTicket, runVars, restarts>>

\* A process restarts: its report, its cooldown, the runs executing in it and the
\* marks it was about to make are gone.  Suspended runs are in the database.
RestartProcess(p) ==
    /\ restarts < MaxRestarts
    /\ restarts' = restarts + 1
    /\ report' = [report EXCEPT ![p] = NoReport]
    /\ cooling' = cooling \ {p}
    /\ run' = [t \in Ticket |->
                IF \/ run[t] = "running" /\ owner[t] = p
                   \/ run[t] = "resumed" /\ resumer[t] = p
                THEN "over" ELSE run[t]]
    /\ resumer' = [t \in Ticket |-> IF resumer[t] = p THEN None ELSE resumer[t]]
    /\ toMark' = {t \in toMark : owner[t] # p}
    /\ UNCHANGED <<ticketVars, owner>>

ReportStep(p) == FindDuplicate(p) \/ CountActive(p) \/ InsertTicket(p) \/ ReportFails(p)

RunStep(t) ==
    \/ TriggerFails(t) \/ RunReturns(t) \/ MarkInProgress(t) \/ MarkFails(t)
    \/ RunEnds(t) \/ Resolve(t)

CollectorNext ==
    \/ \E p \in Procs :
        \/ \E s \in Sigs : Report(p, s)
        \/ ReportStep(p) \/ CooldownEnds(p) \/ RestartProcess(p)
    \/ \E t \in Ticket :
        \/ RunStep(t) \/ Expire(t)
        \/ \E p \in Procs : Resume(t, p)

CollectorSpec == CollectorInit /\ [][CollectorNext]_collectorVars

-----------------------------------------------------------------------------
(* Properties                                                               *)

\* "Deduplication (the same error does not start the workflow twice)"
\* (error-collector.ts:8): no two active tickets are about the same error.
NoDuplicateHealing ==
    \A t, u \in Active : sig[t] = sig[u] => t = u

\* What the reading before the insertion achieves when servers share the database:
\* however their reports, runs and restarts interleave, no server has two active
\* tickets about the same error.  Only a report of another server that ran side by
\* side adds one.
NoSecondOfOneServer ==
    \A t, u \in Active : sig[t] = sig[u] /\ owner[t] = owner[u] => t = u

\* "Limit of active tasks: max ERROR_COLLECTOR_MAX_ACTIVE" (error-collector.ts:10):
\* every other server may have counted before the last ticket was inserted, so the
\* limit is passed by at most one ticket for each of them, and never grows with the
\* reports.
ActiveBounded == Cardinality(Active) <= MaxActive + Cardinality(Procs) - 1

\* A ticket that was resolved or has failed does not come back to life: it never
\* again takes one of the MaxActive places.
ClosedStaysClosed ==
    [][\A t \in Ticket :
        status[t] \in {"resolved", "failed"} => status'[t] \notin ActiveStatus]_collectorVars

-----------------------------------------------------------------------------
\* Servers, like errors, differ in nothing but their names.
Symmetry == Permutations(Procs) \cup Permutations(Sigs)
=============================================================================
