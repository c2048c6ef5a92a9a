--------------------------- MODULE PendingMessages ---------------------------
(***************************************************************************)
(* services/pending-message-queue.ts and the processor that injects what   *)
(* it takes: messages wait in the database for the next safe interrupt     *)
(* point of their owner.  To take messages is to find them, to mark them   *)
(* consumed and to hand them over: three steps, and several takers, such   *)
(* as two turns of one thread, may have the same owner.                    *)
(***************************************************************************)
EXTENDS Integers, FiniteSets

CONSTANTS
    Msgs,           \* messages, all of one owner
    Takers,         \* interrupt points of that owner that may run at a time
    Limit           \* messages taken at once

ASSUME QueueAssumption == Limit \in Nat \ {0}

VARIABLES
    msg,            \* message -> status, "gone" after its expiresAt
    urgent,         \* urgent messages
    taker,          \* taker -> step of takePendingMessages and the messages found
    delivered       \* history: messages an agent of the owner got

msgVars == <<msg, urgent, taker, delivered>>

Idle == [step |-> "find", found |-> {}]

MessagesOK ==
    /\ msg \in [Msgs -> {"none", "pending", "consumed", "gone"}]
    /\ urgent \subseteq Msgs
    /\ taker \in [Takers -> [step : {"find", "mark", "return"}, found : SUBSET Msgs]]
    /\ delivered \subseteq Msgs

InitMessages ==
    /\ msg = [m \in Msgs |-> "none"]
    /\ urgent = {}
    /\ taker = [k \in Takers |-> Idle]
    /\ delivered = {}

\* queuePendingMessage
Queue(m, isUrgent) ==
    /\ msg[m] = "none"
    /\ msg' = [msg EXCEPT ![m] = "pending"]
    /\ urgent' = IF isUrgent THEN urgent \cup {m} ELSE urgent
    /\ UNCHANGED <<taker, delivered>>

Pending == {m \in Msgs : msg[m] = "pending"}

\* Mutant: the urgent ones first, and only them.
UrgentBatch(found) == found # {} /\ found \subseteq Pending \cap urgent

\* sort({ urgent: -1 }).limit(limit); which of two equally urgent messages is older
\* makes no difference here.
Batch(found) ==
    /\ found # {}
    /\ found \subseteq Pending
    /\ Cardinality(found) <= Limit
    /\ \A m \in found, n \in Pending \ found :
        /\ Cardinality(found) = Limit
        /\ n \in urgent => m \in urgent

Find(k) ==
    /\ taker[k].step = "find"
    /\ \E found \in SUBSET Msgs :
        /\ Batch(found)
        /\ taker' = [taker EXCEPT ![k] = [step |-> "mark", found |-> found]]
    /\ UNCHANGED <<msg, urgent, delivered>>

Consumed(found) == [m \in Msgs |-> IF m \in found \cap Pending THEN "consumed" ELSE msg[m]]

\* Mutant: returned is what is still pending after it was marked.
MarkRefinds(k) ==
    /\ taker[k].step = "mark"
    /\ msg' = Consumed(taker[k].found)
    /\ taker' = [taker EXCEPT ![k] = [step |-> "return", found |-> @.found \ Pending]]
    /\ UNCHANGED <<urgent, delivered>>

\* markConsumed, whose count nobody looks at.
Mark(k) ==
    /\ taker[k].step = "mark"
    /\ msg' = Consumed(taker[k].found)
    /\ taker' = [taker EXCEPT ![k].step = "return"]
    /\ UNCHANGED <<urgent, delivered>>

\* The database throws, before or after it has marked: no messages are returned.
TakeFails(k) ==
    /\ taker[k].step = "mark"
    /\ msg' \in {msg, Consumed(taker[k].found)}
    /\ taker' = [taker EXCEPT ![k] = Idle]
    /\ UNCHANGED <<urgent, delivered>>

\* The messages are in the prompt of the owner's agent.
Return(k) ==
    /\ taker[k].step = "return"
    /\ delivered' = delivered \cup taker[k].found
    /\ taker' = [taker EXCEPT ![k] = Idle]
    /\ UNCHANGED <<msg, urgent>>

\* The condition on expiresAt, then the TTL index; a consumed message is not missed.
ExpireMessage(m) ==
    /\ msg[m] = "pending"
    /\ msg' = [msg EXCEPT ![m] = "gone"]
    /\ UNCHANGED <<urgent, taker, delivered>>

\* The server goes, and what its takers had found with it.
LoseTakers ==
    /\ taker' = [k \in Takers |-> Idle]
    /\ UNCHANGED <<msg, urgent, delivered>>

Take(k) == Find(k) \/ Mark(k) \/ Return(k)
=============================================================================
