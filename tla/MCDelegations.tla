---------------------------- MODULE MCDelegations ----------------------------
(* A background task, or a delegation, with another message beside it. *)
EXTENDS Delegations

CONSTANTS b1, d1, u1

\* A delegation here belongs to no code task and has a run and a thread of its own.
MCOwn == [d \in Delegs |-> d]
MCCodeTask == [d \in Delegs |-> NoTask]
=============================================================================
