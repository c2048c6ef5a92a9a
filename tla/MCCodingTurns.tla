---------------------------- MODULE MCCodingTurns ----------------------------
(* A maintenance task, or three turns of a task, or a tool call in one of them. *)
EXTENDS CodingTurns, TLC

CONSTANTS t1, t2, t3, task1

Perms == Permutations({t1, t2})

\* The last turn was delegated, without a task, to the thread in which the others work.
MCThread == [t \in Turns |-> task1]
MCCodeTask == [t \in Turns |-> IF t = t3 THEN NoTask ELSE task1]

Says(ends, fields, texts) == [ends |-> ends, fields |-> fields, texts |-> texts]

MCOutputs ==
    {Says("good", {}, {}), Says("bad", {"class_policy", "validation_errors"}, {}), Says("bad", {}, {"validation"}),
     Says("throws", {}, {"policy"}), Says("throws", {}, {"approval", "validation"})}

Asks(what, target) == [action |-> what, target |-> target, classes |-> {}]
Commands(classes) == [action |-> "run_command", target |-> "missing", classes |-> classes]

MCToolRequests ==
    {{}, {Asks("apply_patch", "missing")}, {Asks("write_file", "below")},
     {Asks("read_file", "live"), Commands({"readonly"})},
     {Commands({"verification", "network"})}}
=============================================================================
