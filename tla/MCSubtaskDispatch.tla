-------------------------- MODULE MCSubtaskDispatch --------------------------
EXTENDS RoutedDispatch, TLC
CONSTANTS s1, s2, s3, m1, m2

\* A light and a heavy local model, one that is free and one that is not.
MCRegistry == <<
    [tier |-> 2, maxComplexity |-> 1, vramMb |-> 4, costPerCall |-> 0, avgLatencyMs |-> 4],
    [tier |-> 3, maxComplexity |-> 3, vramMb |-> 6, costPerCall |-> 0, avgLatencyMs |-> 8],
    [tier |-> 4, maxComplexity |-> 2, vramMb |-> 0, costPerCall |-> 0, avgLatencyMs |-> 5],
    [tier |-> 6, maxComplexity |-> 3, vramMb |-> 0, costPerCall |-> 8, avgLatencyMs |-> 5]>>

MCNeeded == s1 :> 1 @@ s2 :> 3 @@ s3 :> 2

\* Two side by side and one after both; one before two; a circle.
Join == s1 :> {} @@ s2 :> {} @@ s3 :> {s1, s2}
Fork == s1 :> {} @@ s2 :> {s1} @@ s3 :> {s1}
Circle == s1 :> {} @@ s2 :> {s3} @@ s3 :> {s2}

MCPlans == {Join, Fork, Circle}

Bare(plan, start) ==
    [needs |-> plan, gpu |-> FALSE, free |-> {}, start |-> start, flaky |-> {}, msgs |-> {},
     others |-> 0]

Card(r) == [r EXCEPT !.gpu = TRUE, !.free = {9}]

\* Messages with every plan and one model, which is all there is; a card with room for either
\* local model and not for both, and other models beside one of them, both or none; no card,
\* models that come and go, and others that use them.
MCSettings ==
    {[Bare(plan, {4}) EXCEPT !.msgs = {m1, m2}] : plan \in MCPlans}
    \cup {Card(Bare(Join, {1, 2, 3})), Card(Bare(Fork, {2, 4})), Card(Bare(Join, {1}))}
    \cup {[Bare(Fork, {3, 4}) EXCEPT !.flaky = {3}, !.msgs = {m1}],
          [Bare(Fork, 1..4) EXCEPT !.flaky = {4}, !.others = 2]}
=============================================================================
