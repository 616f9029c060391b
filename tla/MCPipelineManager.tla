------------------------- MODULE MCPipelineManager -------------------------
(* Instances of PipelineManager for TLC. *)
EXTENDS PipelineManager, TLC

CONSTANTS i1, r1, r2

\* Three stages in the first execution, two in the second. Stages 1 and 4 have one
\* name, and one of them may run at a time.
InExecution == [s \in Stages |-> IF s <= 3 THEN 1 ELSE 2]
NameOf == [s \in Stages |-> IF s = 4 THEN 1 ELSE s]
OneAtATime == [s \in Stages |-> IF s \in {1, 4} THEN 1 ELSE 0]
OneServer == [r \in Runners |-> i1]
AnyStage == [r \in Runners |-> Stages]

Graph(d1, d2, d3) == <<d1, d2, d3>>

Config(graph, skip, onSuccess, onFailure, cancelable) ==
    [dependsOn |-> graph, skip |-> skip, onSuccess |-> onSuccess,
     onFailure |-> onFailure, cancelable |-> cancelable]

Cyclic ==
    {Config(g, {}, {1, 2, 3}, {}, FALSE) :
        g \in {Graph({1}, {}, {}), Graph({2, 3}, {3}, {2}), Graph({3}, {1}, {2})}}

\* Both of two stages before a third; one before two, one of which runs on failure
\* only; a chain whose middle is skipped, which may be canceled; and one stage alone,
\* which leaves room for the second execution.
Join == Config(Graph({}, {}, {1, 2}), {}, {1, 2, 3}, {}, FALSE)
Fork == Config(Graph({}, {1}, {1}), {}, {1, 2}, {3}, FALSE)
Bridge == Config(Graph({}, {1}, {2}), {2}, {1, 2, 3}, {}, TRUE)
Solo == Config(Graph({}, {}, {}), {2, 3}, {1, 2, 3}, {}, FALSE)

Second == Config([s \in {4, 5} |-> {}], {}, {4, 5}, {}, FALSE)

SomeConfigs ==
    [e \in Executions |->
        IF e = 2 THEN {Second} ELSE {Join, Fork, Bridge, Solo} \cup Cyclic]

Symmetry == Permutations(Runners)
============================================================================
