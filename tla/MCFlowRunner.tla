---------------------------- MODULE MCFlowRunner ----------------------------
(* TLC instances of FlowRunner: the configurations of the flow and the     *)
(* column sets of its source table.                                        *)
EXTENDS FlowRunner, TLC

Schema1 == {"id"}
\* A column is added and may be dropped again.
DriftSchemas == {{"id"}, {"id", "extra"}}

\* A daemon that upserts with a cursor; its storage may apply a save late.
Daemon == [mode |-> "Daemon", cursorless |-> FALSE, insert |-> FALSE,
           wildcard |-> FALSE, identity |-> TRUE, detaches |-> {"storage"},
           schemas |-> {{"id"}}]
\* The same flow under run --once.
Once == [Daemon EXCEPT !.mode = "Once"]
\* A one-shot raw-passthrough flow.
Raw == [Once EXCEPT !.cursorless = TRUE, !.insert = TRUE, !.detaches = {}]
\* A wildcard flow over a table whose columns change.
Drift == [Daemon EXCEPT !.wildcard = TRUE, !.identity = FALSE, !.detaches = {},
                        !.schemas = DriftSchemas]
\* A daemon whose sink may apply a write late.
LateSink == [Daemon EXCEPT !.detaches = {"sink", "storage"}]

AllConfs == {Daemon, Once, Raw, Drift, LateSink}
LiveConfs == {Daemon, Once, Raw}

\* Keys are only compared for equality.
Symmetry == Permutations(Key)
=============================================================================
