---------------------------- MODULE MCFlowEngine ----------------------------
(* TLC instances of FlowEngine: which component each flow uses.            *)
EXTENDS FlowEngine, TLC

Wire(src, snk, sto) == [source |-> src, sink |-> snk, storage |-> sto]

Components == {"src", "snk", "sto"}
\* One source pool with room for two, one sink and one storage with one.
Roomy == [c \in Components |-> IF c = "src" THEN 2 ELSE 1]
AllShared == [f \in 1..N |-> Wire("src", "snk", "sto")]
=============================================================================
