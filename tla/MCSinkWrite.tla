---------------------------- MODULE MCSinkWrite -----------------------------
(* TLC instance of SinkWrite: every sink, strategy and kind of source.     *)
EXTENDS SinkWrite

AllFlows == [kind : Kind, strategy : Strategy, cdc : BOOLEAN]
=============================================================================
