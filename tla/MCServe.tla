------------------------------- MODULE MCServe -------------------------------
(* Small instance of Serve: one cell, a two-step backoff, one request. *)
EXTENDS Serve

MCCellIdx == {0}
MCProbe == {}
MCShapes == {[cells |-> {0}, temps |-> {}]}
MCBackoffSchedule == <<1>>
=============================================================================
