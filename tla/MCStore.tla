------------------------------- MODULE MCStore -------------------------------
(* Small instance of Store: a pack that answers with one cell and one probe, *)
(* or with neither.                                                          *)
EXTENDS Store

MCCellIdx == {0}
MCProbe == {"mos"}
MCShapes == {[cells |-> {0}, temps |-> {"mos"}], [cells |-> {}, temps |-> {}]}
=============================================================================
