---------------------------- MODULE MCStoreReader ----------------------------
(* A small instance of StoreReader: two cells, a probe, three polls, limits  *)
(* that three rows exceed, and windows on which the width of a bucket is     *)
(* exact, is rounded down, and would be rounded to zero.  A database with a  *)
(* poll in every millisecond fills all the buckets there can be.             *)
EXTENDS StoreReader

MCProbe == {"mos"}
MCShapes == {[cells |-> {0, 1}, temps |-> {"mos"}], [cells |-> {}, temps |-> {}]}
MCWindows == {[from |-> 0, to |-> 4], [from |-> 1, to |-> 4], [from |-> 2, to |-> 3]}
MCFound == {{}, {[id |-> i, ts |-> i, cells |-> {0, 1}, temps |-> {"mos"}] : i \in 1..4}}
=============================================================================
