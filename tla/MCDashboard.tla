----------------------------- MODULE MCDashboard -----------------------------
(* Small instance of Dashboard: one bounded range and "all", one custom window. *)
EXTENDS Dashboard

MCRanges == {"24h", "all"}
MCRangeMS == [r \in MCRanges |-> IF r = "all" THEN Unbounded ELSE 2]
MCWindows == {[from |-> 0, to |-> 1]}
=============================================================================
