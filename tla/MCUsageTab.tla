------------------------------- MODULE MCUsageTab -------------------------------
(* Two filters and two page sizes over at most two rows: two pages of one row,
   or one page of two. *)
EXTENDS UsageTab

MCFilters == {"all", "error"}
MCSizes == {1, 2}
=================================================================================
