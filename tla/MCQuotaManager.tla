---------------------------- MODULE MCQuotaManager ----------------------------
(***************************************************************************)
(* One provider: its queries share only the semaphore with those of the    *)
(* others, whose part the draft queries play.  Two versions let it be      *)
(* saved, or deleted and imported, under a query, and let an interval edit *)
(* bring back the settings another edit replaced.                          *)
(***************************************************************************)
EXTENDS QuotaManager, TLC

CONSTANTS p, c1, c2, c3

MCProviders == {p}
MCCallers == {c1, c2, c3}
MCTwoCallers == {c1, c2}
MCSymmetry == Permutations(MCCallers)
===============================================================================
