------------------------------ MODULE MCFailover ------------------------------
(***************************************************************************)
(* Two requests over two providers, whose failovers, admin calls and quota *)
(* reports race.  The program starts with one provider, so that the first  *)
(* save may add the other and the second change either, or delete the one  *)
(* and import it again.  Or the second save adds a third provider, which   *)
(* maps the asked model as the first does: a request then tries it before  *)
(* the second, and the second when it fails.                               *)
(***************************************************************************)
EXTENDS Failover, TLC

CONSTANTS a, b, c, r1, r2

MCThreeProviders == {a, b, c}
MCFirstAlone == <<a>>
MCMappedModel == (a :> "large") @@ (b :> "small") @@ (c :> "large")
MCTwoRequests == {r1, r2}
MCTimedKinds == {Quota}
MCSymmetry == Permutations(MCTwoRequests)

\* The program starts with automatic failover on.
MCInit == Init /\ auto

\* The third provider is added last and has no failure of its own.  Only the
\* first is tested, before the second save.  One request at a time is served
\* while the third is listed or the first is being tested.
OneRequest == \A q, r \in Requests : pc[q] # "idle" /\ pc[r] # "idle" => q = r
MCShape ==
    /\ quarantine[c] = NoRow
    /\ \A p \in {b, c} : <<"test", p>> \notin calls
    /\ c \in Listed(order) => enabled = Providers /\ OneRequest
    /\ <<"test", a>> \in calls => edits < MaxEdits /\ OneRequest
MCNext == Next /\ MCShape'
MCSpec == MCInit /\ [][MCNext]_vars
===============================================================================
