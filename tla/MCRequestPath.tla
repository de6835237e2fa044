---------------------------- MODULE MCRequestPath ----------------------------
(***************************************************************************)
(* Two requests over two providers with one slot and one place in line     *)
(* each, so that each may hold what the other queues for, and a third      *)
(* without a limit, so that a dropped candidate is followed by another.    *)
(* Only the first provider has 429 retries.                                *)
(***************************************************************************)
EXTENDS RequestPath, TLC

CONSTANTS a, b, c, r1, r2

MCRouted == (r1 :> {a}) @@ (r2 :> {a, b, c})
MCLimit == (a :> 1) @@ (b :> 1) @@ (c :> 0)
MCPlaces == (a :> 1) @@ (b :> 1) @@ (c :> 0)
MCAttempts == (a :> 1) @@ (b :> 0) @@ (c :> 0)
===============================================================================
