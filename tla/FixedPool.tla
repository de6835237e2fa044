------------------------------- MODULE FixedPool -------------------------------
(***************************************************************************)
(* A pool of execution slots as the request handler relies on it, while    *)
(* its configuration stays the same: who owns a slot, who waits for one,   *)
(* and that a slot given back goes to somebody who waits, whoever that is. *)
(* RateLimitQueue implements it when its limits are not edited; the pools  *)
(* that RequestPath uses are such pools.                                   *)
(***************************************************************************)
EXTENDS Naturals, FiniteSets

CONSTANTS
    Callers,
    Limit,  \* how many slots there are
    Room    \* how many callers may wait

VARIABLES
    holders,  \* the callers that own a slot
    line      \* the callers that wait for one

fixedVars == <<holders, line>>

FixedInit == holders = {} /\ line = {}

SlotFree == line = {} /\ Cardinality(holders) < Limit

Take(c) ==
    /\ c \notin holders
    /\ SlotFree
    /\ holders' = holders \union {c}
    /\ UNCHANGED line

Wait(c) ==
    /\ c \notin holders \union line
    /\ ~ SlotFree
    /\ Cardinality(line) < Room
    /\ line' = line \union {c}
    /\ UNCHANGED holders

\* Nobody waits, or the slot changes hands.
HandOn(c) ==
    /\ c \in holders
    /\ \/ /\ line = {}
          /\ holders' = holders \ {c}
          /\ UNCHANGED line
       \/ \E d \in line :
             /\ holders' = (holders \ {c}) \union {d}
             /\ line' = line \ {d}

Leave(c) ==
    /\ c \in line
    /\ line' = line \ {c}
    /\ UNCHANGED holders

FixedNext == \E c \in Callers : Take(c) \/ Wait(c) \/ HandOn(c) \/ Leave(c)

FixedSpec == FixedInit /\ [][FixedNext]_fixedVars
===============================================================================
