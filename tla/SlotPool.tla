------------------------------- MODULE SlotPool -------------------------------
(***************************************************************************)
(* What a provider's execution-slot pool promises, without its lock, its   *)
(* counter or its channels: at most one set of holders, one first-come     *)
(* first-served line, and a slot that reaches a caller in exactly one of   *)
(* two ways, entering past an empty line or being the head of the line     *)
(* when a slot is free.  RateLimitQueue implements it.                     *)
(***************************************************************************)
EXTENDS Naturals, Sequences, FiniteSets

CONSTANT Callers

VARIABLES holders,  \* the callers that own an execution slot
          line,     \* the callers waiting for one, oldest first
          cap       \* the current concurrency limit

poolVars == <<holders, line, cap>>

Waiting == {line[i] : i \in DOMAIN line}

PoolInit == holders = {} /\ line = <<>> /\ cap \in Nat

Enter(c) ==
    /\ line = <<>>
    /\ c \notin holders
    /\ Cardinality(holders) < cap
    /\ holders' = holders \union {c}
    /\ UNCHANGED <<line, cap>>

Join(c) ==
    /\ c \notin holders \union Waiting
    /\ line' = Append(line, c)
    /\ UNCHANGED <<holders, cap>>

\* A caller gives its slot back; the slot may pass to the head of the line
\* in the same step, and only to the head.
Return(c) ==
    /\ c \in holders
    /\ \/ holders' = holders \ {c} /\ UNCHANGED line
       \/ /\ line # <<>>
          /\ Cardinality(holders \ {c}) < cap
          /\ holders' = (holders \ {c}) \union {Head(line)}
          /\ line' = Tail(line)
    /\ UNCHANGED cap

Abandon(i) ==
    /\ i \in DOMAIN line
    /\ line' = SubSeq(line, 1, i - 1) \o SubSeq(line, i + 1, Len(line))
    /\ UNCHANGED <<holders, cap>>

Resize ==
    /\ cap' \in Nat
    /\ UNCHANGED <<holders, line>>

PoolNext ==
    \/ \E c \in Callers : Enter(c) \/ Join(c) \/ Return(c)
    \/ \E i \in DOMAIN line : Abandon(i)
    \/ Resize

PoolSpec == PoolInit /\ [][PoolNext]_poolVars
===============================================================================
