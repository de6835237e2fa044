------------------------------- MODULE LatestWins -------------------------------
(***************************************************************************)
(* What a view that shows the answer of its newest request promises: an    *)
(* answer is taken once, it closes every request that was sent before it,  *)
(* and so what is shown never goes back to an older answer.  Requests are  *)
(* numbered in the order they are sent.  SessionData implements it.        *)
(***************************************************************************)
EXTENDS Naturals

VARIABLES sent,   \* the number of the last request
          open,   \* the requests whose answer would still be taken
          shown   \* the request whose answer is shown, 0 when nothing is

latestVars == <<sent, open, shown>>

LatestInit == sent = 0 /\ open = {} /\ shown = 0

\* A new request may supersede any of the earlier ones.
Send ==
    /\ sent' = sent + 1
    /\ open' \in SUBSET (open \union {sent'})
    /\ UNCHANGED shown

Take(r) ==
    /\ shown' = r
    /\ open' \in SUBSET {s \in open : r < s}
    /\ UNCHANGED sent

\* Requests fail or are given up.
GiveUp ==
    /\ open' \in SUBSET open
    /\ UNCHANGED <<sent, shown>>

Forget ==
    /\ shown' = 0
    /\ open' \in SUBSET open
    /\ UNCHANGED sent

LatestNext == Send \/ (\E r \in open : Take(r)) \/ GiveUp \/ Forget

LatestSpec == LatestInit /\ [][LatestNext]_latestVars
===============================================================================
