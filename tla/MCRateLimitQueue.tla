--------------------------- MODULE MCRateLimitQueue ---------------------------
(* Four callers: one or two served, and a line of two with a caller that does
   not fit behind it. *)
EXTENDS RateLimitQueue, TLC

CONSTANTS c1, c2, c3, c4

MCCallers == {c1, c2, c3, c4}
MCLimits == 0..2
MCSizes == 1..2
===============================================================================
