----------------------------- MODULE MCSessionData -----------------------------
(* Two projects and five requests: a first load that is slower than two
   choices of the user, a tab that is closed and opened in between, and a
   logout with a request in flight. *)
EXTENDS SessionData

CONSTANTS p1, p2, all

MCProjects == {p1, p2}
===============================================================================
