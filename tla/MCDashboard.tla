------------------------------ MODULE MCDashboard ------------------------------
(* Navigations that overlap, one of them left behind by a logout, a dashboard
   that is unmounted during each await of its onMounted, one saved mode, and
   one chosen theme or a mode saved from another page: the theme has no part
   in the connection mode. *)
EXTENDS Dashboard

CONSTANTS transparent, tunnel

MCModes == {transparent, tunnel}
MCShape == others = 0 \/ choices = 0
MCNext == Next /\ MCShape'
MCSpec == Init /\ [][MCNext]_vars /\ Fairness
===============================================================================
